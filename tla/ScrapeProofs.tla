----------------------------- MODULE ScrapeProofs -----------------------------
(***************************************************************************)
(* Crawls and ads use the pool of contexts as ContextPool allows: every    *)
(* step of Scrape is a step of the pool or leaves it alone, so that what   *)
(* ContextPoolProofs shows of the pool holds of the jobs.  And what crawls *)
(* end with is explained, and their pages are those of the search.  All    *)
(* this for every set of jobs, every page a site may serve and every       *)
(* number of retries.                                                      *)
(*                                                                         *)
(* The links of a page are folds over sequences.  What a fold computes is  *)
(* shown here by the least-number principle, in LinksOfType and            *)
(* AddLinksGrows; of Visit, VisitMade is all that the invariant needs.     *)
(***************************************************************************)
EXTENDS Scrape, ContextPoolProofs, NaturalsInduction, WellFoundedInduction

-----------------------------------------------------------------------------
(* The pool.                                                               *)

\* What becomes of the pool in a step of a crawl.
LEMMA CrawlStepPool ==
  ASSUME NEW j \in Crawls, CrawlStep(j)
  PROVE  [PoolNext]_poolVars
<1>1. j \in Jobs
  BY ScrapeAssumption
<1>2. CASE BeginAttempt(j)
  BY <1>1, <1>2 DEF BeginAttempt, PoolNext
<1>3. CASE RefuseSearch(j)
  BY <1>1, <1>3 DEF RefuseSearch, PoolNext
<1>4. CASE OpenPage(j)
  BY <1>1, <1>4 DEF OpenPage, PoolNext
<1>5. CASE CrawlRaises(j)
  BY <1>1, <1>5 DEF CrawlRaises, PoolNext
<1>6. CASE TryAgain(j)
  BY <1>6 DEF TryAgain
<1> QED BY <1>2, <1>3, <1>4, <1>5, <1>6 DEF CrawlStep

\* What becomes of the pool in a step of an ad.
LEMMA AdStepPool ==
  ASSUME NEW j \in AdJobs, AdStep(j)
  PROVE  [PoolNext]_poolVars
<1>1. j \in Jobs
  BY ScrapeAssumption
<1>2. CASE BeginAd(j)
  BY <1>1, <1>2 DEF BeginAd, PoolNext
<1>3. CASE LeaveAd(j)
  BY <1>1, <1>3 DEF LeaveAd, PoolNext
<1>4. CASE LoadAd(j) \/ LoadAgain(j) \/ BeginChat(j) \/ Chat(j) \/ ChatAgain(j)
  BY <1>4 DEF LoadAd, LoadAgain, BeginChat, Chat, ChatAgain
<1> QED BY <1>2, <1>3, <1>4 DEF AdStep

\* Every step uses the pool as PoolNext has it, or leaves it alone.
LEMMA NextPool == [Next]_vars => [PoolNext]_poolVars
<1> SUFFICES ASSUME [Next]_vars PROVE [PoolNext]_poolVars
  OBVIOUS
<1>1. ASSUME NEW j \in Crawls, CrawlStep(j) PROVE [PoolNext]_poolVars
  BY <1>1, CrawlStepPool
<1>2. ASSUME NEW j \in AdJobs, AdStep(j) PROVE [PoolNext]_poolVars
  BY <1>2, AdStepPool
<1>3. ASSUME NEW j \in Jobs, Acquire(j) \/ NoContext(j) PROVE [PoolNext]_poolVars
  BY <1>3 DEF Acquire, NoContext, PoolNext, PoolStep
<1>4. CASE BrokerRestarts
  BY <1>4 DEF BrokerRestarts, PoolNext
<1>5. CASE UNCHANGED vars
  BY <1>5 DEF vars
<1>6. ASSUME NEW j \in Jobs, Hang(j) PROVE [PoolNext]_poolVars
  BY <1>6 DEF Hang
<1> QED BY <1>1, <1>2, <1>3, <1>4, <1>5, <1>6 DEF Next

-----------------------------------------------------------------------------
(* What folds over sequences compute.                                      *)

\* The least-number principle.
LEMMA LeastNat ==
  ASSUME NEW S \in SUBSET Nat, S # {}
  PROVE  \E x \in S : \A y \in S : x <= y
<1> DEFINE R == OpToRel(<, Nat)
<1>1. R = {p \in Nat \X Nat : p[1] < p[2]}
  BY DEF OpToRel
<1>2. PICK x \in S : \A y \in S : <<y, x>> \notin R
  BY NatLessThanWellFounded, WFMin
<1>3. \A y \in S : ~ (y < x)
  BY <1>1, <1>2
<1> QED BY <1>3

\* The last of some indices of a sequence.
LEMMA LastIndex ==
  ASSUME NEW n \in Nat, NEW s \in SUBSET (1 .. n), s # {}
  PROVE  Max(s) \in s /\ \A x \in s : x <= Max(s)
<1> DEFINE D == {n - x : x \in s}
<1>1. D \in SUBSET Nat /\ D # {}
  <2>1. \A x \in s : n - x \in Nat
    OBVIOUS
  <2> QED BY <2>1
<1>2. PICK d \in D : \A e \in D : d <= e
  BY <1>1, LeastNat
<1>3. PICK m \in s : d = n - m
  BY <1>2
<1>4. \A x \in s : m >= x
  BY <1>2, <1>3
<1>5. Max(s) \in s /\ \A x \in s : Max(s) >= x
  BY <1>4 DEF Max
<1> QED BY <1>5

\* f is, on the indices s, the fold from base with step[i] at element i.
Follows(f, s, base, step) ==
  f[s] = IF s = {} THEN base ELSE step[Max(s)][f[s \ {Max(s)}]]

\* A fold over a sequence of n elements exists: step[i] is what element i
\* makes of the result so far.
LEMMA FoldExists ==
  ASSUME NEW n \in Nat, NEW X, NEW base \in X, NEW step \in [1 .. n -> [X -> X]]
  PROVE  \E f \in [SUBSET (1 .. n) -> X] :
            \A s \in SUBSET (1 .. n) : Follows(f, s, base, step)
<1> DEFINE Exists(k) == \E f \in [SUBSET (1 .. k) -> X] :
                          \A s \in SUBSET (1 .. k) : Follows(f, s, base, step)
           Bad == {k \in 0 .. n : ~ Exists(k)}
<1>1. Exists(0)
  <2> DEFINE f == [s \in SUBSET (1 .. 0) |-> base]
  <2>1. f \in [SUBSET (1 .. 0) -> X]
    OBVIOUS
  <2>2. \A s \in SUBSET (1 .. 0) : s = {} /\ f[s] = base
    OBVIOUS
  <2> QED BY <2>1, <2>2 DEF Follows
<1>2. ASSUME NEW k \in 1 .. n, Exists(k - 1) PROVE Exists(k)
  <2>1. PICK g \in [SUBSET (1 .. (k - 1)) -> X] :
           \A s \in SUBSET (1 .. (k - 1)) : Follows(g, s, base, step)
    BY <1>2
  <2> DEFINE f == [s \in SUBSET (1 .. k) |-> IF k \in s THEN step[k][g[s \ {k}]] ELSE g[s]]
  <2>2. ASSUME NEW s \in SUBSET (1 .. k) 
        PROVE  /\ s \ {k} \in SUBSET (1 .. (k - 1))
               /\ k \notin s => s \in SUBSET (1 .. (k - 1))
    OBVIOUS
  <2>3. f \in [SUBSET (1 .. k) -> X]
    <3> SUFFICES ASSUME NEW s \in SUBSET (1 .. k)
                 PROVE  (IF k \in s THEN step[k][g[s \ {k}]] ELSE g[s]) \in X
      OBVIOUS
    <3>1. g[s \ {k}] \in X
      BY <2>2
    <3>2. step[k] \in [X -> X]
      OBVIOUS
    <3>3. step[k][g[s \ {k}]] \in X
      BY <3>1, <3>2
    <3> QED BY <2>2, <3>3
  <2>4. ASSUME NEW s \in SUBSET (1 .. k) PROVE Follows(f, s, base, step)
    <3>1. CASE k \in s
      <4>1. Max(s) = k
        <5>1. k \in Nat /\ s # {}
          BY <3>1
        <5>2. Max(s) \in s /\ \A x \in s : x <= Max(s)
          BY <5>1, LastIndex
        <5>3. Max(s) \in 1 .. k /\ k <= Max(s)
          BY <3>1, <5>2
        <5> QED BY <5>3
      <4>2. s \ {k} \in SUBSET (1 .. k) /\ k \notin s \ {k}
        OBVIOUS
      <4>3. f[s \ {k}] = g[s \ {k}]
        BY <4>2
      <4>4. f[s] = step[k][g[s \ {k}]]
        BY <3>1
      <4> QED BY <3>1, <4>1, <4>3, <4>4 DEF Follows
    <3>2. CASE k \notin s
      <4>1. f[s] = g[s] /\ Follows(g, s, base, step)
        BY <2>1, <2>2, <3>2
      <4>2. s \ {Max(s)} \in SUBSET (1 .. k) /\ k \notin s \ {Max(s)}
        BY <3>2
      <4>3. f[s \ {Max(s)}] = g[s \ {Max(s)}]
        BY <4>2
      <4> QED BY <4>1, <4>3 DEF Follows
    <3> QED BY <3>1, <3>2
  <2> QED BY <2>3, <2>4
<1>3. Bad = {}
  <2> SUFFICES ASSUME Bad # {} PROVE FALSE
    OBVIOUS
  <2> HIDE DEF Exists
  <2>1. Bad \in SUBSET Nat
    OBVIOUS
  <2>2. PICK k \in Bad : \A m \in Bad : k <= m
    BY <2>1, LeastNat
  <2>3. k \in 1 .. n /\ ~ Exists(k)
    BY <1>1
  <2>4. k - 1 \in 0 .. n /\ k - 1 \notin Bad
    BY <2>2, <2>3
  <2> QED BY <1>2, <2>3, <2>4
<1>4. n \in 0 .. n
  OBVIOUS
<1>5. Exists(n)
  <2> HIDE DEF Exists
  <2> QED BY <1>3, <1>4
<1> QED BY <1>5

\* What every step of a fold keeps, its result has.
LEMMA FoldStays ==
  ASSUME NEW n \in Nat, NEW X, NEW f, f[{}] \in X,
         \A s \in SUBSET (1 .. n) : (s # {} /\ f[s \ {Max(s)}] \in X) => f[s] \in X
  PROVE  f[1 .. n] \in X
<1> DEFINE Bad == {k \in 0 .. n : \E s \in SUBSET (1 .. k) : f[s] \notin X}
<1>1. Bad = {}
  <2> SUFFICES ASSUME Bad # {} PROVE FALSE
    OBVIOUS
  <2>1. Bad \in SUBSET Nat
    OBVIOUS
  <2>2. PICK k \in Bad : \A m \in Bad : k <= m
    BY <2>1, LeastNat
  <2>3. PICK s \in SUBSET (1 .. k) : f[s] \notin X
    BY <2>2
  <2>4. s # {} /\ s \in SUBSET (1 .. n)
    <3>1. k \in Nat /\ k <= n
      OBVIOUS
    <3>2. 1 .. k \subseteq 1 .. n
      BY <3>1
    <3>3. s # {}
      BY <2>3
    <3> QED BY <3>2, <3>3
  <2>5. Max(s) \in s /\ \A x \in s : x <= Max(s)
    BY <2>4, LastIndex
  <2>6. Max(s) \in 1 .. k /\ Max(s) - 1 \in 0 .. n /\ Max(s) - 1 < k
    <3>1. Max(s) \in 1 .. k /\ k \in 0 .. n
      BY <2>5
    <3> QED BY <3>1
  <2>7. s \ {Max(s)} \in SUBSET (1 .. (Max(s) - 1))
    <3> SUFFICES ASSUME NEW x \in s, x # Max(s) PROVE x \in 1 .. (Max(s) - 1)
      OBVIOUS
    <3>1. x \in 1 .. k /\ x <= Max(s) /\ k \in Nat
      BY <2>5
    <3> QED BY <3>1, <2>6
  <2>8. Max(s) - 1 \notin Bad
    BY <2>2, <2>6
  <2>9. f[s \ {Max(s)}] \in X
    BY <2>6, <2>7, <2>8
  <2> QED BY <2>3, <2>4, <2>9
<1>2. n \in 0 .. n /\ 1 .. n \in SUBSET (1 .. n)
  OBVIOUS
<1> QED BY <1>1, <1>2

\* The links of cards are links.
LEMMA LinksOfType ==
  ASSUME NEW C, \A c \in C : c.link \in Link, NEW cards \in Seq(C), NEW kept
  PROVE  LinksOf(kept, cards) \in Seq(Link)
<1> DEFINE n == Len(cards)
           X == Seq(Link)
           After(acc, i) == IF cards[i] \in kept THEN Append(acc, cards[i].link) ELSE acc
           step == [i \in 1 .. n |-> [acc \in X |-> After(acc, i)]]
           Folds(g) == g = [s \in SUBSET (DOMAIN cards) |->
                              IF s = {} THEN <<>> ELSE After(g[s \ {Max(s)}], Max(s))]
           fold == CHOOSE g : Folds(g)
<1>1. n \in Nat /\ DOMAIN cards = 1 .. n
  OBVIOUS
<1>2. ASSUME NEW i \in 1 .. n, NEW acc \in X PROVE After(acc, i) \in X
  <2>1. cards[i].link \in Link
    OBVIOUS
  <2> QED BY <2>1
<1>3. step \in [1 .. n -> [X -> X]] /\ <<>> \in X
  BY <1>2
<1>4. PICK f \in [SUBSET (1 .. n) -> X] :
         \A s \in SUBSET (1 .. n) : Follows(f, s, <<>>, step)
  <2> HIDE DEF n, X, step
  <2> QED BY <1>1, <1>3, FoldExists
<1>5. Folds(f)
  <2> HIDE DEF n, X, After
  <2>1. ASSUME NEW s \in SUBSET (1 .. n), s # {}
        PROVE  step[Max(s)][f[s \ {Max(s)}]] = After(f[s \ {Max(s)}], Max(s))
    <3>1. Max(s) \in 1 .. n
      BY <1>1, <2>1, LastIndex
    <3>2. f[s \ {Max(s)}] \in X
      OBVIOUS
    <3> QED BY <3>1, <3>2
  <2> QED BY <1>1, <1>4, <2>1 DEF Follows
<1>6. Folds(fold)
  <2> HIDE DEF Folds
  <2> QED BY <1>5
<1>7. LinksOf(kept, cards) = fold[DOMAIN cards]
  BY DEF LinksOf, FoldLeft, MapThenFoldSet
<1>8. fold[1 .. n] \in X
  <2> HIDE DEF fold, n, X, After
  <2>1. fold[{}] \in X
    BY <1>1, <1>3, <1>6
  <2>2. ASSUME NEW s \in SUBSET (1 .. n), s # {}, fold[s \ {Max(s)}] \in X
        PROVE  fold[s] \in X
    <3>1. Max(s) \in 1 .. n
      BY <1>1, <2>2, LastIndex
    <3>2. fold[s] = After(fold[s \ {Max(s)}], Max(s))
      BY <1>1, <1>6, <2>2
    <3> QED BY <1>2, <2>2, <3>1, <3>2
  <2> QED BY <1>1, <2>1, <2>2, FoldStays
<1> QED BY <1>1, <1>7, <1>8

\* A page never takes links away.
LEMMA AddLinksGrows ==
  ASSUME NEW links \in Seq(Ads), NEW hrefs \in Seq(Link)
  PROVE  AddLinks(links, hrefs) \in Seq(Ads) /\ Len(AddLinks(links, hrefs)) >= Len(links)
<1> DEFINE n == Len(hrefs)
           X == {l \in Seq(Ads) : Len(l) >= Len(links)}
           After(acc, i) == IF Keeps(hrefs[i]) /\ ~Contains(acc, hrefs[i].ad)
                              THEN Append(acc, hrefs[i].ad) ELSE acc
           step == [i \in 1 .. n |-> [acc \in X |-> After(acc, i)]]
           Folds(g) == g = [s \in SUBSET (DOMAIN hrefs) |->
                              IF s = {} THEN links ELSE After(g[s \ {Max(s)}], Max(s))]
           fold == CHOOSE g : Folds(g)
<1>1. n \in Nat /\ DOMAIN hrefs = 1 .. n
  OBVIOUS
<1>2. ASSUME NEW i \in 1 .. n, NEW acc \in X PROVE After(acc, i) \in X
  <2>1. hrefs[i] \in Link
    OBVIOUS
  <2>2. hrefs[i].ad \in Ads
    BY <2>1 DEF Link
  <2>3. acc \in Seq(Ads) /\ Len(acc) \in Nat /\ Len(acc) >= Len(links) /\ Len(links) \in Nat
    OBVIOUS
  <2>4. /\ Append(acc, hrefs[i].ad) \in Seq(Ads)
        /\ Len(Append(acc, hrefs[i].ad)) = Len(acc) + 1
    BY <2>2, <2>3
  <2>5. Append(acc, hrefs[i].ad) \in X
    BY <2>3, <2>4
  <2> QED BY <2>5
<1>3. step \in [1 .. n -> [X -> X]] /\ links \in X
  <2>1. links \in X
    OBVIOUS
  <2> HIDE DEF X, After
  <2> QED BY <1>2, <2>1
<1>4. PICK f \in [SUBSET (1 .. n) -> X] :
         \A s \in SUBSET (1 .. n) : Follows(f, s, links, step)
  <2> HIDE DEF n, X, step
  <2> QED BY <1>1, <1>3, FoldExists
<1>5. Folds(f)
  <2> HIDE DEF n, X, After
  <2>1. ASSUME NEW s \in SUBSET (1 .. n), s # {}
        PROVE  step[Max(s)][f[s \ {Max(s)}]] = After(f[s \ {Max(s)}], Max(s))
    <3>1. Max(s) \in 1 .. n
      BY <1>1, <2>1, LastIndex
    <3>2. f[s \ {Max(s)}] \in X
      OBVIOUS
    <3> QED BY <3>1, <3>2
  <2> QED BY <1>1, <1>4, <2>1 DEF Follows
<1>6. Folds(fold)
  <2> HIDE DEF Folds
  <2> QED BY <1>5
<1>7. AddLinks(links, hrefs) = fold[DOMAIN hrefs]
  BY DEF AddLinks, FoldLeft, MapThenFoldSet
<1>8. fold[1 .. n] \in X
  <2> HIDE DEF fold, n, X, After
  <2>1. fold[{}] \in X
    BY <1>1, <1>3, <1>6
  <2>2. ASSUME NEW s \in SUBSET (1 .. n), s # {}, fold[s \ {Max(s)}] \in X
        PROVE  fold[s] \in X
    <3>1. Max(s) \in 1 .. n
      BY <1>1, <2>2, LastIndex
    <3>2. fold[s] = After(fold[s \ {Max(s)}], Max(s))
      BY <1>1, <1>6, <2>2
    <3> QED BY <1>2, <2>2, <3>1, <3>2
  <2> QED BY <1>1, <2>1, <2>2, FoldStays
<1> QED BY <1>1, <1>7, <1>8

-----------------------------------------------------------------------------
(* The inductive invariant.                                                *)

\* The record of a crawl.
CrawlRow == [pc : CrawlState, attempt : 0 .. Retries, verdict : Verdicts,
             search : DOMAIN Searches, n : Nat, url : Optional(Url),
             links : Seq(Ads), total : Optional(Nat \ {0}), why : Whys, next : Url]

History == [text : SUBSET Indicators, offsite : BOOLEAN, button : BOOLEAN]

\* Between two pages of an attempt: the first page left links and no
\* diagnosis, and did not count zero results.
AttemptInv(c, h) ==
  c.pc = "working" =>
    /\ c.why = ""
    /\ c.n = 0 => c.links = <<>> /\ h.text = {}
    /\ c.n # 0 => c.links # <<>> /\ "zero" \notin h.text

\* A crawl that has ended, as EmptyIsExplained has it.
EndInv(c, h) ==
  (c.pc = "ended" /\ c.verdict # "raised") =>
    /\ c.verdict = "ok" <=> c.links # <<>>
    /\ c.verdict \in {"ok", "confirmed_empty", "blocked", "unknown", "invalid_url"}
    /\ c.verdict = "confirmed_empty" => h.text \cap {"zero", "empty"} # {}
    /\ c.verdict = "ok" => "zero" \notin h.text
    /\ c.verdict = "invalid_url" => c.search \notin Allowed \/ h.offsite

\* The next address keeps the search, as SearchKept has it.
NextInv(c, h) ==
  ~h.button => c.next.query = Searches[c.search].query /\ c.next.page > c.n

\* Of every crawl: its types, its attempt, its end, its next address.
CrawlInv == /\ crawl \in [Crawls -> CrawlRow]
            /\ shown \in [Crawls -> History]
            /\ \A j \in Crawls : /\ AttemptInv(crawl[j], shown[j])
                                 /\ EndInv(crawl[j], shown[j])
                                 /\ NextInv(crawl[j], shown[j])

AdInv == ad \in [AdJobs -> [pc : AdState, tries : 0 .. Retries]]

-----------------------------------------------------------------------------
(* One page.                                                               *)

\* Whatever the source, what is read from a page are links.
LEMMA HrefsType ==
  ASSUME NEW p \in ListingPage, NEW site, NEW bounds
  PROVE  Hrefs(site, p, bounds) \in Seq(Link)
<1>1. p.data # None => NextDataHrefs(p.data, bounds) \in Seq(Link)
  <2> SUFFICES ASSUME p.data # None PROVE NextDataHrefs(p.data, bounds) \in Seq(Link)
    OBVIOUS
  <2> DEFINE C == [link : Link, sentinel : BOOLEAN,
                   price : Optional(Int), hidePrice : BOOLEAN]
  <2>1. p.data \in NextData
    BY DEF ListingPage, Optional
  <2>2. p.data.items \in Seq(C)
    BY <2>1 DEF NextData
  <2>3. \A c \in C : c.link \in Link
    OBVIOUS
  <2> HIDE DEF C
  <2> QED BY <2>2, <2>3, LinksOfType DEF NextDataHrefs
<1>2. p.organic # None => OrganicHrefs(p.organic) \in Seq(Link)
  <2> SUFFICES ASSUME p.organic # None PROVE OrganicHrefs(p.organic) \in Seq(Link)
    OBVIOUS
  <2> DEFINE C == [link : Link, hidden : BOOLEAN]
  <2>1. p.organic \in Seq(C)
    BY DEF ListingPage, Optional
  <2>2. \A c \in C : c.link \in Link
    OBVIOUS
  <2> HIDE DEF C
  <2> QED BY <2>1, <2>2, LinksOfType DEF OrganicHrefs
<1>3. ListingHrefs(p.cards) \in Seq(Link)
  <2> DEFINE C == [link : Link, wider : BOOLEAN]
  <2>1. p.cards \in Seq(C)
    BY DEF ListingPage
  <2>2. \A c \in C : c.link \in Link
    OBVIOUS
  <2> HIDE DEF C
  <2> QED BY <2>1, <2>2, LinksOfType DEF ListingHrefs
<1> QED BY <1>1, <1>2, <1>3 DEF Hrefs

\* The next numbered page is above those read, with the same query.
LEMMA NextByNumberUp ==
  ASSUME NEW p \in ListingPage, NEW n \in Nat, NEW url \in Url
  PROVE  \/ NextByNumber(p, n, url) = None
         \/ /\ NextByNumber(p, n, url) \in Url
            /\ NextByNumber(p, n, url).query = url.query
            /\ NextByNumber(p, n, url).page > n
<1> DEFINE numbers == {m \in p.numbers : m > n /\ m # url.page}
<1> SUFFICES ASSUME numbers # {}
             PROVE  /\ [url EXCEPT !.page = Min(numbers)] \in Url
                    /\ [url EXCEPT !.page = Min(numbers)].query = url.query
                    /\ [url EXCEPT !.page = Min(numbers)].page > n
  BY DEF NextByNumber
<1>1. p.numbers \in SUBSET Int
  BY DEF ListingPage
<1>2. numbers \in SUBSET Nat
  BY <1>1
<1>3. PICK m \in numbers : \A k \in numbers : m <= k
  BY <1>2, LeastNat
<1>4. Min(numbers) \in numbers
  <2> HIDE DEF numbers
  <2> QED BY <1>3 DEF Min
<1>5. Min(numbers) \in Int /\ Min(numbers) > n
  BY <1>1, <1>4
<1> HIDE DEF numbers
<1> QED BY <1>5 DEF Url

\* As long as no button is followed, the next page carries the query of this
\* one and is above the pages read.
LEMMA NextPageUp ==
  ASSUME NEW p \in ListingPage, NEW n \in Nat, NEW url \in Url, NEW site
  PROVE  LET next == NextPage(site, p, n, url)
         IN /\ next \in Optional(Url)
            /\ \/ next = None
               \/ p.forward = "here" /\ next = Clean(url)
               \/ next.query = url.query /\ (url.page >= n => next.page > n)
<1>1. Clean(url) \in Url
  BY DEF Clean, Url
<1>2. \/ NextByUrl(site, url) = None
      \/ /\ NextByUrl(site, url) \in Url
         /\ NextByUrl(site, url).query = url.query
         /\ url.page >= n => NextByUrl(site, url).page > n
  <2>1. /\ [url EXCEPT !.page = @ + 1] \in Url
        /\ [url EXCEPT !.page = @ + 1].query = url.query
        /\ url.page >= n => [url EXCEPT !.page = @ + 1].page > n
    BY DEF Url
  <2> QED BY <2>1 DEF NextByUrl
<1> QED BY <1>1, <1>2, NextByNumberUp DEF NextPage, Optional

\* The total is unknown or positive: zero does not count as one.
LEMMA TotalType ==
  ASSUME NEW p \in ListingPage, NEW site, NEW before \in Optional(Nat \ {0})
  PROVE  TotalResults(site, p, before) \in Optional(Nat \ {0})
<1>1. p.counter \in Optional(Nat)
  BY DEF ListingPage
<1>2. p.data # None => p.data.total \in Optional(Nat)
  <2>1. p.data # None => p.data \in NextData
    BY DEF ListingPage, Optional
  <2> QED BY <2>1 DEF NextData
<1> QED BY <1>1, <1>2 DEF TotalResults, Optional

\* What becomes of a crawl in one turn: as CrawlRow, or it goes on no more.
TurnRow == [pc : CrawlState, attempt : 0 .. Retries, verdict : Verdicts,
            search : DOMAIN Searches, n : Nat, url : Optional(Url),
            links : Seq(Ads), total : Optional(Nat \ {0}), why : Whys,
            next : Optional(Url)]

\* What a turn of the loop leaves alone.
Same(r, c) == /\ r.pc = c.pc /\ r.attempt = c.attempt /\ r.verdict = c.verdict
              /\ r.search = c.search /\ r.n = c.n /\ r.url = c.url

\* A turn of the loop that opened page p in state c, and what it leaves: a
\* crawl that goes on has links and no diagnosis, one that stops has links or
\* says why not, and claims an empty result only if the page did.
TurnMade(c, p, r) ==
  /\ r \in TurnRow /\ Same(r, c)
  /\ r.next # None =>
       /\ r.why = "" /\ r.links # <<>>
       /\ c.n = 1 => p.text = None \/ "zero" \notin p.text
  /\ r.next = None =>
       /\ r.links = <<>> =>
            /\ c.n = 1
            /\ r.why \in Diagnoses
            /\ r.why = "confirmed_empty" =>
                 p.text # None /\ p.text \cap {"zero", "empty"} # {}
       /\ r.links # <<>> => (c.n = 1 => p.text = None \/ "zero" \notin p.text)

\* Sequences of which one is at least as long as the other.
LEMMA Longer ==
  ASSUME NEW S, NEW old \in Seq(S), NEW links \in Seq(S), Len(links) >= Len(old)
  PROVE  /\ Len(links) \in Nat /\ Len(links) - Len(old) \in Nat
         /\ old # <<>> => links # <<>>
         /\ Len(links) - Len(old) > 0 => links # <<>>
         /\ (old = <<>> /\ ~ (Len(links) - Len(old) > 0)) => links = <<>>
OBVIOUS

LEMMA NoLinks == <<>> \in Seq(Ads)
OBVIOUS

\* A sequence cut to a positive length is not empty.
LEMMA Shortened ==
  ASSUME NEW S, NEW s \in Seq(S), NEW n \in Nat \ {0}, Len(s) >= n
  PROVE  SubSeq(s, 1, n) \in Seq(S) /\ SubSeq(s, 1, n) # <<>>
<1>1. Len(SubSeq(s, 1, n)) = n
  OBVIOUS
<1> QED BY <1>1

\* A page that was loaded makes of a crawl what TurnMade says, and the next
\* address is that of NextPage.
LEMMA ReadPageMade ==
  ASSUME NEW p \in ListingPage, NEW site, NEW bounds, NEW c \in TurnRow,
         c.n # 0, c.url \in Url, c.why = "",
         c.n = 1 => c.links = <<>>, c.n # 1 => c.links # <<>>
  PROVE  /\ TurnMade(c, p, ReadPage(site, bounds, c, p))
         /\ \/ ReadPage(site, bounds, c, p).next = None
            \/ ReadPage(site, bounds, c, p).next = NextPage(site, p, c.n, c.url)
<1>1. PICK links : links = AddLinks(c.links, Hrefs(site, p, FilterBounds(bounds, c.url)))
  OBVIOUS
<1>2. PICK new : new = Len(links) - Len(c.links)
  OBVIOUS
<1>3. PICK total : total = TotalResults(site, p, c.total)
  OBVIOUS
<1>4. PICK why : why = IF c.n = 1 THEN Diagnosis(p, new) ELSE None
  OBVIOUS
<1>5. PICK next : next = NextPage(site, p, c.n, c.url)
  OBVIOUS
<1>6. PICK Stop : Stop = [c EXCEPT !.links = links, !.total = total, !.next = None]
  OBVIOUS
<1>7. PICK r : r = ReadPage(site, bounds, c, p)
  OBVIOUS
<1>8. r = IF why # None
            THEN [Stop EXCEPT !.why = why,
                              !.links = IF why = "confirmed_empty" THEN <<>> ELSE @]
          ELSE IF IsLastPage(site, p) THEN Stop
          ELSE IF total # None /\ Len(links) >= total
            THEN [Stop EXCEPT !.links = SubSeq(@, 1, total)]
          ELSE IF new = 0 THEN Stop
          ELSE [Stop EXCEPT !.next = next]
  BY <1>1, <1>2, <1>3, <1>4, <1>5, <1>6, <1>7 DEF ReadPage
<1>9. /\ c.links \in Seq(Ads) /\ c.n \in Nat /\ c.total \in Optional(Nat \ {0})
      /\ links \in Seq(Ads) /\ total \in Optional(Nat \ {0}) /\ next \in Optional(Url)
  <2>1. c.links \in Seq(Ads) /\ c.n \in Nat /\ c.total \in Optional(Nat \ {0})
    BY DEF TurnRow
  <2>2. links \in Seq(Ads)
    BY <1>1, <2>1, HrefsType, AddLinksGrows
  <2>3. total \in Optional(Nat \ {0})
    BY <1>3, <2>1, TotalType
  <2>4. next \in Optional(Url)
    BY <1>5, <2>1, NextPageUp
  <2> QED BY <2>1, <2>2, <2>3, <2>4
<1>10. /\ Len(links) \in Nat /\ new \in Nat
       /\ c.n # 1 => links # <<>>
       /\ new > 0 => links # <<>>
       /\ (c.n = 1 /\ ~ (new > 0)) => links = <<>>
  <2>1. Len(links) >= Len(c.links)
    BY <1>1, <1>9, HrefsType, AddLinksGrows
  <2> QED BY <1>2, <1>9, <2>1, Longer
<1>11. CASE why # None
  <2>1. c.n = 1 /\ why = Diagnosis(p, new)
    BY <1>4, <1>11
  <2>2. why \in Diagnoses
    BY <1>11, <2>1 DEF Diagnosis, Diagnoses
  <2>3. why # "confirmed_empty" => ~ (new > 0)
    BY <1>11, <2>1 DEF Diagnosis
  <2>4. why = "confirmed_empty" => p.text # None /\ p.text \cap {"zero", "empty"} # {}
    <3> SUFFICES ASSUME why = "confirmed_empty"
                 PROVE  p.text # None /\ ("zero" \in p.text \/ "empty" \in p.text)
      OBVIOUS
    <3> QED BY <1>11, <2>1 DEF Diagnosis
  <2>5. why # "confirmed_empty" => links = <<>>
    BY <1>10, <2>1, <2>3
  <2>6. r = [c EXCEPT !.links = <<>>, !.total = total, !.next = None, !.why = why]
    BY <1>6, <1>8, <1>11, <2>5 DEF TurnRow
  <2>7. r \in TurnRow
    <3>1. why \in Whys
      BY <2>2 DEF Whys
    <3> QED BY <1>9, <2>6, <3>1, NoLinks DEF TurnRow, Optional
  <2>8. Same(r, c) /\ r.next = None /\ r.why = why /\ r.links = <<>>
    BY <2>6 DEF TurnRow, Same
  <2> QED BY <1>7, <2>1, <2>2, <2>4, <2>7, <2>8 DEF TurnMade
<1>12. CASE why = None
  <2>1. c.n = 1 => new > 0 /\ (p.text = None \/ "zero" \notin p.text)
    <3> SUFFICES ASSUME c.n = 1
                 PROVE  new > 0 /\ (p.text = None \/ "zero" \notin p.text)
      OBVIOUS
    <3>1. Diagnosis(p, new) = None
      BY <1>4, <1>12
    <3> QED BY <3>1, DiagnosisAssumption DEF Diagnosis, Diagnoses
  <2>2. links # <<>>
    BY <1>10, <2>1
  <2>3. /\ Stop \in TurnRow /\ Same(Stop, c)
        /\ Stop.next = None /\ Stop.why = "" /\ Stop.links = links
    <3>1. Stop \in TurnRow
      BY <1>6, <1>9 DEF TurnRow, Optional
    <3>2. Same(Stop, c) /\ Stop.next = None /\ Stop.why = "" /\ Stop.links = links
      BY <1>6 DEF TurnRow, Same
    <3> QED BY <3>1, <3>2
  <2>4. CASE r = Stop
    BY <1>7, <2>1, <2>2, <2>3, <2>4 DEF TurnMade
  <2>5. CASE total # None /\ Len(links) >= total /\ r = [Stop EXCEPT !.links = SubSeq(@, 1, total)]
    <3>1. total \in Nat \ {0}
      BY <1>9, <2>5 DEF Optional
    <3>2. PICK cut : cut = SubSeq(links, 1, total)
      OBVIOUS
    <3>3. cut \in Seq(Ads) /\ cut # <<>>
      <4>1. Len(links) >= total
        BY <2>5
      <4>2. links \in Seq(Ads)
        BY <1>9
      <4> QED BY <3>1, <3>2, <4>1, <4>2, Shortened
    <3>4. r = [Stop EXCEPT !.links = cut]
      BY <2>3, <2>5, <3>2
    <3>5. r \in TurnRow
      BY <2>3, <3>3, <3>4 DEF TurnRow
    <3>6. Same(r, c) /\ r.next = None /\ r.why = "" /\ r.links = cut
      BY <2>3, <3>4 DEF TurnRow, Same
    <3> QED BY <1>7, <2>1, <3>3, <3>5, <3>6 DEF TurnMade
  <2>6. CASE r = [Stop EXCEPT !.next = next]
    <3>1. r \in TurnRow
      BY <1>9, <2>3, <2>6 DEF TurnRow
    <3>2. Same(r, c) /\ r.next = next /\ r.why = "" /\ r.links = links
      BY <2>3, <2>6 DEF TurnRow, Same
    <3> QED BY <1>5, <1>7, <2>1, <2>2, <3>1, <3>2 DEF TurnMade
  <2> QED BY <1>8, <1>12, <2>4, <2>5, <2>6
<1> QED BY <1>11, <1>12

\* A turn of a working crawl c with the history h, which leaves r: it goes on
\* as AttemptInv and NextInv have it, or stops with links or a reason.
Stops(r, h) ==
  /\ r.links # <<>> => "zero" \notin h.text
  /\ r.links = <<>> =>
       /\ r.why \in Diagnoses \cup {"invalid_url"}
       /\ r.why = "confirmed_empty" => h.text \cap {"zero", "empty"} # {}
       /\ r.why = "invalid_url" => r.search \notin Allowed \/ h.offsite

\* The count of pages goes up by one.
LEMMA OneMore ==
  ASSUME NEW n \in Nat
  PROVE  /\ n + 1 \in Nat /\ n + 1 # 0 /\ (n + 1 = 1 <=> n = 0)
         /\ \A m \in Int : m > n => m >= n + 1
OBVIOUS

\* A turn, whatever the page did, goes on with the invariant or stops with a
\* reason.
LEMMA VisitMade ==
  ASSUME NEW c \in CrawlRow, NEW h \in History, NEW p \in ListingPage,
         NEW site, NEW bounds, c.pc = "working", AttemptInv(c, h), NextInv(c, h)
  PROVE  LET r == Visit(site, bounds, c, p)
             shows == Showing(h, p, r)
         IN /\ r \in TurnRow /\ shows \in History
            /\ r.next # None =>
                 r.pc = "working" /\ r \in CrawlRow /\ AttemptInv(r, shows) /\ NextInv(r, shows)
            /\ r.next = None => Stops(r, shows)
<1>1. PICK d : d = [c EXCEPT !.n = @ + 1, !.url = c.next]
  OBVIOUS
<1>2. PICK r : r = Visit(site, bounds, c, p)
  OBVIOUS
<1>3. PICK shows : shows = Showing(h, p, r)
  OBVIOUS
<1>4. /\ c.n \in Nat /\ c.next \in Url /\ c.links \in Seq(Ads) /\ c.why = ""
      /\ c.n = 0 => c.links = <<>> /\ h.text = {}
      /\ c.n # 0 => c.links # <<>> /\ "zero" \notin h.text
  BY DEF CrawlRow, AttemptInv
<1>5. /\ d \in TurnRow /\ d.n = c.n + 1 /\ d.n # 0 /\ d.url = c.next /\ d.why = ""
      /\ d.links = c.links /\ d.pc = "working" /\ d.search = c.search
  <2>1. c.n + 1 \in Nat /\ c.n + 1 # 0
    <3>1. c.n \in Nat
      BY <1>4
    <3> QED BY <3>1, OneMore
  <2>2. d \in TurnRow
    BY <1>1, <1>4, <2>1 DEF CrawlRow, TurnRow, Optional
  <2>3. /\ d.n = c.n + 1 /\ d.url = c.next /\ d.why = ""
        /\ d.links = c.links /\ d.pc = "working" /\ d.search = c.search
    BY <1>1, <1>4 DEF CrawlRow
  <2> QED BY <2>1, <2>2, <2>3
<1>6. d.n = 1 <=> c.n = 0
  <2>1. c.n \in Nat /\ d.n = c.n + 1
    BY <1>4, <1>5
  <2> QED BY <2>1, OneMore
<1>7. \/ r = [d EXCEPT !.next = None, !.why = "invalid_url"] /\ p.load = "elsewhere"
      \/ \E why \in {"blocked", "unknown"} :
           /\ r = [d EXCEPT !.next = None, !.why = IF d.n = 1 THEN why ELSE @]
           /\ p.load \in {"refused", "raises"}
      \/ r = ReadPage(site, bounds, d, p) /\ p.load = "loaded"
  <2>1. p.load \in {"loaded", "elsewhere", "refused", "raises"}
    BY DEF ListingPage
  <2>2. CASE p.load = "elsewhere"
    BY <1>1, <1>2, <2>2 DEF Visit
  <2>3. CASE p.load = "refused"
    BY <1>1, <1>2, <2>3 DEF Visit
  <2>4. CASE p.load = "raises"
    BY <1>1, <1>2, <2>4 DEF Visit
  <2>5. CASE p.load = "loaded"
    BY <1>1, <1>2, <2>5 DEF Visit
  <2> QED BY <2>1, <2>2, <2>3, <2>4, <2>5
<1>8. /\ shows \in History
      /\ shows.text = IF r.n = 1 /\ p.load = "loaded" /\ p.text # None THEN p.text ELSE h.text
      /\ shows.offsite = (p.load = "elsewhere")
      /\ shows.button = (h.button \/ (p.forward = "here" /\ r.next = Clean(r.url)))
  <2>1. p.text = None \/ p.text \in SUBSET Indicators
    BY DEF ListingPage, Optional
  <2>2. h.text \in SUBSET Indicators
    BY DEF History
  <2>3. (IF r.n = 1 /\ p.load = "loaded" /\ p.text # None THEN p.text ELSE h.text)
           \in SUBSET Indicators
    BY <2>1, <2>2
  <2> QED BY <1>3, <2>3 DEF Showing, History
<1>9. CASE r = [d EXCEPT !.next = None, !.why = "invalid_url"] /\ p.load = "elsewhere"
  <2>1. /\ r.next = None /\ r.why = "invalid_url" /\ r.links = c.links /\ r.n = d.n
        /\ r.search = c.search
    BY <1>5, <1>9 DEF TurnRow
  <2>2. r \in TurnRow
    BY <1>5, <1>9 DEF TurnRow, Optional, Whys
  <2>3. shows.text = h.text /\ shows.offsite
    BY <1>8, <1>9
  <2>4. Stops(r, shows)
    BY <1>4, <2>1, <2>3 DEF Stops
  <2> QED BY <1>2, <1>3, <1>8, <2>1, <2>2, <2>4
<1>10. ASSUME NEW why \in {"blocked", "unknown"},
              r = [d EXCEPT !.next = None, !.why = IF d.n = 1 THEN why ELSE @],
              p.load \in {"refused", "raises"}
       PROVE  r \in TurnRow /\ r.next = None /\ Stops(r, shows)
  <2>1. /\ r.next = None /\ r.links = c.links
        /\ c.n = 0 => r.why = why
    BY <1>5, <1>6, <1>10 DEF TurnRow
  <2>2. why \in Whys /\ why \in Diagnoses /\ why # "confirmed_empty" /\ why # "invalid_url"
    BY <1>10 DEF Whys, Diagnoses
  <2>3. r \in TurnRow
    BY <1>5, <1>10, <2>2 DEF TurnRow, Optional
  <2>4. shows.text = h.text
    BY <1>8, <1>10
  <2>5. Stops(r, shows)
    BY <1>4, <2>1, <2>2, <2>4 DEF Stops
  <2> QED BY <2>1, <2>3, <2>5
<1>11. CASE r = ReadPage(site, bounds, d, p) /\ p.load = "loaded"
  <2>1. TurnMade(d, p, r) /\ (r.next = None \/ r.next = NextPage(site, p, d.n, d.url))
    <3>1. /\ d \in TurnRow /\ d.n # 0 /\ d.url \in Url /\ d.why = ""
          /\ d.n = 1 => d.links = <<>>
          /\ d.n # 1 => d.links # <<>>
      BY <1>4, <1>5, <1>6
    <3> QED BY <1>11, <3>1, ReadPageMade
  <2>2. /\ r \in TurnRow /\ r.n = c.n + 1 /\ r.url = c.next
        /\ r.pc = "working" /\ r.search = c.search
    BY <1>5, <2>1 DEF TurnMade, Same
  <2>3. shows.text = IF c.n = 0 /\ p.text # None THEN p.text ELSE h.text
    BY <1>5, <1>6, <1>8, <1>11, <2>2
  <2>4. c.n = 0 => h.text = {}
    BY <1>4
  <2>5. CASE r.next # None
    <3>1. r.why = "" /\ r.links # <<>> /\ (c.n = 0 => p.text = None \/ "zero" \notin p.text)
      BY <1>6, <2>1, <2>5 DEF TurnMade
    <3>2. "zero" \notin shows.text
      BY <1>4, <2>3, <3>1
    <3>3. r.n # 0
      BY <1>5, <2>2
    <3>4. AttemptInv(r, shows)
      BY <3>1, <3>2, <3>3 DEF AttemptInv
    <3>5. r.next = NextPage(site, p, c.n + 1, c.next) /\ r.next \in Optional(Url)
      BY <1>5, <2>1, <2>2, <2>5 DEF TurnRow
    <3>6. r \in CrawlRow
      BY <2>2, <2>5, <3>5 DEF TurnRow, CrawlRow, Optional
    <3>7. NextInv(r, shows)
      <4> SUFFICES ASSUME ~ shows.button
                   PROVE  r.next.query = Searches[r.search].query /\ r.next.page > r.n
        BY DEF NextInv
      <4>1. ~ h.button /\ ~ (p.forward = "here" /\ r.next = Clean(c.next))
        BY <1>8, <2>2
      <4>2. c.next.query = Searches[c.search].query /\ c.next.page > c.n
        BY <4>1 DEF NextInv
      <4>3. c.n + 1 \in Nat /\ c.next \in Url /\ c.next.page >= c.n + 1
        <5>1. c.n \in Nat /\ c.next \in Url
          BY <1>4
        <5>2. c.next.page \in Int /\ c.next.page > c.n
          BY <4>2, <5>1 DEF Url
        <5> QED BY <5>1, <5>2, OneMore
      <4>4. /\ r.next.query = c.next.query
            /\ c.next.page >= c.n + 1 => r.next.page > c.n + 1
        BY <2>5, <3>5, <4>1, <4>3, NextPageUp
      <4> QED BY <2>2, <4>2, <4>3, <4>4
    <3> QED BY <1>2, <1>3, <1>8, <2>2, <2>5, <3>4, <3>6, <3>7
  <2>6. CASE r.next = None
    <3>1. r.links # <<>> => "zero" \notin shows.text
      <4> SUFFICES ASSUME r.links # <<>> PROVE "zero" \notin shows.text
        OBVIOUS
      <4>1. c.n = 0 => p.text = None \/ "zero" \notin p.text
        BY <1>6, <2>1, <2>6 DEF TurnMade
      <4> QED BY <1>4, <2>3, <4>1
    <3>2. r.links = <<>> =>
            /\ c.n = 0 /\ r.why \in Diagnoses
            /\ r.why = "confirmed_empty" =>
                 p.text # None /\ p.text \cap {"zero", "empty"} # {}
      BY <1>6, <2>1, <2>6 DEF TurnMade
    <3>3. r.why \in Diagnoses => r.why # "invalid_url"
      BY DEF Diagnoses
    <3>4. Stops(r, shows)
      BY <2>3, <3>1, <3>2, <3>3 DEF Stops
    <3> QED BY <1>2, <1>3, <1>8, <2>2, <2>6, <3>4
  <2> QED BY <2>5, <2>6
<1> QED BY <1>2, <1>3, <1>7, <1>8, <1>9, <1>10, <1>11

-----------------------------------------------------------------------------
(* One attempt.                                                            *)

\* The invariant of one crawl c with its history h.
Holds(c, h) == /\ c \in CrawlRow /\ h \in History
               /\ AttemptInv(c, h) /\ EndInv(c, h) /\ NextInv(c, h)

\* Between two turns a crawl has an address to open.
LEMMA RowsAreTurns == CrawlRow \subseteq TurnRow
BY DEF CrawlRow, TurnRow, Optional

\* A search before its first page, in whatever state the crawl is.
LEMMA NewCrawlRow ==
  ASSUME NEW s \in DOMAIN Searches
  PROVE  /\ NewCrawl(s) \in CrawlRow
         /\ NewCrawl(s).pc = "queued" /\ NewCrawl(s).search = s /\ NewCrawl(s).n = 0
         /\ NewCrawl(s).links = <<>> /\ NewCrawl(s).why = ""
         /\ NewCrawl(s).next = [page |-> 1, query |-> Searches[s].query]
<1>1. FirstPage([page |-> Searches[s].page, query |-> Searches[s].query])
        = [page |-> 1, query |-> Searches[s].query]
  BY DEF FirstPage
<1>2. [page |-> 1, query |-> Searches[s].query] \in Url
  BY ScrapeAssumption DEF Url
<1>3. "queued" \in CrawlState /\ "none" \in Verdicts /\ "" \in Whys /\ 0 \in 0 .. Retries
  BY ScrapeAssumption DEF CrawlState, Verdicts, Whys
<1> QED BY <1>1, <1>2, <1>3, NoLinks DEF NewCrawl, CrawlRow, Optional

\* Fresh keeps what attempts have in common and resets the rest.
LEMMA FreshRow ==
  ASSUME NEW c \in TurnRow
  PROVE  /\ Fresh(c) \in CrawlRow
         /\ Fresh(c).pc = c.pc /\ Fresh(c).attempt = c.attempt
         /\ Fresh(c).verdict = c.verdict /\ Fresh(c).search = c.search /\ Fresh(c).n = 0
         /\ Fresh(c).links = <<>> /\ Fresh(c).why = ""
         /\ Fresh(c).next = [page |-> 1, query |-> Searches[c.search].query]
<1>1. /\ c.search \in DOMAIN Searches /\ c.pc \in CrawlState
      /\ c.attempt \in 0 .. Retries /\ c.verdict \in Verdicts
  BY DEF TurnRow
<1>2. PICK new : new = NewCrawl(c.search)
  OBVIOUS
<1>3. /\ new \in CrawlRow /\ new.search = c.search /\ new.n = 0
      /\ new.links = <<>> /\ new.why = ""
      /\ new.next = [page |-> 1, query |-> Searches[c.search].query]
  BY <1>1, <1>2, NewCrawlRow
<1>4. Fresh(c) = [new EXCEPT !.pc = c.pc, !.attempt = c.attempt, !.verdict = c.verdict]
  BY <1>2 DEF Fresh
<1> QED BY <1>1, <1>3, <1>4 DEF CrawlRow

\* A crawl that has ended, with its links and its verdict.
LEMMA EndedRow ==
  ASSUME NEW c \in TurnRow, NEW links \in Seq(Ads), NEW verdict \in Verdicts
  PROVE  LET e == Ended(c, links, verdict)
         IN /\ e \in CrawlRow /\ e.pc = "ended" /\ e.links = links /\ e.verdict = verdict
            /\ e.search = c.search /\ \A h : NextInv(e, h)
<1>1. PICK e : e = Ended(c, links, verdict)
  OBVIOUS
<1>2. PICK f : f = Fresh(c)
  OBVIOUS
<1>3. /\ f \in CrawlRow /\ f.search = c.search /\ f.n = 0
      /\ f.next = [page |-> 1, query |-> Searches[c.search].query]
  BY <1>2, FreshRow
<1>4. e = [f EXCEPT !.pc = "ended", !.links = links, !.verdict = verdict]
  BY <1>1, <1>2 DEF Ended
<1>5. e \in CrawlRow
  BY <1>3, <1>4 DEF CrawlRow, CrawlState
<1>6. /\ e.pc = "ended" /\ e.links = links /\ e.verdict = verdict /\ e.search = c.search
      /\ e.n = 0 /\ e.next = [page |-> 1, query |-> Searches[c.search].query]
  BY <1>3, <1>4 DEF CrawlRow
<1>7. \A h : NextInv(e, h)
  BY <1>6 DEF NextInv
<1> QED BY <1>1, <1>5, <1>6, <1>7

\* An attempt that begins, or hangs, satisfies the invariant.
LEMMA BeginHolds ==
  ASSUME NEW c \in TurnRow, NEW pc \in {"working", "hung"}
  PROVE  Holds([Fresh(c) EXCEPT !.pc = pc], NothingShown)
<1>1. PICK f : f = Fresh(c)
  OBVIOUS
<1>2. /\ f \in CrawlRow /\ f.search = c.search /\ f.n = 0 /\ f.links = <<>> /\ f.why = ""
      /\ f.next = [page |-> 1, query |-> Searches[c.search].query]
  BY <1>1, FreshRow
<1>3. PICK e : e = [f EXCEPT !.pc = pc]
  OBVIOUS
<1>4. e \in CrawlRow
  BY <1>2, <1>3 DEF CrawlRow, CrawlState
<1>5. /\ e.search = c.search /\ e.n = 0
      /\ e.next = [page |-> 1, query |-> Searches[c.search].query]
  BY <1>2, <1>3 DEF CrawlRow
<1>6. NothingShown \in History /\ NothingShown.text = {}
  BY DEF NothingShown, History
<1>7. \A h : NextInv(e, h)
  BY <1>5 DEF NextInv
<1>8. e.pc = pc /\ e.n = 0 /\ e.links = <<>> /\ e.why = ""
  BY <1>2, <1>3 DEF CrawlRow
<1>9. AttemptInv(e, NothingShown) /\ EndInv(e, NothingShown)
  BY <1>6, <1>8 DEF AttemptInv, EndInv
<1> QED BY <1>1, <1>3, <1>4, <1>6, <1>7, <1>9 DEF Holds

\* A crawl that tries again satisfies it, and attempts stay bounded.
LEMMA RetryRow ==
  ASSUME NEW c \in TurnRow, c.attempt # Retries, NEW h \in History
  PROVE  Holds(Retry(c), h)
<1>1. PICK e : e = Retry(c)
  OBVIOUS
<1>2. PICK f : f = Fresh(c)
  OBVIOUS
<1>3. /\ f \in CrawlRow /\ f.search = c.search /\ f.n = 0 /\ f.attempt = c.attempt
      /\ f.next = [page |-> 1, query |-> Searches[c.search].query]
  BY <1>2, FreshRow
<1>4. e = [f EXCEPT !.pc = "backoff", !.attempt = @ + 1]
  BY <1>1, <1>2 DEF Retry
<1>5. c.attempt + 1 \in 0 .. Retries
  <2>1. c.attempt \in 0 .. Retries
    BY DEF TurnRow
  <2> QED BY <2>1, ScrapeAssumption
<1>6. e \in CrawlRow
  BY <1>3, <1>4, <1>5 DEF CrawlRow, CrawlState
<1>7. /\ e.pc = "backoff" /\ e.search = c.search
      /\ e.n = 0 /\ e.next = [page |-> 1, query |-> Searches[c.search].query]
  BY <1>3, <1>4 DEF CrawlRow
<1> QED BY <1>1, <1>6, <1>7 DEF Holds, AttemptInv, EndInv, NextInv

\* What is made of an attempt that has stopped.
LEMMA DecideHolds ==
  ASSUME NEW c \in TurnRow, NEW h \in History, Stops(c, h)
  PROVE  Holds(Decide(c), h)
<1>1. CASE c.links # <<>>
  <2>1. Decide(c) = Ended(c, c.links, "ok")
    BY <1>1 DEF Decide
  <2>2. c.links \in Seq(Ads) /\ "ok" \in Verdicts
    BY DEF TurnRow, Verdicts
  <2>3. PICK e : e = Ended(c, c.links, "ok")
    OBVIOUS
  <2>4. /\ e \in CrawlRow /\ e.pc = "ended" /\ e.links = c.links /\ e.verdict = "ok"
        /\ NextInv(e, h)
    BY <2>2, <2>3, EndedRow
  <2>5. "zero" \notin h.text
    BY <1>1 DEF Stops
  <2> QED BY <1>1, <2>1, <2>3, <2>4, <2>5 DEF Holds, AttemptInv, EndInv
<1>2. CASE c.links = <<>> /\ ~ (c.why \in {"confirmed_empty", "invalid_url"} \/ c.attempt = Retries)
  <2>1. Decide(c) = Retry(c)
    BY <1>2 DEF Decide
  <2> QED BY <1>2, <2>1, RetryRow
<1>3. CASE c.links = <<>> /\ (c.why \in {"confirmed_empty", "invalid_url"} \/ c.attempt = Retries)
  <2>1. Decide(c) = Ended(c, <<>>, c.why)
    BY <1>3 DEF Decide
  <2>2. /\ c.why \in Diagnoses \cup {"invalid_url"}
        /\ c.why = "confirmed_empty" => h.text \cap {"zero", "empty"} # {}
        /\ c.why = "invalid_url" => c.search \notin Allowed \/ h.offsite
    BY <1>3 DEF Stops
  <2>3. c.why \in Verdicts
    BY <2>2 DEF Verdicts, Whys
  <2>4. PICK e : e = Ended(c, <<>>, c.why)
    OBVIOUS
  <2>5. /\ e \in CrawlRow /\ e.pc = "ended" /\ e.links = <<>> /\ e.verdict = c.why
        /\ e.search = c.search /\ NextInv(e, h)
    BY <2>3, <2>4, EndedRow, NoLinks
  <2>6. c.why # "ok"
    BY <2>2 DEF Diagnoses
  <2>7. EndInv(e, h)
    BY <2>2, <2>5, <2>6 DEF EndInv, Diagnoses
  <2> QED BY <2>1, <2>4, <2>5, <2>7 DEF Holds, AttemptInv
<1> QED BY <1>1, <1>2, <1>3

\* A crawl that raised satisfies it.
LEMMA RaisedHolds ==
  ASSUME NEW c \in TurnRow, NEW h \in History
  PROVE  Holds(Ended(c, <<>>, "raised"), h)
<1>1. PICK e : e = Ended(c, <<>>, "raised")
  OBVIOUS
<1>2. "raised" \in Verdicts /\ <<>> \in Seq(Ads)
  BY NoLinks DEF Verdicts
<1>3. e \in CrawlRow /\ e.pc = "ended" /\ e.verdict = "raised" /\ NextInv(e, h)
  <2>1. PICK none \in Seq(Ads) : none = <<>>
    BY <1>2
  <2>2. e = Ended(c, none, "raised")
    BY <1>1, <2>1
  <2> QED BY <1>2, <2>2, EndedRow
<1> QED BY <1>1, <1>3 DEF Holds, AttemptInv, EndInv

-----------------------------------------------------------------------------
(* Every step.                                                             *)

\* A step of one crawl.
LEMMA OneCrawl ==
  ASSUME CrawlInv, NEW j \in Crawls, NEW c, NEW h, Holds(c, h),
         crawl' = [crawl EXCEPT ![j] = c], shown' = [shown EXCEPT ![j] = h]
  PROVE  CrawlInv'
<1>1. c \in CrawlRow /\ h \in History
  BY DEF Holds
<1>2. crawl' \in [Crawls -> CrawlRow] /\ shown' \in [Crawls -> History]
  BY <1>1 DEF CrawlInv
<1>3. ASSUME NEW k \in Crawls
      PROVE  /\ AttemptInv(crawl'[k], shown'[k])
             /\ EndInv(crawl'[k], shown'[k])
             /\ NextInv(crawl'[k], shown'[k])
  <2>1. CASE k = j
    <3>1. crawl'[k] = c /\ shown'[k] = h
      BY <2>1 DEF CrawlInv
    <3> QED BY <3>1 DEF Holds
  <2>2. CASE k # j
    <3>1. crawl'[k] = crawl[k] /\ shown'[k] = shown[k]
      BY <2>2 DEF CrawlInv
    <3> QED BY <3>1 DEF CrawlInv
  <2> QED BY <2>1, <2>2
<1> QED BY <1>2, <1>3 DEF CrawlInv

\* What CrawlInv says of one crawl.
LEMMA NowHolds ==
  ASSUME CrawlInv, NEW j \in Crawls
  PROVE  /\ Holds(crawl[j], shown[j])
         /\ crawl[j] \in CrawlRow /\ crawl[j] \in TurnRow /\ shown[j] \in History
BY RowsAreTurns DEF CrawlInv, Holds

\* Each action of a crawl keeps the invariant.
LEMMA CrawlStepKeeps ==
  ASSUME CrawlInv, NEW j \in Crawls, CrawlStep(j)
  PROVE  CrawlInv'
<1>1. /\ Holds(crawl[j], shown[j])
      /\ crawl[j] \in CrawlRow /\ crawl[j] \in TurnRow /\ shown[j] \in History
  BY NowHolds
<1>2. CASE BeginAttempt(j)
  <2>1. PICK c : c = [Fresh(crawl[j]) EXCEPT !.pc = "working"]
    OBVIOUS
  <2>2. crawl' = [crawl EXCEPT ![j] = c] /\ shown' = [shown EXCEPT ![j] = NothingShown]
    BY <1>2, <2>1 DEF BeginAttempt
  <2>3. Holds(c, NothingShown)
    BY <1>1, <2>1, BeginHolds
  <2> QED BY <2>2, <2>3, OneCrawl
<1>3. CASE RefuseSearch(j)
  <2>1. PICK c : c = [crawl[j] EXCEPT !.why = "invalid_url"]
    OBVIOUS
  <2>2. /\ crawl' = [crawl EXCEPT ![j] = Decide(c)] /\ shown' = shown
        /\ crawl[j].pc = "working" /\ crawl[j].search \notin Allowed
    BY <1>3, <2>1 DEF RefuseSearch
  <2>3. c \in TurnRow
    BY <1>1, <2>1 DEF TurnRow, Whys
  <2>4. c.why = "invalid_url" /\ c.links = crawl[j].links /\ c.search = crawl[j].search
    BY <1>1, <2>1 DEF TurnRow
  <2>5. crawl[j].links # <<>> => "zero" \notin shown[j].text
    BY <1>1, <2>2 DEF Holds, AttemptInv
  <2>6. Stops(c, shown[j])
    BY <2>2, <2>4, <2>5 DEF Stops
  <2>7. shown' = [shown EXCEPT ![j] = shown[j]]
    BY <2>2 DEF CrawlInv
  <2> QED BY <1>1, <2>2, <2>3, <2>6, <2>7, DecideHolds, OneCrawl
<1>4. CASE OpenPage(j)
  <2>1. PICK p \in Pages :
          LET r == Visit(SiteOfSearch[crawl[j].search],
                         Searches[crawl[j].search].bounds, crawl[j], p)
          IN /\ shown' = [shown EXCEPT ![j] = Showing(@, p, r)]
             /\ crawl' = [crawl EXCEPT ![j] = IF r.next = None THEN Decide(r) ELSE r]
    BY <1>4 DEF OpenPage
  <2>2. PICK r : r = Visit(SiteOfSearch[crawl[j].search],
                           Searches[crawl[j].search].bounds, crawl[j], p)
    OBVIOUS
  <2>3. PICK h : h = Showing(shown[j], p, r)
    OBVIOUS
  <2>4. /\ shown' = [shown EXCEPT ![j] = h]
        /\ crawl' = [crawl EXCEPT ![j] = IF r.next = None THEN Decide(r) ELSE r]
    BY <2>1, <2>2, <2>3
  <2>5. /\ crawl[j].pc = "working" /\ p \in ListingPage
        /\ AttemptInv(crawl[j], shown[j]) /\ NextInv(crawl[j], shown[j])
    BY <1>1, <1>4, ScrapeAssumption DEF OpenPage, Holds
  <2>6. /\ r \in TurnRow /\ h \in History
        /\ r.next # None => r.pc = "working" /\ r \in CrawlRow /\ AttemptInv(r, h) /\ NextInv(r, h)
        /\ r.next = None => Stops(r, h)
    BY <1>1, <2>2, <2>3, <2>5, VisitMade
  <2>7. CASE r.next = None
    BY <2>4, <2>6, <2>7, DecideHolds, OneCrawl
  <2>8. CASE r.next # None
    <3>1. Holds(r, h)
      BY <2>6, <2>8 DEF Holds, EndInv
    <3> QED BY <2>4, <2>8, <3>1, OneCrawl
  <2> QED BY <2>7, <2>8
<1>5. CASE CrawlRaises(j)
  <2>1. /\ crawl' = [crawl EXCEPT ![j] = Ended(crawl[j], <<>>, "raised")]
        /\ shown' = [shown EXCEPT ![j] = shown[j]]
    BY <1>5 DEF CrawlRaises, CrawlInv
  <2> QED BY <1>1, <2>1, RaisedHolds, OneCrawl
<1>6. CASE TryAgain(j)
  <2>1. PICK c : c = [crawl[j] EXCEPT !.pc = "queued"]
    OBVIOUS
  <2>2. crawl' = [crawl EXCEPT ![j] = c] /\ shown' = [shown EXCEPT ![j] = shown[j]]
    BY <1>6, <2>1 DEF TryAgain, CrawlInv
  <2>3. c \in CrawlRow
    BY <1>1, <2>1 DEF CrawlRow, CrawlState
  <2>4. /\ c.pc = "queued" /\ c.next = crawl[j].next /\ c.n = crawl[j].n
        /\ c.search = crawl[j].search
    BY <1>1, <2>1 DEF CrawlRow
  <2>5. Holds(c, shown[j])
    BY <1>1, <2>3, <2>4 DEF Holds, AttemptInv, EndInv, NextInv
  <2> QED BY <2>2, <2>5, OneCrawl
<1> QED BY <1>2, <1>3, <1>4, <1>5, <1>6 DEF CrawlStep

\* A crawl or an ad that hangs keeps it, too.
LEMMA HangKeeps ==
  ASSUME CrawlInv, AdInv, NEW j \in Jobs, Hang(j)
  PROVE  CrawlInv' /\ AdInv'
<1>1. CASE j \in Crawls /\ crawl[j].pc = "working"
  <2>1. PICK c : c = [Fresh(crawl[j]) EXCEPT !.pc = "hung"]
    OBVIOUS
  <2>2. /\ crawl' = [crawl EXCEPT ![j] = c] /\ shown' = [shown EXCEPT ![j] = NothingShown]
        /\ UNCHANGED ad
    BY <1>1, <2>1, ScrapeAssumption DEF Hang
  <2>3. Holds(c, NothingShown)
    BY <1>1, <2>1, NowHolds, BeginHolds
  <2> QED BY <1>1, <2>2, <2>3, OneCrawl DEF AdInv
<1>2. CASE j \in AdJobs /\ Goto(j, "loading", "hung") /\ UNCHANGED <<crawl, shown>>
  BY <1>2, ScrapeAssumption DEF CrawlInv, Goto, AdInv, AdState
<1> QED BY <1>1, <1>2 DEF Hang

\* An exception ends the crawls of a set.
LEMMA RaiseKeeps ==
  ASSUME CrawlInv, AdInv, NEW set, Raise(set)
  PROVE  CrawlInv' /\ AdInv'
<1>1. ASSUME NEW j \in Crawls
      PROVE  Holds(IF j \in set THEN Ended(crawl[j], <<>>, "raised") ELSE crawl[j], shown[j])
  BY NowHolds, RaisedHolds
<1>2. /\ crawl' = [j \in Crawls |->
                     IF j \in set THEN Ended(crawl[j], <<>>, "raised") ELSE crawl[j]]
      /\ shown' = shown
  BY DEF Raise
<1>3. CrawlInv'
  <2>1. \A j \in Crawls : Holds(crawl'[j], shown'[j])
    BY <1>1, <1>2
  <2>2. crawl' \in [Crawls -> CrawlRow] /\ shown' \in [Crawls -> History]
    <3>1. \A j \in Crawls : crawl'[j] \in CrawlRow
      BY <2>1 DEF Holds
    <3> QED BY <1>2, <3>1 DEF CrawlInv
  <2> QED BY <2>1, <2>2 DEF Holds, CrawlInv
<1>4. AdInv'
  BY ScrapeAssumption DEF Raise, AdInv, AdState
<1> QED BY <1>3, <1>4

\* A step of one ad.
LEMMA GotoKeeps ==
  ASSUME AdInv, NEW j \in AdJobs, NEW from, NEW to \in AdState, Goto(j, from, to)
  PROVE  AdInv'
BY ScrapeAssumption DEF Goto, AdInv

\* So does a turn of a loop, within the retries.
LEMMA TurnKeeps ==
  ASSUME AdInv, NEW j \in AdJobs, NEW from, NEW to \in AdState, NEW turns \in {0, 1},
         ad[j].tries + turns <= Retries, Turn(j, from, to, turns)
  PROVE  AdInv'
<1>1. ad[j].tries \in 0 .. Retries
  BY DEF AdInv
<1>2. ad[j].tries + turns \in 0 .. Retries
  BY <1>1, ScrapeAssumption
<1> QED BY <1>2 DEF Turn, AdInv

\* Each action of an ad keeps its type and leaves the crawls alone.
LEMMA AdStepKeeps ==
  ASSUME AdInv, NEW j \in AdJobs, AdStep(j)
  PROVE  AdInv' /\ UNCHANGED <<crawl, shown>>
<1>1. ad[j].tries \in 0 .. Retries
  BY DEF AdInv
<1>2. /\ ad[j].tries + 0 <= Retries
      /\ ad[j].tries < Retries => ad[j].tries + 1 <= Retries
  BY <1>1, ScrapeAssumption
<1>3. UNCHANGED <<crawl, shown>>
  BY DEF AdStep, BeginAd, LoadAd, LoadAgain, LeaveAd, BeginChat, Chat, ChatAgain
<1>4. \/ \E from, to \in AdState : Goto(j, from, to)
      \/ \E from, to \in AdState : Turn(j, from, to, 0)
      \/ \E from, to \in AdState : Turn(j, from, to, 1) /\ ad[j].tries < Retries
  BY DEF AdStep, BeginAd, LoadAd, LoadAgain, LeaveAd, BeginChat, Chat, ChatAgain, AdState
<1> QED BY <1>2, <1>3, <1>4, GotoKeeps, TurnKeeps

\* The invariant holds at first.
LEMMA ScrapeInit == Init => CrawlInv /\ AdInv
<1> SUFFICES ASSUME Init PROVE CrawlInv /\ AdInv
  OBVIOUS
<1>1. NothingShown \in History
  BY DEF NothingShown, History
<1>2. ASSUME NEW j \in Crawls PROVE Holds(crawl[j], shown[j]) 
  <2>1. PICK s \in DOMAIN Searches : crawl[j] = NewCrawl(s)
    BY DEF Init
  <2>2. shown[j] = NothingShown
    BY DEF Init
  <2>3. /\ crawl[j] \in CrawlRow /\ crawl[j].pc = "queued" /\ crawl[j].n = 0
        /\ crawl[j].search = s /\ crawl[j].next = [page |-> 1, query |-> Searches[s].query]
    <3>1. PICK c : c = NewCrawl(s)
      OBVIOUS
    <3>2. /\ c \in CrawlRow /\ c.pc = "queued" /\ c.n = 0
          /\ c.search = s /\ c.next = [page |-> 1, query |-> Searches[s].query]
      BY <3>1, NewCrawlRow
    <3> QED BY <2>1, <3>1, <3>2
  <2>4. NextInv(crawl[j], shown[j])
    BY <2>3 DEF NextInv
  <2>5. AttemptInv(crawl[j], shown[j]) /\ EndInv(crawl[j], shown[j])
    BY <2>3 DEF AttemptInv, EndInv
  <2> QED BY <1>1, <2>2, <2>3, <2>4, <2>5 DEF Holds
<1>3. CrawlInv
  <2>1. \A j \in Crawls : crawl[j] \in CrawlRow /\ shown[j] \in History
    BY <1>2 DEF Holds
  <2>2. crawl \in [Crawls -> CrawlRow] /\ shown \in [Crawls -> History]
    BY <2>1 DEF Init
  <2> QED BY <1>2, <2>2 DEF Holds, CrawlInv
<1>4. AdInv
  BY ScrapeAssumption DEF Init, AdInv, AdState
<1> QED BY <1>3, <1>4

\* Every step keeps it.
LEMMA ScrapeNext == CrawlInv /\ AdInv /\ [Next]_vars => CrawlInv' /\ AdInv'
<1> SUFFICES ASSUME CrawlInv, AdInv, [Next]_vars PROVE CrawlInv' /\ AdInv'
  OBVIOUS
<1>1. ASSUME UNCHANGED <<crawl, shown>> PROVE CrawlInv'
  BY <1>1 DEF CrawlInv
<1>2. ASSUME UNCHANGED ad PROVE AdInv'
  BY <1>2 DEF AdInv
<1>3. ASSUME NEW j \in Crawls, CrawlStep(j) PROVE CrawlInv' /\ AdInv'
  <2>1. UNCHANGED ad
    BY <1>3 DEF CrawlStep, BeginAttempt, RefuseSearch, OpenPage, CrawlRaises, TryAgain
  <2> QED BY <1>2, <1>3, <2>1, CrawlStepKeeps
<1>4. ASSUME NEW j \in AdJobs, AdStep(j) PROVE CrawlInv' /\ AdInv'
  BY <1>1, <1>4, AdStepKeeps
<1>5. ASSUME NEW j \in Jobs, Acquire(j) \/ NoContext(j) PROVE CrawlInv' /\ AdInv'
  BY <1>1, <1>2, <1>5, RaiseKeeps DEF Acquire, NoContext, jobVars
<1>6. CASE BrokerRestarts
  BY <1>6, RaiseKeeps DEF BrokerRestarts
<1>7. CASE UNCHANGED vars
  BY <1>1, <1>2, <1>7 DEF vars, jobVars
<1>8. ASSUME NEW j \in Jobs, Hang(j) PROVE CrawlInv' /\ AdInv'
  BY <1>8, HangKeeps
<1> QED BY <1>3, <1>4, <1>5, <1>6, <1>7, <1>8 DEF Next

-----------------------------------------------------------------------------
(* Theorems                                                                *)

\* collect_all_links() and scrape_ad() acquire and release contexts as
\* ContextPool specifies.
THEOREM ScrapeImplementsPool == Spec => ImplementsPool
<1>1. Init => PoolInit
  BY DEF Init
<1>2. [Next]_vars => [PoolNext]_poolVars
  BY NextPool
<1> QED BY <1>1, <1>2, PTL DEF Spec, PoolSpec, ImplementsPool

\* No crawl and no ad loses a context or shares one, whatever a site serves
\* and whatever raises.
THEOREM ScrapeLosesNoContext == Spec => []PoolExact
BY ScrapeImplementsPool, PoolIsExact, PTL DEF ImplementsPool

\* A crawl or an ad at work under the current broker never waits for a context
\* that another one keeps.
THEOREM ScrapeFindsContext == Spec => []ContextAtOnce
BY ScrapeImplementsPool, ContextIsAtOnce, PTL DEF ImplementsPool

\* It always holds.
LEMMA ScrapeInv == Spec => [](CrawlInv /\ AdInv)
BY ScrapeInit, ScrapeNext, PTL DEF Spec

\* The variables of Scrape stay within their types: no crawl makes more
\* attempts than collect_all_links() allows, no ad more than scrape_ad() or
\* _chat() do, and links are always ads.
THEOREM ScrapeTypes == Spec => []ScrapeTypeOK
<1>1. PoolTypeOK /\ CrawlInv /\ AdInv => ScrapeTypeOK
  <2> SUFFICES ASSUME PoolTypeOK, CrawlInv, AdInv PROVE ScrapeTypeOK
    OBVIOUS
  <2>1. ASSUME NEW j \in Crawls
        PROVE  /\ crawl[j].pc \in CrawlState /\ crawl[j].attempt \in 0 .. Retries
               /\ crawl[j].why \in Whys /\ crawl[j].verdict \in Verdicts
               /\ crawl[j].links \in Seq(Ads) /\ crawl[j].n \in Nat
    BY DEF CrawlInv, CrawlRow
  <2>2. shown \in [Crawls -> [text : SUBSET Indicators,
                              offsite : BOOLEAN, button : BOOLEAN]]
    BY DEF CrawlInv, History
  <2> QED BY <2>1, <2>2 DEF ScrapeTypeOK, AdInv
<1> QED BY <1>1, ScrapeImplementsPool, PoolTypeCorrect, ScrapeInv, PTL DEF ImplementsPool

\* collect_all_links() returns links, or the reason why there are none; it
\* answers that nothing matches only if the page of its last attempt said so,
\* and never shows links of a page that counts no results.
THEOREM EndIsExplained == Spec => []EmptyIsExplained
<1>1. CrawlInv => EmptyIsExplained
  BY DEF CrawlInv, EndInv, EmptyIsExplained
<1> QED BY <1>1, ScrapeInv, PTL

\* As long as no next-page button is followed, _collect_all_links_once() opens
\* pages of the user's search only, and higher ones each time.
THEOREM SearchIsKept == Spec => []SearchKept
<1>1. CrawlInv => SearchKept
  BY DEF CrawlInv, NextInv, SearchKept
<1> QED BY <1>1, ScrapeInv, PTL
=============================================================================
