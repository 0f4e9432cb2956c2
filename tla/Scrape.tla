------------------------------- MODULE Scrape -------------------------------
(***************************************************************************)
(* The scraping jobs of one worker, of whatever reports: crawls            *)
(* (collect_all_links of service/scraper.py) and ads (scrape_ad, then the  *)
(* call of the language model, service/ai_client.py).  Each attempt of a   *)
(* crawl and each ad works in one context of the pool, under one slot of   *)
(* scrape_gate; the model is called under a slot of ai_gate.               *)
(*                                                                         *)
(* The sites and OpenAI answer anything in Pages, AdAnswers and Replies.   *)
(* The times slept are left out.                                           *)
(***************************************************************************)
EXTENDS ContextPool, Listing

CONSTANTS Crawls, AdJobs,
          Searches,    \* what users may search for, in a sequence
          Pages,       \* what a site may serve as a listing page
          AiSlots,     \* OPENAI_MAX_CONCURRENT_TOTAL
          Retries      \* _LISTING_MAX_RETRIES, _MAX_RETRIES, retries of _chat

ASSUME ScrapeAssumption == /\ Jobs = Crawls \cup AdJobs /\ Crawls \cap AdJobs = {}
                           /\ AiSlots \in Nat \ {0} /\ Retries \in Nat
                           /\ \A s \in DOMAIN Searches : Searches[s].query \in BOOLEAN
                           /\ Pages \subseteq ListingPage

VARIABLES crawl,   \* collect_all_links() of each crawl, with its current attempt
          shown,   \* history: what the sites showed to the last attempt
          ad       \* _process_one_ad() of each ad, up to its analysis

jobVars == <<crawl, shown, ad>>
vars == <<poolVars, jobVars>>

CrawlState == {"queued",     \* awaiting scrape_gate
               "working",    \* in _collect_all_links_once()
               "backoff",    \* asleep between two attempts, outside the gate
               "hung",       \* awaits an answer of the browser that never comes
               "ended"}
Whys == {"", "invalid_url"} \cup Diagnoses
Verdicts == {"none", "ok", "raised"} \cup Whys

AdState == {"queued",     \* awaiting scrape_gate
            "loading",    \* in _extract_one()
            "hung",       \* there, as a crawl
            "backoff",    \* asleep between two attempts, with slot and context
            "pausing",    \* asleep after the last one
            "prompted",   \* awaiting ai_gate
            "asking",     \* in _chat(), awaiting the model
            "limited",    \* in _chat(), asleep after a RateLimitError
            "ended",      \* analysed; "AI ERROR" is an analysis
            "raised"}

ScrapeTypeOK ==
  /\ PoolTypeOK
  /\ \A j \in Crawls : /\ crawl[j].pc \in CrawlState
                       /\ crawl[j].attempt \in 0 .. Retries
                       /\ crawl[j].why \in Whys
                       /\ crawl[j].verdict \in Verdicts
                       /\ crawl[j].links \in Seq(Ads)
                       /\ crawl[j].n \in Nat
  /\ shown \in [Crawls -> [text : SUBSET Indicators,
                           offsite : BOOLEAN, button : BOOLEAN]]
  /\ ad \in [AdJobs -> [pc : AdState, tries : 0 .. Retries]]

NothingShown == [text |-> {}, offsite |-> FALSE, button |-> FALSE]

\* A crawl before its first attempt.
NewCrawl(search) ==
  [pc |-> "queued", attempt |-> 0, verdict |-> "none",
   search |-> search, n |-> 0, url |-> None, links |-> <<>>, total |-> None, why |-> "",
   next |-> FirstPage([page |-> Searches[search].page,
                      query |-> Searches[search].query])]

\* Crawl c before an attempt: what the attempts have in common is kept.
Fresh(c) == [NewCrawl(c.search) EXCEPT !.pc = c.pc, !.attempt = c.attempt,
                                      !.verdict = c.verdict]

Init == /\ PoolInit
        /\ crawl \in [Crawls -> {NewCrawl(s) : s \in DOMAIN Searches}]
        /\ shown = [j \in Crawls |-> NothingShown]
        /\ ad = [j \in AdJobs |-> [pc |-> "queued", tries |-> 0]]

\* Searches whose address rejection_reason() accepts.
Allowed == {s \in DOMAIN Searches : IsAllowed(Searches[s].address)}

\* _site() of what a crawl opens: it stays on the site of the search.
SiteOfSearch == [s \in DOMAIN Searches |-> Site(Searches[s].address)]

-----------------------------------------------------------------------------
(* Crawls: collect_all_links().                                            *)

\* scrape_gate.run() grants a slot to the next attempt.
BeginAttempt(j) ==
  /\ crawl[j].pc = "queued"
  /\ Grant(j)
  /\ crawl' = [crawl EXCEPT ![j] = [Fresh(@) EXCEPT !.pc = "working"]]
  /\ shown' = [shown EXCEPT ![j] = NothingShown]
  /\ UNCHANGED ad

\* An attempt returned, and with it collect_all_links(), or before a sleep.
Ended(c, links, verdict) ==
  [Fresh(c) EXCEPT !.pc = "ended", !.links = links, !.verdict = verdict]
Retry(c) == [Fresh(c) EXCEPT !.pc = "backoff", !.attempt = @ + 1]

\* Mutant of Decide: attempts without links go on for ever.
Decide_Forever(c) ==
  IF c.links # <<>> THEN Ended(c, c.links, "ok") ELSE [Retry(c) EXCEPT !.attempt = 0]

\* What collect_all_links() makes of an attempt that returned c.links and
\* c.why: links, or an answer no retry can change, or another attempt, whose
\* sleep is outside the gate.
Decide(c) ==
  IF c.links # <<>> THEN Ended(c, c.links, "ok")
  ELSE IF c.why \in {"confirmed_empty", "invalid_url"} \/ c.attempt = Retries
    THEN Ended(c, <<>>, c.why)
    ELSE Retry(c)

\* The address of the search is refused before a context is asked for.
RefuseSearch(j) ==
  /\ crawl[j].pc = "working" /\ crawl[j].search \notin Allowed
  /\ GiveUp(j)
  /\ crawl' = [crawl EXCEPT ![j] = Decide([@ EXCEPT !.why = "invalid_url"])]
  /\ UNCHANGED <<shown, ad>>

\* The history after page p was opened in state c, which became r.
Showing(h, p, r) ==
  [text    |-> IF r.n = 1 /\ p.load = "loaded" /\ p.text # None THEN p.text ELSE h.text,
   offsite |-> p.load = "elsewhere",
   button  |-> h.button \/ (p.forward = "here" /\ r.next = Clean(r.url))]

\* One turn of the loop; after the last, the page is closed, the context and
\* the slot are given back, and the attempt is judged.
OpenPage(j) ==
  /\ crawl[j].pc = "working" /\ place[j] = "holding"
  /\ \E p \in Pages :
     \E r \in {Visit(SiteOfSearch[crawl[j].search],
                    Searches[crawl[j].search].bounds, crawl[j], p)} :
       /\ shown' = [shown EXCEPT ![j] = Showing(@, p, r)]
       /\ crawl' = [crawl EXCEPT ![j] = IF r.next = None THEN Decide(r) ELSE r]
       /\ IF r.next = None THEN Release(j) ELSE UNCHANGED poolVars
  /\ UNCHANGED ad

\* new_page() or close() raises: `finally` gives the context back, and the
\* exception goes up to run_analysis().
CrawlRaises(j) ==
  /\ crawl[j].pc = "working" /\ place[j] = "holding"
  /\ Release(j)
  /\ crawl' = [crawl EXCEPT ![j] = Ended(@, <<>>, "raised")]
  /\ UNCHANGED <<shown, ad>>

\* The sleep between two attempts is over.
TryAgain(j) ==
  /\ crawl[j].pc = "backoff"
  /\ crawl' = [crawl EXCEPT ![j].pc = "queued"]
  /\ UNCHANGED <<poolVars, shown, ad>>

-----------------------------------------------------------------------------
(* Ads: scrape_ad() and _extract_one().  What was extracted is left out:   *)
(* run_analysis hands fields, nothing and errors to the model alike.       *)

\* Task j goes on in another state, at the beginning of a loop or after so
\* many turns more of it.
Goto(j, from, to) ==
  ad[j].pc = from /\ ad' = [ad EXCEPT ![j] = [pc |-> to, tries |-> 0]]
Turn(j, from, to, turns) ==
  ad[j].pc = from /\ ad' = [ad EXCEPT ![j] = [pc |-> to, tries |-> @.tries + turns]]

BeginAd(j) ==
  /\ Goto(j, "queued", "loading")
  /\ Grant(j)
  /\ UNCHANGED <<crawl, shown>>

\* One attempt ends with fields, with an error (a redirect off the allowlist,
\* an exception), or, after 403, a timeout or a page without any field, in a
\* back-off, unless it was the last.
LoadAd(j) ==
  /\ place[j] = "holding"
  /\ \/ Goto(j, "loading", "pausing")
     \/ ad[j].tries < Retries /\ Turn(j, "loading", "backoff", 1)
  /\ UNCHANGED <<poolVars, crawl, shown>>

\* The back-off is over: the slot and the context were kept.
LoadAgain(j) ==
  /\ Turn(j, "backoff", "loading", 0)
  /\ UNCHANGED <<poolVars, crawl, shown>>

\* Mutant of LeaveAd: the release is not in a `finally`, and is jumped over.
LeaveAd_KeepsContext(j) ==
  /\ Goto(j, "pausing", "prompted")
  /\ LeaveGate(j)
  /\ UNCHANGED <<created, idle, context>>
  /\ UNCHANGED <<crawl, shown>>

\* The pause after an ad is over: context and slot are given back.
LeaveAd(j) ==
  /\ Goto(j, "pausing", "prompted")
  /\ Release(j)
  /\ UNCHANGED <<crawl, shown>>

-----------------------------------------------------------------------------
(* Ads: analyze_ad() and _chat().                                          *)

Asking == {j \in AdJobs : ad[j].pc \in {"asking", "limited"}}

\* ai_gate.run() grants a slot.
BeginChat(j) ==
  /\ Cardinality(Asking) < AiSlots
  /\ Goto(j, "prompted", "asking")
  /\ UNCHANGED <<poolVars, crawl, shown>>

\* The model answers, fails, or is over its rate: the slot is kept during the
\* sleep.  Or ai_gate lost the broker.  run_analysis() makes an analysis of
\* whatever was raised.
Chat(j) ==
  /\ \/ Goto(j, "asking", "ended")
     \/ ad[j].tries < Retries /\ Turn(j, "asking", "limited", 1)
     \/ Goto(j, "prompted", "ended")
  /\ UNCHANGED <<poolVars, crawl, shown>>

\* The sleep after a RateLimitError is over.
ChatAgain(j) ==
  /\ Turn(j, "limited", "asking", 0)
  /\ UNCHANGED <<poolVars, crawl, shown>>

-----------------------------------------------------------------------------
(* Either job.                                                             *)

\* It asks for its context, and waits for it.
Acquire(j) ==
  /\ j \in Crawls => crawl[j].search \in Allowed
  /\ AskContext(j) \/ LockTaken(j) \/ Create(j) \/ GetContext(j)
  /\ UNCHANGED jobVars

\* The jobs of a set raise, out of their gate.
Raise(set) ==
  /\ crawl' = [j \in Crawls |->
                 IF j \in set THEN Ended(crawl[j], <<>>, "raised") ELSE crawl[j]]
  /\ ad' = [j \in AdJobs |->
              IF j \in set THEN [pc |-> "raised", tries |-> 0] ELSE ad[j]]
  /\ UNCHANGED shown

\* No context can be created.
NoContext(j) == CreateFails(j) /\ Raise({j})

Queued == {j \in Crawls : crawl[j].pc = "queued"} \cup {j \in AdJobs : ad[j].pc = "queued"}

\* The broker restarts: jobs that are queued at scrape_gate, or connect while
\* it is down, raise ConnectionError; those at work go on uncounted.
BrokerRestarts == Forget /\ \E lost \in SUBSET Queued : Raise(lost)

\* page.evaluate(), page.content() and resp.text() have no timeout: the job may
\* await one for ever, with its slot and its context.
Hang(j) ==
  /\ place[j] = "holding"
  /\ \/ /\ j \in Crawls /\ crawl[j].pc = "working"
        /\ crawl' = [crawl EXCEPT ![j] = [Fresh(@) EXCEPT !.pc = "hung"]]
        /\ shown' = [shown EXCEPT ![j] = NothingShown]
        /\ UNCHANGED ad
     \/ /\ j \in AdJobs /\ Goto(j, "loading", "hung")
        /\ UNCHANGED <<crawl, shown>>
  /\ UNCHANGED poolVars

CrawlStep(j) == \/ BeginAttempt(j) \/ RefuseSearch(j) \/ OpenPage(j)
                \/ CrawlRaises(j) \/ TryAgain(j)

AdStep(j) == \/ BeginAd(j) \/ LoadAd(j) \/ LoadAgain(j) \/ LeaveAd(j)
             \/ BeginChat(j) \/ Chat(j) \/ ChatAgain(j)

Next == \/ \E j \in Crawls : CrawlStep(j)
        \/ \E j \in AdJobs : AdStep(j)
        \/ \E j \in Jobs : Acquire(j) \/ NoContext(j) \/ Hang(j)
        \/ BrokerRestarts

Spec == Init /\ [][Next]_vars

\* What a job awaits comes, unless it hangs: a page opens or fails within its
\* timeout, as a chat does, sleeps end, and a context is created or is not.
\* Slots and contexts are shared, hence the strong form.  It supposes that the
\* gates grant again and again: that the jobs of other workers do not keep all
\* their slots, and that those lost to calls that died between the grant and
\* their first step (Lost of FairGate, NoSlotLeak of Broker) are fewer than
\* the capacity.  asyncio's locks and queues serve in order.
Fairness == /\ \A j \in Crawls : SF_vars(CrawlStep(j) \/ Acquire(j))
            /\ \A j \in AdJobs : SF_vars(AdStep(j) \/ Acquire(j))

FairSpec == Spec /\ Fairness

-----------------------------------------------------------------------------
(* Properties                                                              *)

\* A crawl that ends without links says why, whichever attempts were blocked
\* or failed before; and the user is told that nothing matches only if the
\* site said so to the last attempt.  Links are never shown for a page that
\* counts no results.
EmptyIsExplained ==
  \A j \in Crawls :
    LET c == crawl[j] IN
    (c.pc = "ended" /\ c.verdict # "raised") =>
      /\ c.verdict = "ok" <=> c.links # <<>>
      /\ c.verdict \in {"ok", "confirmed_empty", "blocked", "unknown", "invalid_url"}
      /\ c.verdict = "confirmed_empty" => shown[j].text \cap {"zero", "empty"} # {}
      /\ c.verdict = "ok" => "zero" \notin shown[j].text
      /\ c.verdict = "invalid_url" => c.search \notin Allowed \/ shown[j].offsite

\* As long as no next-page button is followed, every page that a crawl is
\* about to open belongs to the user's search, filters included, and the crawl
\* moves forward: the n-th page opened has at least the number n.
SearchKept ==
  \A j \in Crawls :
    LET c == crawl[j] IN
    (c.next # None /\ ~shown[j].button) =>
      c.next.query = Searches[c.search].query /\ c.next.page > c.n

\* The jobs use the pool as ContextPool allows: what is shown of the pool
\* holds here.
ImplementsPool == PoolSpec

Hung == {j \in Crawls : crawl[j].pc = "hung"} \cup {j \in AdJobs : ad[j].pc = "hung"}

\* While fewer jobs hang than there are contexts, every other job ends,
\* whatever it is shown and the model answers, which creations fail and when
\* the broker restarts; and it gives everything back.
JobsEnd ==
  [](Cardinality(Hung) < MaxSize) =>
    <>[](/\ \A j \in Crawls \ Hung : crawl[j].pc = "ended"
         /\ \A j \in AdJobs \ Hung : ad[j].pc \in {"ended", "raised"}
         /\ slots \cup uncounted = Hung
         /\ idle = 1 .. created \ {context[j] : j \in Hung})
=============================================================================
