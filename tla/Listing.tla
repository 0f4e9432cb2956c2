------------------------------ MODULE Listing ------------------------------
(***************************************************************************)
(* What the crawler (service/scraper.py) reads from one listing page, and  *)
(* where it goes next.  Pure definitions, without state.                   *)
(*                                                                         *)
(* Addresses are abstracted to what the crawl tells apart.  The address of *)
(* a listing page is its page number and whether it carries the query      *)
(* string with the user's filters.  A link is the ad it names and the kind *)
(* of address it is.  A page is a record of what the site serves: how it   *)
(* loads, the data and the cards in it, its counters, its texts, and its   *)
(* pagination.                                                             *)
(***************************************************************************)
EXTENDS UrlGuard, FiniteSetsExt

CONSTANT Ads    \* addresses of ads, cleaned of their query string

\* The texts that are looked for: a counter of zero results, a challenge or
\* error page, a known message of no results.
Indicators == {"zero", "block", "empty"}

Optional(S) == S \cup {None}

\* An address in a page: of an ad, of one of Otodom's paid /hpr/ slots, or of
\* anything else.
Link == [ad : Ads, kind : {"ad", "promoted", "other"}]

\* What a site may serve: Otodom's __NEXT_DATA__, and a page.
NextData == [items : Seq([link : Link, sentinel : BOOLEAN,
                          price : Optional(Int), hidePrice : BOOLEAN]),
             total : Optional(Nat), page : Optional(Int), pages : Optional(Int)]
ListingPage ==
  [load : {"loaded", "elsewhere", "refused", "raises"},
   data : Optional(NextData), broken : BOOLEAN,
   organic : Optional(Seq([link : Link, hidden : BOOLEAN])),
   cards : Seq([link : Link, wider : BOOLEAN]),
   counter : Optional(Nat), text : Optional(SUBSET Indicators),
   forward : {"none", "here", "elsewhere"}, numbers : SUBSET Int]

\* The address of a listing page.
Url == [page : Int, query : BOOLEAN]

\* _site(): of an address that is of no site, "olx".
Site(a) == IF SiteOf(a) # None THEN SiteOf(a) ELSE "olx"

-----------------------------------------------------------------------------
(* The hrefs of a page.                                                    *)

\* _is_sentinel_item(): Otodom's hidden marker items.
IsSentinel(item) == item.sentinel

\* _outside_filter() on the bounds of _filter_bounds(), None where the
\* address sets no bound: a price that is not a number, or is hidden, counts
\* as inside.  (The area has bounds of the same form.)
OutsideFilter(item, bounds) ==
  /\ item.price # None /\ ~item.hidePrice
  /\ \/ bounds.min # None /\ item.price < bounds.min
     \/ bounds.max # None /\ item.price > bounds.max

\* The links of the cards of a set, in page order.
LinksOf(kept, cards) ==
  FoldLeft(LAMBDA acc, card : IF card \in kept THEN Append(acc, card.link) ELSE acc,
           <<>>, cards)

\* _otodom_links_from_next_data(): the genuine items.
NextDataHrefs(data, bounds) ==
  LinksOf({item \in Range(data.items) : ~IsSentinel(item) /\ ~OutsideFilter(item, bounds)},
          data.items)

\* _collect_otodom_hrefs(): the visible cards of the organic container.
OrganicHrefs(cards) == LinksOf({card \in Range(cards) : ~card.hidden}, cards)

\* _collect_listing_hrefs(): every card before the second listing grid, which
\* holds ads of a wider area.
ListingHrefs(cards) == LinksOf({card \in Range(cards) : ~card.wider}, cards)

\* The sources in order: Otodom's __NEXT_DATA__, its organic container, the
\* generic selectors; nothing if one of them raises.
Hrefs(site, p, bounds) ==
  IF site = "otodom" /\ p.data # None THEN NextDataHrefs(p.data, bounds)
  ELSE IF p.broken THEN <<>>
  ELSE IF site = "otodom" /\ p.organic # None THEN OrganicHrefs(p.organic)
  ELSE ListingHrefs(p.cards)

\* _is_ad(), is_allowed_url() and _is_promoted_url().
Keeps(link) == link.kind = "ad"

\* The loop over raw_hrefs: links grows by every new ad, in page order.
AddLinks(links, hrefs) ==
  FoldLeft(LAMBDA acc, link : IF Keeps(link) /\ ~Contains(acc, link.ad)
                                THEN Append(acc, link.ad) ELSE acc,
           links, hrefs)

-----------------------------------------------------------------------------
(* What a page says of itself.                                             *)

\* Mutant of TotalResults: a total of zero counts as a total.
TotalResults_Zero(site, p, before) ==
  IF site # "otodom" THEN before
  ELSE IF p.data # None /\ p.data.total # None THEN p.data.total
  ELSE IF p.counter # None THEN p.counter ELSE before

\* total_results: `a or b or c`, to which zero is as good as None.
TotalResults(site, p, before) ==
  IF site # "otodom" THEN before
  ELSE IF p.data # None /\ p.data.total \notin {None, 0} THEN p.data.total
  ELSE IF p.counter \notin {None, 0} THEN p.counter ELSE before

Diagnoses == {"confirmed_empty", "blocked", "unknown"}

ASSUME DiagnosisAssumption == None \notin Diagnoses

\* _diagnose_listing_page(), of a first page with newCount new links.  A
\* content() that raises leaves no text to look at.
Diagnosis(p, newCount) ==
  IF p.text # None /\ "zero" \in p.text THEN "confirmed_empty"
  ELSE IF newCount > 0 THEN None
  ELSE IF p.text = None THEN "unknown"
  ELSE IF "block" \in p.text THEN "blocked"
  ELSE IF "empty" \in p.text THEN "confirmed_empty"
  ELSE "unknown"

\* Otodom's own pagination calls this page the last.
IsLastPage(site, p) ==
  /\ site = "otodom" /\ p.data # None
  /\ p.data.page # None /\ p.data.pages # None
  /\ p.data.page >= p.data.pages

-----------------------------------------------------------------------------
(* The next page.                                                          *)

\* _reset_to_first_page(): the filters stay, the page number goes.
FirstPage(url) == [url EXCEPT !.page = 1]

\* _clean(): everything after the question mark goes, the page number with it.
Clean(url) == [page |-> 1, query |-> FALSE]

\* Mutant of NextByNumber: every numbered link but the current page's.
NextByNumber_Any(p, n, url) ==
  LET numbers == {m \in p.numbers : m # url.page}
  IN IF numbers = {} THEN None ELSE [url EXCEPT !.page = Min(numbers)]

\* _next_page_by_number(): the smallest number above that of pages read, at an
\* address other than the current one.  The site's links keep the filters of
\* the page they are on.
NextByNumber(p, n, url) ==
  LET numbers == {m \in p.numbers : m > n /\ m # url.page}
  IN IF numbers = {} THEN None ELSE [url EXCEPT !.page = Min(numbers)]

\* _next_page_by_url(): Otomoto and Otodom.
NextByUrl(site, url) ==
  IF site = "olx" THEN None ELSE [url EXCEPT !.page = @ + 1]

\* The first that finds one: a forward button with an address, a numbered
\* link, the address itself.  A page that is not allowed ends the crawl.
NextPage(site, p, n, url) ==
  IF p.forward = "elsewhere" THEN None
  ELSE IF p.forward = "here" /\ Clean(url) # url THEN Clean(url)
  ELSE IF NextByNumber(p, n, url) # None THEN NextByNumber(p, n, url)
  ELSE NextByUrl(site, url)

-----------------------------------------------------------------------------
(* One turn of the loop of _collect_all_links_once().  The crawl c has the *)
(* url to open, the number n of pages opened, the links so far, the total  *)
(* and the diagnosis; next = None ends the attempt.                        *)

\* _filter_bounds() of the current address, which has the user's or none.
FilterBounds(bounds, url) ==
  IF url.query THEN bounds ELSE [min |-> None, max |-> None]

\* The page is loaded: collect, diagnose a first page, stop or go on.
ReadPage(site, bounds, c, p) ==
  LET links == AddLinks(c.links, Hrefs(site, p, FilterBounds(bounds, c.url)))
      new   == Len(links) - Len(c.links)
      total == TotalResults(site, p, c.total)
      why   == IF c.n = 1 THEN Diagnosis(p, new) ELSE None
      next  == NextPage(site, p, c.n, c.url)
      Stop  == [c EXCEPT !.links = links, !.total = total, !.next = None]
  IN IF why # None
       THEN [Stop EXCEPT !.why = why,
                         !.links = IF why = "confirmed_empty" THEN <<>> ELSE @]
     ELSE IF IsLastPage(site, p) THEN Stop
     ELSE IF total # None /\ Len(links) >= total
       THEN [Stop EXCEPT !.links = SubSeq(@, 1, total)]
     ELSE IF new = 0 THEN Stop
     ELSE [Stop EXCEPT !.next = next]

\* page.goto() and its checks: a redirect off the allowlist, an answer other
\* than 2xx, an exception, or a page to read.
Visit(site, bounds, crawl, p) ==
  LET c       == [crawl EXCEPT !.n = @ + 1, !.url = crawl.next]
      End(why) == [c EXCEPT !.next = None, !.why = IF c.n = 1 THEN why ELSE @]
  IN CASE p.load = "elsewhere" -> [c EXCEPT !.next = None, !.why = "invalid_url"]
       [] p.load = "refused"   -> End("blocked")
       [] p.load = "raises"    -> End("unknown")
       [] p.load = "loaded"    -> ReadPage(site, bounds, c, p)
=============================================================================
