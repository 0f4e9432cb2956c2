----------------------------- MODULE MCScrape -----------------------------
(* One crawl and two ads over two contexts.  The pages are a selection: one *)
(* of every way to load, of every source of links and of pagination.        *)
EXTENDS Scrape, TLC

CONSTANTS c1, d1, d2, a1, a2

MCCrawls == {c1}
MCAdJobs == {d1, d2}
MCJobs   == {c1, d1, d2}
MCAds    == {a1, a2}

Ad(a) == [ad |-> a, kind |-> "ad"]
Promoted(a) == [ad |-> a, kind |-> "promoted"]

NoBounds == [min |-> None, max |-> None]

\* Addresses of the sites and, to compare rejection_reason() with
\* request_is_safe(), of other hosts.
Name(labels) == [spelling |-> "name", ip |-> None, labels |-> labels,
                 wellFormed |-> TRUE, finalDot |-> FALSE]
Ip(ip, how) == [Name(<<>>) EXCEPT !.spelling = how, !.ip = ip]
V4(global) == [global |-> global, multicast |-> FALSE, v4 |-> None]
Hosts == {Name(l) : l \in {<<"olx", "pl">>, <<"www", "olx", "pl">>, <<"olx", "local">>,
                           <<"olx", "pl", "home", "arpa">>, <<"localhost">>}}
           \cup {[Name(<<"olx", "pl">>) EXCEPT !.finalDot = TRUE]}
           \cup {Ip(V4(TRUE), "ip"), Ip([V4(TRUE) EXCEPT !.v4 = V4(FALSE)], "ip"),
                 Ip(None, "numeric")}
Address(host) == [empty |-> FALSE, tooLong |-> FALSE, badChars |-> FALSE,
                  scheme |-> "https", split |-> "https", userinfo |-> FALSE,
                  host |-> host, port |-> None, colon |-> FALSE]

ASSUME AcceptedIsRequested ==
  \A h \in Hosts \cup {None}, scheme \in {None, "http", "ftp"}, split \in {"http", "data"},
     port \in {None, 80, 443} :
    LET a == [Address(h) EXCEPT !.scheme = scheme, !.split = split, !.port = port] IN
    IsAllowed(a) => /\ RequestIsSafe(a, TRUE, {V4(TRUE)})
                    /\ RequestIsSafe(a, FALSE, None)
                    /\ SiteOf(a) # None

\* The user's searches: pasted from a later page, on Otodom with a bound
\* on the price, on a host that is not allowed.
Search(labels, query, page) ==
  [address |-> Address(Name(labels)), query |-> query, page |-> page, bounds |-> NoBounds]
MCSearches == <<Search(<<"www", "olx", "pl">>, TRUE, 2),
                [Search(<<"www", "otodom", "pl">>, TRUE, 1) EXCEPT !.bounds.max = 5],
                Search(<<"otomoto", "pl", "lan">>, TRUE, 1)>>

\* A page without cards, and its variations.
Bare == [load |-> "loaded", data |-> None, broken |-> FALSE, organic |-> None,
         cards |-> <<>>, counter |-> None, text |-> {}, forward |-> "none",
         numbers |-> {}]

Card(link) == [link |-> link, wider |-> FALSE]
Cards(s) == [Bare EXCEPT !.cards = s]
Item(a, price) == [link |-> Ad(a), sentinel |-> FALSE, price |-> price, hidePrice |-> FALSE]
Data(items, total, page, pages) ==
  [items |-> items, total |-> total, page |-> page, pages |-> pages]

Loads == {[Bare EXCEPT !.load = l] : l \in {"elsewhere", "refused", "raises"}}
Texts == {[Bare EXCEPT !.text = t] : t \in {None, {}, {"empty"}, {"block", "empty"}}}
           \cup {[Cards(<<Card(Ad(a1))>>) EXCEPT !.text = {"zero"}]}
Lists == {[Cards(<<Card(Ad(a1)), Card(Ad(a1)), Card(Promoted(a2))>>)
             EXCEPT !.numbers = {1, 2, 3}],
          [Cards(<<Card(Ad(a1)), [link |-> Ad(a2), wider |-> TRUE]>>)
             EXCEPT !.forward = "here", !.numbers = {1, 3}],
          [Cards(<<Card(Ad(a2))>>) EXCEPT !.numbers = {1, 4}],
          [Cards(<<Card(Ad(a2))>>) EXCEPT !.forward = "elsewhere"],
          [Cards(<<Card(Ad(a2)), Card(Ad(a1))>>) EXCEPT !.broken = TRUE]}
Otodoms == {[Bare EXCEPT !.data = Data(<<Item(a1, 7), Item(a2, 4)>>, 2, 1, 2)],
            [Bare EXCEPT !.data =
               Data(<<Item(a1, 3), [Item(a2, 1) EXCEPT !.sentinel = TRUE]>>, 0, 1, 1)],
            [Bare EXCEPT !.data = Data(<<Item(a2, None), Item(a1, None)>>, None, None, None)],
            [Bare EXCEPT !.organic = <<[link |-> Ad(a2), hidden |-> FALSE],
                                       [link |-> Ad(a1), hidden |-> TRUE]>>,
                         !.counter = 0],
            [Bare EXCEPT !.organic = <<[link |-> Ad(a1), hidden |-> FALSE],
                                       [link |-> Ad(a2), hidden |-> FALSE]>>,
                         !.counter = 1]}

MCPages == Loads \cup Texts \cup Lists \cup Otodoms
=============================================================================
