--------------------------- MODULE AccountsProofs ---------------------------
(***************************************************************************)
(* The safety of the account requests for every number of requests, users, *)
(* clients and subscriptions, every limit and every lifetime.              *)
(*                                                                         *)
(* Typed gives every variable and every handler its type, and says what a  *)
(* handler has read (Fits).  On it rest three invariants about what a      *)
(* request can know of those that were over when it began (LinkInv,        *)
(* QuotaInv, ClaimInv), and one about Stripe's snapshots (RowInv).         *)
(***************************************************************************)
EXTENDS Accounts, FiniteSetTheorems, TLAPS

Cookie == Tokens \cup {None}
AnalyzeForm == [cookie : Cookie, client : Clients]
NotifyForm  == [cookie : Cookie, report : Ids]
Args == Mailboxes \cup Tokens \cup {None} \cup AnalyzeForm \cup NotifyForm \cup Events
Seen == Int \cup Mailboxes \cup {None} \cup Snapshots

Handlers == [kind : Kinds, pc : Places, arg : Args, user : Mailboxes \cup {None},
             seen : Seen, old : Snapshots \cup {None}, fails : 0 .. MaxFails]

StripeOK ==
  /\ DOMAIN stripe \subseteq Subs
  /\ stripe \in [DOMAIN stripe -> Snapshots \cup {None}]
  /\ \A s \in DOMAIN stripe :
       stripe[s] # None => stripe[s].sub = s /\ \E e \in events : e.of = stripe[s]
  /\ \A e \in events : e.of.sub \in DOMAIN stripe /\ stripe[e.of.sub] # None

Reported(snapshot) == \E e \in events : e.of = snapshot

\* What a request that runs has been given, and has read.
FitsAuth(r)    == req[r].kind = "auth" =>
                    /\ req[r].arg \in Mailboxes
                    /\ req[r].pc = "mail" => link[r] # None
FitsVerify(r)  == req[r].kind = "verify" =>
                    /\ req[r].arg \in Requests \cup {None}
                    /\ req[r].arg # None =>
                         link[req[r].arg] # None /\ link[req[r].arg].mailed
                    /\ req[r].pc \in {"mark", "session"} => req[r].arg # None
FitsLogout(r)  == req[r].kind = "logout" => req[r].arg \in Cookie
FitsAnalyze(r) == req[r].kind = "analyze" =>
                    /\ req[r].arg \in AnalyzeForm
                    /\ req[r].pc \in {"client", "global"} => req[r].seen \in Int
                    /\ req[r].seen \in Int \cup {None}
FitsNotify(r)  == req[r].kind = "notify" =>
                    /\ req[r].arg \in NotifyForm /\ report[req[r].arg.report] # None
                    /\ req[r].pc \in {"report", "update"} => req[r].user \in Mailboxes
                    /\ req[r].seen \in Mailboxes \cup {None}
FitsWebhook(r) == req[r].kind = "webhook" =>
                    /\ req[r].arg \in events
                    /\ req[r].pc \in {"upsert", "insert", "update"} =>
                         /\ req[r].seen \in Snapshots
                         /\ req[r].seen.sub = req[r].arg.of.sub
                         /\ Reported(req[r].seen)
                    /\ req[r].pc = "update" => req[r].old # None
                    /\ req[r].pc \in {"retrieve", "upsert", "update"} =>
                         (req[r].old # None => row[Buyer(r)] # None)

Fits(r) == /\ req[r].kind # "none"
           /\ FitsAuth(r) /\ FitsVerify(r) /\ FitsLogout(r)
           /\ FitsAnalyze(r) /\ FitsNotify(r) /\ FitsWebhook(r)

Runs(r) == req[r].pc # "idle" /\ ~Over(r)

\* Request r may have created its link.
Linked(r) == \/ req[r].kind = "auth" /\ req[r].pc \notin {"idle", "start"}
             \/ req[r].kind = "webhook" /\ Over(r)

Typed == /\ AccountsTypeOK
         /\ req \in [Requests -> Handlers]
         /\ StripeOK
         /\ \A r \in Requests : req[r].pc = "idle" => req[r].seen = None
         /\ \A r \in Requests : link[r] # None => Linked(r)
         /\ \A r \in Requests : Runs(r) => Fits(r)

-----------------------------------------------------------------------------
(* How a request moves on.                                                 *)

\* Request r moves, and no other.
Moves(r) == /\ req' \in [Requests -> Handlers]
            /\ \A q \in Requests \ {r} : req'[q] = req[q]
            /\ req'[r].kind = req[r].kind
            /\ req'[r].pc # "idle"

LEMMA GotoMoves ==
  ASSUME Typed, NEW r \in Requests, NEW pc \in Places \ {"idle"}, Goto(r, pc)
  PROVE  /\ Moves(r)
         /\ req'[r].pc = pc /\ req'[r].arg = req[r].arg
         /\ req'[r].user = req[r].user /\ req'[r].seen = req[r].seen
         /\ req'[r].old = req[r].old
BY DEF Typed, Handlers, Moves, Goto

LEMMA EndMoves ==
  ASSUME Typed, NEW r \in Requests, NEW pc \in {"done", "failed"}, End(r, pc)
  PROVE  Moves(r) /\ Over(r)'
<1>1. None \in Args /\ None \in Seen /\ 0 \in 0 .. MaxFails /\ pc \in Places
  BY AccountsAssumption DEF Args, Seen, Places
<1>2. req \in [Requests -> Handlers] /\ req[r].kind \in Kinds
  BY DEF Typed, Handlers
<1>3. Blank(req[r].kind, pc) \in Handlers
  BY <1>1, <1>2 DEF Blank, Handlers
<1>4. req' = [req EXCEPT ![r] = Blank(req[r].kind, pc)]
  BY DEF End
<1> QED BY <1>2, <1>3, <1>4 DEF Moves, Over, Blank

\* A handler that is not to be answered yet starts again.
LEMMA AgainMoves ==
  ASSUME Typed, NEW r \in Requests, NEW fails \in 0 .. MaxFails, Again(r, fails)
  PROVE  /\ Moves(r)
         /\ req'[r].pc = "start" /\ req'[r].arg = req[r].arg
<1>1. None \in Args /\ None \in Seen /\ 0 \in 0 .. MaxFails /\ "start" \in Places
  BY AccountsAssumption DEF Args, Seen, Places
<1>2. req \in [Requests -> Handlers] /\ req[r].kind \in Kinds /\ req[r].arg \in Args
  BY DEF Typed, Handlers
<1> PICK blank : blank = Blank(req[r].kind, "start")
  OBVIOUS
<1>3. blank \in Handlers /\ blank.kind = req[r].kind /\ blank.pc = "start"
  BY <1>1, <1>2 DEF Blank, Handlers
<1>4. PICK new : new = [blank EXCEPT !.arg = req[r].arg, !.fails = fails]
  OBVIOUS
<1>5. /\ new \in Handlers /\ new.kind = req[r].kind /\ new.pc = "start"
      /\ new.arg = req[r].arg
  BY <1>2, <1>3, <1>4 DEF Handlers
<1>6. req' = [req EXCEPT ![r] = new]
  BY <1>4 DEF Again
<1> QED BY <1>2, <1>5, <1>6 DEF Moves

\* What other requests have read stays true.
Kept == /\ \A l \in Requests : link[l] # None => /\ link'[l] # None
                                                 /\ link[l].mailed => link'[l].mailed
        /\ \A p \in Ids : report[p] # None => report'[p] # None
        /\ \A m \in Mailboxes : row[m] # None => row'[m] # None
        /\ events \subseteq events'

\* A step is well typed if the data are, and the request that moves fits.
LEMMA StepTyped ==
  ASSUME Typed, NEW r \in Requests, Moves(r), Kept,
         now' \in Nat,
         link' \in [Requests -> LinkRows \cup {None}],
         session' \in [Tokens -> SessionRows \cup {None}],
         report' \in [Ids -> ReportRows \cup {None}],
         row' \in [Mailboxes -> Snapshots \cup {None}],
         before' \in [Requests -> SUBSET Requests],
         signed' \in [Requests -> Requests \cup {None}],
         torn' \subseteq Mailboxes,
         UNCHANGED <<stripe, events>>,
         \A q \in Requests : link'[q] # None => link[q] # None \/ q = r,
         link'[r] # None => Linked(r)',
         Over(r)' \/ Fits(r)'
  PROVE  Typed'
<1>1. AccountsTypeOK'
  BY DEF Typed, AccountsTypeOK, Moves, Handlers
<1>2. StripeOK'
  BY DEF Typed, StripeOK
<1>3. ASSUME NEW q \in Requests, q # r PROVE Runs(q)' => Fits(q)'
  <2>1. req'[q] = req[q]
    BY <1>3 DEF Moves
  <2>2. SUFFICES ASSUME Runs(q)' PROVE Fits(q)'
    OBVIOUS
  <2>3. Fits(q)
    BY <2>1, <2>2 DEF Typed, Runs, Over
  <2>4. req[q].arg \in Requests \cup {None} \/ req[q].kind # "verify"
    BY <2>3 DEF Fits, FitsVerify
  <2>5. FitsVerify(q)'
    BY <2>1, <2>3 DEF Kept, Fits, FitsVerify
  <2>6. FitsNotify(q)'
    <3>1. req[q].kind = "notify" => req[q].arg.report \in Ids
      BY <2>3 DEF Fits, FitsNotify, NotifyForm
    <3> QED BY <2>1, <2>3, <3>1 DEF Kept, Fits, FitsNotify
  <2>7. FitsWebhook(q)'
    <3>1. req[q].kind = "webhook" => Buyer(q) \in Mailboxes
      BY <2>3, AccountsAssumption
      DEF Fits, FitsWebhook, Typed, AccountsTypeOK, Events, Snapshots, Buyer
    <3> QED BY <2>1, <2>3, <3>1 DEF Kept, Fits, FitsWebhook, Reported, Buyer
  <2>8. FitsAuth(q)'
    BY <2>1, <2>3 DEF Kept, Fits, FitsAuth
  <2> QED BY <2>1, <2>3, <2>5, <2>6, <2>7, <2>8 DEF Fits, FitsLogout, FitsAnalyze
<1>4. Runs(r)' => Fits(r)'
  BY DEF Runs
<1>5. ASSUME NEW q \in Requests PROVE req'[q].pc = "idle" => req'[q].seen = None
  BY DEF Typed, Moves
<1>6. ASSUME NEW q \in Requests PROVE link'[q] # None => Linked(q)'
  BY DEF Typed, Moves, Linked, Over
<1> QED BY <1>1, <1>2, <1>3, <1>4, <1>5, <1>6 DEF Typed, Moves

-----------------------------------------------------------------------------
(* Types: one lemma per action.                                            *)

\* What stays as it is has its type, and is kept.
LEMMA DataTyped ==
  ASSUME Typed
  PROVE  /\ now \in Nat
         /\ link \in [Requests -> LinkRows \cup {None}]
         /\ session \in [Tokens -> SessionRows \cup {None}]
         /\ report \in [Ids -> ReportRows \cup {None}]
         /\ row \in [Mailboxes -> Snapshots \cup {None}]
         /\ before \in [Requests -> SUBSET Requests]
         /\ signed \in [Requests -> Requests \cup {None}]
         /\ torn \subseteq Mailboxes
         /\ \A r \in Requests : req[r].kind \in Kinds /\ req[r].pc \in Places
         /\ \A r \in Requests : Runs(r) => Fits(r)
BY DEF Typed, AccountsTypeOK

\* A request that only moves to another place, or ends.
LEMMA OnlyMoves ==
  ASSUME Typed, NEW r \in Requests, ~Over(r), Moves(r), Over(r)' \/ Fits(r)',
         req[r].kind = "auth" => req'[r].pc # "start",
         UNCHANGED <<now, link, session, report, row, stripe, events, before, signed, torn>>
  PROVE  Typed'
<1>1. Kept
  BY DEF Kept
<1>2. link'[r] # None => Linked(r)'
  BY DEF Typed, Linked, Moves
<1> QED BY <1>1, <1>2, DataTyped, StepTyped

LEMMA InitTyped == Init => Typed
<1> SUFFICES ASSUME Init PROVE Typed
  OBVIOUS
<1>1. PICK scene \in Scenes :
        /\ now = scene.start
        /\ req = [r \in Requests |-> Blank(scene.kinds[r], "idle")]
        /\ link = [r \in Requests |-> None]
        /\ session = [c \in Tokens |->
                        IF c \in scene.users THEN [user |-> c, expires |-> now + SessionTTL]
                        ELSE None]
        /\ \E c \in Clients :
             report = [p \in Ids |-> IF p # Old THEN None
                                     ELSE [owner |-> None, client |-> c, limited |-> TRUE,
                                           at |-> 0, by |-> None]]
        /\ row = [m \in Mailboxes |-> None]
        /\ stripe = [s \in scene.subs |-> None]
        /\ events = {}
        /\ before = [r \in Requests |-> {}]
        /\ signed = [r \in Requests |-> None]
        /\ torn = {}
  BY DEF Init
<1>2. /\ scene.kinds \in [Requests -> Kinds] /\ scene.users \in SUBSET Mailboxes
      /\ scene.subs \in SUBSET Subs /\ scene.start \in Nat
      /\ SessionTTL \in Nat /\ MaxFails \in Nat
  BY AccountsAssumption
<1>3. \A r \in Requests : Blank(scene.kinds[r], "idle") \in Handlers
  BY <1>2 DEF Blank, Handlers, Places, Args, Seen
<1>4. session \in [Tokens -> SessionRows \cup {None}]
  <2>1. \A c \in Tokens : session[c] \in SessionRows \cup {None}
    BY <1>1, <1>2 DEF SessionRows
  <2> QED BY <1>1, <2>1
<1>5. report \in [Ids -> ReportRows \cup {None}]
  BY <1>1 DEF ReportRows
<1>6. req \in [Requests -> Handlers]
  BY <1>1, <1>3
<1>7. AccountsTypeOK
  BY <1>1, <1>2, <1>4, <1>5, <1>6 DEF AccountsTypeOK, Handlers
<1>8. StripeOK
  BY <1>1, <1>2 DEF StripeOK
<1>9. \A r \in Requests : req[r].pc = "idle" /\ req[r].seen = None
  BY <1>1 DEF Blank
<1> QED BY <1>1, <1>6, <1>7, <1>8, <1>9 DEF Typed, Runs

LEMMA BeginTyped ==
  ASSUME Typed, NEW r \in Requests, Begin(r)
  PROVE  Typed'
<1>1. PICK a \in Arguments(req[r].kind) :
        req' = [req EXCEPT ![r].pc = "start", ![r].arg = a]
  BY DEF Begin
<1>2. req[r] \in Handlers /\ req[r].seen = None
  BY DEF Typed, Begin
<1> DEFINE kind == req[r].kind
<1>3. kind \in Kinds \ {"none"}
  BY <1>1, <1>2 DEF Arguments, Handlers, Kinds
<1>4. /\ kind = "auth" => a \in Mailboxes
      /\ kind = "verify" => /\ a \in Requests \cup {None}
                            /\ a # None => link[a] # None /\ link[a].mailed
      /\ kind = "logout" => a \in Cookie
      /\ kind = "analyze" => a \in AnalyzeForm
      /\ kind = "notify" => a \in NotifyForm /\ report[a.report] # None
      /\ kind = "webhook" => a \in events
  BY <1>1 DEF Arguments, Cookies, Cookie, AnalyzeForm, NotifyForm
<1>5. a \in Args
  BY <1>3, <1>4 DEF Args, Kinds, Cookie, Tokens, Typed, AccountsTypeOK
<1>6. req' \in [Requests -> Handlers]
  BY <1>1, <1>2, <1>5 DEF Typed, Handlers, Places
<1>7. /\ req'[r].kind = kind /\ req'[r].pc = "start" /\ req'[r].arg = a
      /\ req'[r].seen = None
  BY <1>1, <1>2 DEF Typed, Handlers
<1>8. Moves(r)
  BY <1>1, <1>6, <1>7 DEF Moves
<1>9. Fits(r)'
  BY <1>3, <1>4, <1>7 DEF Begin, Fits, FitsAuth, FitsVerify, FitsLogout, FitsAnalyze,
                          FitsNotify, FitsWebhook
<1>10. before' \in [Requests -> SUBSET Requests]
  BY DataTyped DEF Begin, Finished
<1>11. link[r] = None
  BY DEF Typed, Linked, Over, Begin
<1> QED BY <1>8, <1>9, <1>10, <1>11, DataTyped, StepTyped DEF Begin, Kept

LEMMA DiesTyped ==
  ASSUME Typed, NEW r \in Requests, Dies(r)
  PROVE  Typed'
<1>1. CASE Fail(r)
  <2>1. Moves(r) /\ Over(r)'
    BY <1>1, EndMoves DEF Fail
  <2> QED BY <2>1, OnlyMoves DEF Dies, Over
<1>2. CASE /\ req[r].kind = "webhook" /\ req[r].fails < MaxFails
           /\ Again(r, req[r].fails + 1)
  <2>1. req[r] \in Handlers /\ MaxFails \in Nat
    BY AccountsAssumption DEF Typed
  <2>2. Fits(r)
    BY DataTyped DEF Dies, Runs
  <2>3. req[r].fails + 1 \in 0 .. MaxFails
    BY <1>2, <2>1 DEF Handlers
  <2>4. Moves(r) /\ req'[r].pc = "start" /\ req'[r].arg = req[r].arg
    BY <1>2, <2>3, AgainMoves
  <2>5. Fits(r)'
    BY <1>2, <2>2, <2>4 DEF Dies, Moves, Fits, FitsAuth, FitsVerify, FitsLogout, FitsAnalyze,
                            FitsNotify, FitsWebhook
  <2> QED BY <1>2, <2>4, <2>5, OnlyMoves DEF Dies
<1> QED BY <1>1, <1>2 DEF Dies

\* A request that moves from a place other than idle and the last ones fits.
LEMMA RunningFits ==
  ASSUME Typed, NEW r \in Requests, req[r].pc \notin {"idle", "done", "failed"}
  PROVE  Fits(r)
BY DataTyped DEF Runs, Over

LEMMA NewLinkTyped ==
  ASSUME Typed, NEW r \in Requests, NEW m \in Mailboxes, NEW ttl \in Nat,
         NEW mailed \in BOOLEAN, NewLink(r, m, ttl, mailed), link[r] = None
  PROVE  /\ link' \in [Requests -> LinkRows \cup {None}]
         /\ link'[r] \in LinkRows
         /\ \A q \in Requests \ {r} : link'[q] = link[q]
<1>1. [mail |-> m, expires |-> now + ttl, used |-> FALSE, mailed |-> mailed] \in LinkRows
  BY DataTyped DEF LinkRows
<1> QED BY <1>1, DataTyped, NoneAssumption DEF NewLink

LEMMA AuthSendTyped ==
  ASSUME Typed, NEW r \in Requests, AuthSend(r)
  PROVE  Typed'
<1> USE DEF AuthSend
<1>1. CASE At(r, "auth", "start") /\ NewLink(r, req[r].arg, LinkTTL, FALSE) /\ Goto(r, "mail")
  <2>1. Fits(r) /\ req[r].arg \in Mailboxes /\ LinkTTL \in Nat
    BY <1>1, RunningFits, AccountsAssumption DEF At, Fits, FitsAuth
  <2>2. link[r] = None
    BY <1>1 DEF Typed, Linked, At, Over
  <2>3. /\ link' \in [Requests -> LinkRows \cup {None}] /\ link'[r] \in LinkRows
        /\ \A q \in Requests \ {r} : link'[q] = link[q]
    BY <1>1, <2>1, <2>2, NewLinkTyped
  <2>4. Moves(r) /\ req'[r].pc = "mail" /\ req'[r].arg = req[r].arg
    BY <1>1, GotoMoves DEF Places
  <2>5. Fits(r)'
    BY <1>1, <2>1, <2>3, <2>4, NoneAssumption
    DEF At, Moves, Fits, FitsAuth, FitsVerify, FitsLogout, FitsAnalyze, FitsNotify,
        FitsWebhook
  <2>6. Kept /\ Linked(r)'
    BY <1>1, <2>2, <2>3, <2>4 DEF Kept, Linked, At, Moves
  <2> QED BY <2>2, <2>3, <2>4, <2>5, <2>6, DataTyped, StepTyped
<1>2. CASE /\ At(r, "auth", "mail")
           /\ link' = [link EXCEPT ![r].mailed = TRUE] /\ Succeed(r)
  <2>1. link[r] # None
    BY <1>2, RunningFits DEF At, Fits, FitsAuth
  <2>2. link[r] \in LinkRows
    BY <2>1, DataTyped
  <2>3. [link[r] EXCEPT !.mailed = TRUE] \in LinkRows
    BY <2>2 DEF LinkRows
  <2>4. /\ link' \in [Requests -> LinkRows \cup {None}]
        /\ link'[r] \in LinkRows /\ link'[r].mailed
        /\ \A q \in Requests \ {r} : link'[q] = link[q]
    BY <1>2, <2>2, <2>3, DataTyped DEF LinkRows
  <2>5. Moves(r) /\ Over(r)'
    BY <1>2, EndMoves DEF Succeed
  <2>6. Kept /\ Linked(r)'
    BY <1>2, <2>1, <2>4, <2>5, NoneAssumption DEF Kept, Linked, At, Moves, Over
  <2> QED BY <2>1, <2>4, <2>5, <2>6, DataTyped, StepTyped
<1>3. CASE At(r, "auth", "mail") /\ UNCHANGED link /\ Fail(r)
  <2>1. Moves(r) /\ Over(r)'
    BY <1>3, EndMoves DEF Fail
  <2> QED BY <1>3, <2>1, OnlyMoves DEF At, Over
<1> QED BY <1>1, <1>2, <1>3

LEMMA SelectLinkTyped ==
  ASSUME Typed, NEW r \in Requests, SelectLink(r)
  PROVE  Typed'
<1>1. ~Over(r) /\ Fits(r) /\ req[r].kind = "verify"
  BY RunningFits DEF SelectLink, At, Over
<1>2. CASE Usable(req[r].arg) /\ Goto(r, "mark")
  <2>1. Moves(r) /\ req'[r].pc = "mark" /\ req'[r].arg = req[r].arg
    BY <1>2, GotoMoves DEF Places
  <2>2. req[r].arg \in Requests
    BY <1>1, <1>2 DEF Usable, Fits, FitsVerify
  <2>3. Fits(r)'
    BY <1>1, <2>1, <2>2, NoneAssumption
    DEF SelectLink, Moves, Fits, FitsAuth, FitsVerify, FitsLogout, FitsAnalyze, FitsNotify,
        FitsWebhook
  <2> QED BY <1>1, <2>1, <2>3, OnlyMoves DEF SelectLink
<1>3. CASE Fail(r)
  <2>1. Moves(r) /\ Over(r)'
    BY <1>3, EndMoves DEF Fail
  <2> QED BY <1>1, <2>1, OnlyMoves DEF SelectLink
<1> QED BY <1>2, <1>3 DEF SelectLink

LEMMA MarkLinkTyped ==
  ASSUME Typed, NEW r \in Requests, MarkLink(r)
  PROVE  Typed'
<1> USE DEF MarkLink
<1> DEFINE l == req[r].arg
<1>1. ~Over(r) /\ Fits(r) /\ req[r].kind = "verify" /\ req[r].pc = "mark"
  BY RunningFits DEF At, Over
<1>2. l \in Requests /\ link[l] \in LinkRows
  BY <1>1, DataTyped DEF Fits, FitsVerify
<1>3. /\ link' \in [Requests -> LinkRows \cup {None}]
      /\ link'[l] \in LinkRows /\ link'[l].mailed = link[l].mailed
      /\ \A q \in Requests \ {l} : link'[q] = link[q]
  <2>1. [link[l] EXCEPT !.used = TRUE] \in LinkRows
    BY <1>2 DEF LinkRows
  <2> QED BY <1>2, <2>1, DataTyped DEF LinkRows
<1>4. Moves(r) /\ req'[r].pc = "session" /\ req'[r].arg = req[r].arg
  BY GotoMoves DEF Places
<1>5. Kept /\ \A q \in Requests : link'[q] # None => link[q] # None
  BY <1>2, <1>3, NoneAssumption DEF Kept
<1>6. Fits(r)'
  BY <1>1, <1>4, <1>5
  DEF Kept, Moves, Fits, FitsAuth, FitsVerify, FitsLogout, FitsAnalyze, FitsNotify, FitsWebhook
<1>7. link[r] = None
  BY <1>1 DEF Typed, Linked
<1> QED BY <1>3, <1>4, <1>5, <1>6, <1>7, DataTyped, StepTyped

LEMMA SignInTyped ==
  ASSUME Typed, NEW r \in Requests, SignIn(r)
  PROVE  Typed'
<1> USE DEF SignIn
<1> DEFINE l == req[r].arg
<1>1. ~Over(r) /\ Fits(r) /\ req[r].kind = "verify" /\ req[r].pc = "session"
  BY RunningFits DEF At, Over
<1>2. l \in Requests /\ link[l] \in LinkRows
  BY <1>1, DataTyped DEF Fits, FitsVerify
<1>3. [user |-> link[l].mail, expires |-> now + SessionTTL] \in SessionRows
  BY <1>2, DataTyped, AccountsAssumption DEF LinkRows, SessionRows
<1>4. session' \in [Tokens -> SessionRows \cup {None}]
  BY <1>3, DataTyped DEF Tokens
<1>5. signed' \in [Requests -> Requests \cup {None}]
  BY <1>2, DataTyped
<1>6. Moves(r) /\ Over(r)'
  BY EndMoves DEF Succeed
<1>7. link[r] = None
  BY <1>1 DEF Typed, Linked
<1> QED BY <1>4, <1>5, <1>6, <1>7, DataTyped, StepTyped DEF Kept

LEMMA LogoutTyped ==
  ASSUME Typed, NEW r \in Requests, Logout(r)
  PROVE  Typed'
<1>1. ~Over(r) /\ Fits(r) /\ req[r].kind = "logout"
  BY RunningFits DEF Logout, At, Over
<1>2. session' \in [Tokens -> SessionRows \cup {None}]
  BY DataTyped DEF Logout
<1>3. Moves(r) /\ Over(r)'
  BY EndMoves DEF Logout, Succeed
<1>4. link[r] = None
  BY <1>1 DEF Typed, Linked
<1> QED BY <1>2, <1>3, <1>4, DataTyped, StepTyped DEF Logout, Kept

LEMMA UserOfTyped ==
  ASSUME Typed, NEW cookie \in Cookie
  PROVE  UserOf(cookie) \in Mailboxes \cup {None}
BY DataTyped DEF UserOf, Cookie, SessionRows

LEMMA ResolveAnalyzeTyped ==
  ASSUME Typed, NEW r \in Requests, ResolveAnalyze(r)
  PROVE  Typed'
<1> DEFINE user == UserOf(req[r].arg.cookie)
<1>1. ~Over(r) /\ Fits(r) /\ req[r].kind = "analyze" /\ req[r].pc = "start"
  BY RunningFits DEF ResolveAnalyze, At, Over
<1>2. req[r].arg \in AnalyzeForm /\ user \in Mailboxes \cup {None}
  BY <1>1, UserOfTyped DEF Fits, FitsAnalyze, AnalyzeForm
<1>3. /\ now - Day \in Int /\ now - Day \in Seen
      /\ req[r].seen \in Int \cup {None} /\ req[r].seen \in Seen
  BY <1>1, DataTyped, AccountsAssumption DEF Fits, FitsAnalyze, Seen
<1> HIDE DEF user
<1>4. CASE Fail(r)
  <2>1. Moves(r) /\ Over(r)'
    BY <1>4, EndMoves DEF Fail
  <2> QED BY <1>1, <2>1, OnlyMoves DEF ResolveAnalyze
<1>5. CASE req' = [req EXCEPT ![r].user = user, ![r].pc = "create"]
  <2>1. /\ Moves(r) /\ req'[r].pc = "create" /\ req'[r].arg = req[r].arg
        /\ req'[r].seen = req[r].seen
    BY <1>2, <1>5 DEF Typed, Handlers, Moves, Places
  <2>2. Fits(r)'
    BY <1>1, <1>2, <1>3, <2>1
    DEF Moves, Fits, FitsAuth, FitsVerify, FitsLogout, FitsAnalyze, FitsNotify, FitsWebhook
  <2> QED BY <1>1, <2>1, <2>2, OnlyMoves DEF ResolveAnalyze
<1>6. CASE req' = [req EXCEPT ![r].user = user, ![r].pc = "client", ![r].seen = now - Day]
  <2> PICK since \in Seen : since = now - Day
    BY <1>3
  <2>1. /\ Moves(r) /\ req'[r].pc = "client" /\ req'[r].arg = req[r].arg
        /\ req'[r].seen = since
    <3>1. req \in [Requests -> Handlers] /\ "client" \in Places
      BY DEF Typed, Places
    <3>2. req' = [req EXCEPT ![r].user = user, ![r].pc = "client", ![r].seen = since]
      BY <1>6
    <3> QED BY <1>2, <3>1, <3>2 DEF Handlers, Moves
  <2>2. Fits(r)'
    BY <1>1, <1>2, <1>3, <2>1
    DEF Moves, Fits, FitsAuth, FitsVerify, FitsLogout, FitsAnalyze, FitsNotify, FitsWebhook
  <2> QED BY <1>1, <2>1, <2>2, OnlyMoves DEF ResolveAnalyze
<1> QED BY <1>4, <1>5, <1>6 DEF ResolveAnalyze, user

\* A count of the quota: on to the next place, or refused.
LEMMA CountTyped ==
  ASSUME Typed, NEW r \in Requests, NEW pc \in {"global", "create"},
         req[r].kind = "analyze", req[r].pc \in {"client", "global"},
         Goto(r, pc) \/ Fail(r),
         UNCHANGED <<now, link, session, report, row, stripe, events, before, signed, torn>>
  PROVE  Typed'
<1>1. ~Over(r) /\ Fits(r)
  BY RunningFits DEF Over
<1>2. CASE Fail(r)
  <2>1. Moves(r) /\ Over(r)'
    BY <1>2, EndMoves DEF Fail
  <2> QED BY <1>1, <2>1, OnlyMoves
<1>3. CASE Goto(r, pc)
  <2>1. /\ Moves(r) /\ req'[r].pc = pc /\ req'[r].arg = req[r].arg
        /\ req'[r].seen = req[r].seen
    BY <1>3, GotoMoves DEF Places
  <2>2. Fits(r)'
    BY <1>1, <2>1
    DEF Moves, Fits, FitsAuth, FitsVerify, FitsLogout, FitsAnalyze, FitsNotify, FitsWebhook
  <2> QED BY <1>1, <2>1, <2>2, OnlyMoves
<1> QED BY <1>2, <1>3

LEMMA CreateReportTyped ==
  ASSUME Typed, NEW r \in Requests, CreateReport(r)
  PROVE  Typed'
<1>1. ~Over(r) /\ Fits(r) /\ req[r].kind = "analyze"
  BY RunningFits DEF CreateReport, At, Over
<1>2. req[r].arg.client \in Clients /\ req[r].user \in Mailboxes \cup {None}
  BY <1>1 DEF Typed, AccountsTypeOK, Fits, FitsAnalyze, AnalyzeForm
<1> DEFINE new == [owner |-> req[r].user, client |-> req[r].arg.client,
                   limited |-> req[r].seen # None, at |-> now,
                   by |-> IF req[r].user = None THEN None ELSE r]
<1>3. new \in ReportRows
  <2>1. new.limited \in BOOLEAN /\ new.by \in Requests \cup {None} /\ new.at \in Nat
    BY DataTyped
  <2> QED BY <1>2, <2>1 DEF ReportRows
<1>4. report' = [report EXCEPT ![r] = new]
  BY DEF CreateReport
<1> HIDE DEF new
<1>7. /\ report' \in [Ids -> ReportRows \cup {None}]
      /\ \A p \in Ids : report[p] # None => report'[p] # None
  BY <1>3, <1>4, DataTyped, NoneAssumption DEF Ids
<1>5. Moves(r) /\ Over(r)'
  BY EndMoves DEF CreateReport, Succeed
<1>6. link[r] = None
  BY <1>1 DEF Typed, Linked
<1> QED BY <1>5, <1>6, <1>7, DataTyped, StepTyped DEF CreateReport, Kept

LEMMA ResolveNotifyTyped ==
  ASSUME Typed, NEW r \in Requests, ResolveNotify(r)
  PROVE  Typed'
<1> DEFINE user == UserOf(req[r].arg.cookie)
<1>1. ~Over(r) /\ Fits(r) /\ req[r].kind = "notify" /\ req[r].pc = "start"
  BY RunningFits DEF ResolveNotify, At, Over
<1>2. req[r].arg \in NotifyForm /\ user \in Mailboxes \cup {None}
  BY <1>1, UserOfTyped DEF Fits, FitsNotify, NotifyForm
<1>3. req[r].seen \in Mailboxes \cup {None} /\ req[r].seen \in Seen
  BY <1>1 DEF Fits, FitsNotify, Seen
<1> HIDE DEF user
<1>4. CASE Fail(r)
  <2>1. Moves(r) /\ Over(r)'
    BY <1>4, EndMoves DEF Fail
  <2> QED BY <1>1, <2>1, OnlyMoves DEF ResolveNotify
<1>5. CASE user # None /\ req' = [req EXCEPT ![r].user = user, ![r].pc = "report"]
  <2>1. /\ Moves(r) /\ req'[r].pc = "report" /\ req'[r].arg = req[r].arg
        /\ req'[r].user = user /\ req'[r].seen = req[r].seen
    BY <1>2, <1>5 DEF Typed, Handlers, Moves, Places
  <2>2. Fits(r)'
    BY <1>1, <1>2, <1>3, <1>5, <2>1
    DEF ResolveNotify, Moves, Fits, FitsAuth, FitsVerify, FitsLogout, FitsAnalyze, FitsNotify,
        FitsWebhook
  <2> QED BY <1>1, <2>1, <2>2, OnlyMoves DEF ResolveNotify
<1> QED BY <1>4, <1>5 DEF ResolveNotify, user

LEMMA SelectReportTyped ==
  ASSUME Typed, NEW r \in Requests, SelectReport(r)
  PROVE  Typed'
<1> DEFINE owner == report[req[r].arg.report].owner
<1>1. ~Over(r) /\ Fits(r) /\ req[r].kind = "notify" /\ req[r].pc = "report"
  BY RunningFits DEF SelectReport, At, Over
<1>2. report[req[r].arg.report] \in ReportRows
  BY <1>1, DataTyped DEF Fits, FitsNotify, NotifyForm
<1>3. owner \in Mailboxes \cup {None} /\ owner \in Seen
  BY <1>2 DEF ReportRows, Seen
<1> HIDE DEF owner
<1>4. CASE Fail(r)
  <2>1. Moves(r) /\ Over(r)'
    BY <1>4, EndMoves DEF Fail
  <2> QED BY <1>1, <2>1, OnlyMoves DEF SelectReport
<1>5. CASE req' = [req EXCEPT ![r].seen = owner, ![r].pc = "update"]
  <2>1. /\ Moves(r) /\ req'[r].pc = "update" /\ req'[r].arg = req[r].arg
        /\ req'[r].user = req[r].user /\ req'[r].seen = owner
    BY <1>3, <1>5 DEF Typed, Handlers, Moves, Places
  <2>2. Fits(r)'
    BY <1>1, <1>3, <2>1
    DEF SelectReport, Moves, Fits, FitsAuth, FitsVerify, FitsLogout, FitsAnalyze, FitsNotify,
        FitsWebhook
  <2> QED BY <1>1, <2>1, <2>2, OnlyMoves DEF SelectReport
<1> QED BY <1>4, <1>5 DEF SelectReport, owner

LEMMA UpdateReportTyped ==
  ASSUME Typed, NEW r \in Requests, UpdateReport(r)
  PROVE  Typed'
<1> DEFINE p == req[r].arg.report
<1>1. ~Over(r) /\ Fits(r) /\ req[r].kind = "notify" /\ req[r].pc = "update"
  BY RunningFits DEF UpdateReport, At, Over
<1>2. p \in Ids /\ report[p] \in ReportRows /\ req[r].user \in Mailboxes
  BY <1>1, DataTyped DEF Fits, FitsNotify, NotifyForm
<1>3. PICK new \in ReportRows : report' = [report EXCEPT ![p] = new]
  <2>1. CASE req[r].seen # None
    BY <1>2, <2>1, DataTyped DEF UpdateReport
  <2>2. CASE req[r].seen = None
    <3>1. [report[p] EXCEPT !.owner = req[r].user, !.by = r] \in ReportRows
      BY <1>2 DEF ReportRows
    <3> QED BY <1>2, <2>2, <3>1, DataTyped DEF UpdateReport
  <2> QED BY <2>1, <2>2
<1>4. /\ report' \in [Ids -> ReportRows \cup {None}]
      /\ \A q \in Ids : report[q] # None => report'[q] # None
  BY <1>2, <1>3, DataTyped, NoneAssumption
<1>5. Moves(r) /\ Over(r)'
  BY EndMoves DEF UpdateReport, Succeed
<1>6. link[r] = None
  BY <1>1 DEF Typed, Linked
<1> QED BY <1>4, <1>5, <1>6, DataTyped, StepTyped DEF UpdateReport, Kept

\* What a webhook is about.
LEMMA EventTyped ==
  ASSUME Typed, NEW r \in Requests, req[r].kind = "webhook",
         req[r].pc \notin {"idle", "done", "failed"}
  PROVE  /\ req[r].arg \in events /\ req[r].arg \in Events
         /\ req[r].arg.of \in Snapshots /\ Buyer(r) \in Mailboxes
         /\ link[r] = None /\ ~Over(r) /\ Fits(r)
<1>1. Fits(r) /\ req[r].arg \in events
  BY RunningFits DEF Fits, FitsWebhook
<1>2. req[r].arg \in Events
  BY <1>1 DEF Typed, AccountsTypeOK
<1>3. req[r].arg.of \in Snapshots
  BY <1>2 DEF Events
<1>4. Buyer(r) \in Mailboxes
  BY <1>3, AccountsAssumption DEF Buyer, Snapshots
<1>5. link[r] = None /\ ~Over(r)
  BY DEF Typed, Linked, Over
<1> QED BY <1>1, <1>2, <1>3, <1>4, <1>5

LEMMA FindUserTyped ==
  ASSUME Typed, NEW r \in Requests, FindUser(r)
  PROVE  Typed'
<1>1. /\ req[r].kind = "webhook" /\ req[r].pc = "start" /\ Fits(r) /\ ~Over(r)
      /\ Buyer(r) \in Mailboxes
  BY EventTyped DEF FindUser, At
<1>2. PICK found \in Snapshots \cup {None} : found = row[Buyer(r)]
  BY <1>1, DataTyped
<1>3. req' = [req EXCEPT ![r].old = found, ![r].pc = "retrieve"]
  BY <1>2 DEF FindUser
<1>4. /\ Moves(r) /\ req'[r].pc = "retrieve" /\ req'[r].arg = req[r].arg
      /\ req'[r].old = found
  BY <1>3 DEF Typed, Handlers, Moves, Places
<1>5. UNCHANGED <<row, events>>
  BY DEF FindUser
<1>6. FitsWebhook(r)'
  BY <1>1, <1>2, <1>4, <1>5 DEF Buyer, Fits, FitsWebhook
<1>7. Fits(r)'
  BY <1>1, <1>4, <1>6 DEF Moves, Fits, FitsAuth, FitsVerify, FitsLogout, FitsAnalyze, FitsNotify
<1> QED BY <1>1, <1>4, <1>7, OnlyMoves DEF FindUser

LEMMA RetrieveTyped ==
  ASSUME Typed, NEW r \in Requests, Retrieve(r)
  PROVE  Typed'
<1> DEFINE snapshot == stripe[req[r].arg.of.sub]
<1>1. /\ req[r].kind = "webhook" /\ req[r].pc = "retrieve" /\ Fits(r) /\ ~Over(r)
      /\ req[r].arg \in events
  BY EventTyped DEF Retrieve, At
<1>2. /\ snapshot \in Snapshots /\ snapshot.sub = req[r].arg.of.sub
      /\ Reported(snapshot) /\ snapshot \in Seen
  BY <1>1 DEF Typed, StripeOK, Reported, Seen
<1> HIDE DEF snapshot
<1>3. req' = [req EXCEPT ![r].seen = snapshot, ![r].pc = "upsert"]
  BY DEF Retrieve, snapshot
<1>4. /\ Moves(r) /\ req'[r].pc = "upsert" /\ req'[r].arg = req[r].arg
      /\ req'[r].seen = snapshot /\ req'[r].old = req[r].old
  BY <1>2, <1>3 DEF Typed, Handlers, Moves, Places
<1>5. UNCHANGED <<row, events>>
  BY DEF Retrieve
<1>6. FitsWebhook(r)'
  BY <1>1, <1>2, <1>4, <1>5 DEF Reported, Buyer, Fits, FitsWebhook
<1>7. Fits(r)'
  BY <1>1, <1>4, <1>6 DEF Moves, Fits, FitsAuth, FitsVerify, FitsLogout, FitsAnalyze, FitsNotify
<1> QED BY <1>1, <1>4, <1>7, OnlyMoves DEF Retrieve

LEMMA SelectRowTyped ==
  ASSUME Typed, NEW r \in Requests, SelectRow(r)
  PROVE  Typed'
<1>1. /\ req[r].kind = "webhook" /\ req[r].pc = "upsert" /\ Fits(r) /\ ~Over(r)
  BY EventTyped DEF SelectRow, At
<1>2. PICK old \in {req[r].old, row[Buyer(r)]} :
        req' = [req EXCEPT ![r].old = old,
                           ![r].pc = IF old = None THEN "insert" ELSE "update"]
  BY DEF SelectRow
<1>3. /\ old \in Snapshots \cup {None}
      /\ old # None => row[Buyer(r)] # None
  <2>1. /\ req[r].old \in Snapshots \cup {None}
        /\ req[r].old # None => row[Buyer(r)] # None
    BY <1>1 DEF Typed, Handlers, SelectRow, At, Fits, FitsWebhook
  <2>2. row[Buyer(r)] \in Snapshots \cup {None}
    BY EventTyped, DataTyped DEF SelectRow, At
  <2> QED BY <2>1, <2>2
<1>4. /\ Moves(r) /\ req'[r].pc \in {"insert", "update"} /\ req'[r].arg = req[r].arg
      /\ req'[r].seen = req[r].seen /\ req'[r].old = old
      /\ req'[r].pc = "update" => old # None
  BY <1>2, <1>3 DEF Typed, Handlers, Moves, Places
<1>5. Fits(r)'
  BY <1>1, <1>3, <1>4
  DEF SelectRow, Reported, Buyer, Moves, Fits, FitsAuth, FitsVerify, FitsLogout, FitsAnalyze,
      FitsNotify, FitsWebhook
<1> QED BY <1>1, <1>4, <1>5, OnlyMoves DEF SelectRow

\* A row is flushed column by column: from the new row where this differs from
\* the old one, else from what is there.
LEMMA FlushedTyped ==
  ASSUME NEW current \in Snapshots, NEW old \in Snapshots, NEW new \in Snapshots
  PROVE  /\ Flushed(current, old, new) \in Snapshots
         /\ Flushed(current, old, new).sub \in {current.sub, new.sub}
         /\ current = old => Flushed(current, old, new) = new
<1> DEFINE Column(c) == IF new[c] = old[c] THEN current[c] ELSE new[c]
<1>1. DOMAIN new = {"sub", "status", "end"}
  BY DEF Snapshots
<1>2. Flushed(current, old, new) = [c \in {"sub", "status", "end"} |-> Column(c)]
  BY <1>1 DEF Flushed
<1>3. Flushed(current, old, new) =
        [sub |-> Column("sub"), status |-> Column("status"), end |-> Column("end")]
  BY <1>2
<1>4. /\ Column("sub") \in Subs /\ Column("sub") \in {current.sub, new.sub}
      /\ Column("status") \in {"active", "trialing", "past_due", "canceled"}
      /\ Column("end") \in Nat
  BY DEF Snapshots
<1>5. current = old => \A c \in {"sub", "status", "end"} : Column(c) = new[c]
  OBVIOUS
<1>6. new = [c \in {"sub", "status", "end"} |-> new[c]]
  BY <1>1 DEF Snapshots
<1>7. current = old => Flushed(current, old, new) = new
  BY <1>2, <1>5, <1>6
<1> HIDE DEF Column
<1> QED BY <1>3, <1>4, <1>7 DEF Snapshots

\* What is committed, and where: the row as it was retrieved, unless somebody
\* else has written the row after it was selected.
LEMMA Committed ==
  ASSUME Typed, NEW r \in Requests, CommitRow(r)
  PROVE  /\ torn' \subseteq Mailboxes /\ torn \subseteq torn'
         /\ \/ UNCHANGED row
            \/ \E new \in Snapshots :
                 /\ row' = [row EXCEPT ![Buyer(r)] = new]
                 /\ \/ new = req[r].seen
                    \/ /\ Buyer(r) \in torn' /\ row[Buyer(r)] # None
                       /\ new.sub \in {row[Buyer(r)].sub, req[r].seen.sub}
<1> DEFINE m == Buyer(r)
<1>1. m \in Mailboxes /\ Fits(r) /\ req[r].kind = "webhook"
      /\ req[r].pc \in {"insert", "update"}
  BY EventTyped DEF CommitRow
<1>2. req[r].seen \in Snapshots
  BY <1>1 DEF Fits, FitsWebhook
<1>3. row[m] \in Snapshots \cup {None} /\ req[r].old \in Snapshots \cup {None}
  BY <1>1, DataTyped DEF Typed, Handlers
<1> HIDE DEF m
<1>4. CASE UNCHANGED <<row, torn>>
  BY <1>4, DataTyped
<1>5. CASE row' = [row EXCEPT ![m] = req[r].seen] /\ UNCHANGED torn
  BY <1>2, <1>5, DataTyped DEF m
<1>6. CASE /\ req[r].pc = "update"
           /\ row' = [row EXCEPT ![m] = Flushed(row[m], req[r].old, req[r].seen)]
           /\ torn' = IF row[m] = req[r].old THEN torn ELSE torn \cup {m}
  <2>1. req[r].old \in Snapshots /\ row[m] \in Snapshots /\ row[m] # None
    BY <1>1, <1>3, <1>6, NoneAssumption DEF Fits, FitsWebhook, m
  <2>2. PICK new : new = Flushed(row[m], req[r].old, req[r].seen)
    OBVIOUS
  <2>3. /\ new \in Snapshots /\ new.sub \in {row[m].sub, req[r].seen.sub}
        /\ row[m] = req[r].old => new = req[r].seen
    BY <1>2, <2>1, <2>2, FlushedTyped
  <2>4. torn' \subseteq Mailboxes /\ torn \subseteq torn'
        /\ (row[m] = req[r].old \/ m \in torn')
    BY <1>1, <1>6, DataTyped
  <2> QED BY <1>6, <2>1, <2>2, <2>3, <2>4 DEF m
<1> QED BY <1>1, <1>4, <1>5, <1>6 DEF CommitRow, m

LEMMA CommitRowTyped ==
  ASSUME Typed, NEW r \in Requests, CommitRow(r)
  PROVE  Typed'
<1>1. /\ req[r].kind = "webhook" /\ req[r].pc \in {"insert", "update"} /\ Fits(r) /\ ~Over(r)
      /\ Buyer(r) \in Mailboxes /\ link[r] = None
  BY EventTyped DEF CommitRow
<1>2. PICK m \in Mailboxes : m = Buyer(r)
  BY <1>1
<1>3. /\ row' \in [Mailboxes -> Snapshots \cup {None}]
      /\ \A n \in Mailboxes : row[n] # None => row'[n] # None
  BY <1>2, Committed, DataTyped, NoneAssumption
<1>4. /\ Moves(r) /\ req'[r].pc \in {"start", "welcome"} /\ req'[r].arg = req[r].arg
  <2>1. CASE Again(r, req[r].fails)
    <3>1. req[r].fails \in 0 .. MaxFails
      BY DEF Typed, Handlers
    <3> QED BY <2>1, <3>1, AgainMoves
  <2>2. CASE Goto(r, "welcome")
    BY <2>2, GotoMoves DEF Places
  <2> QED BY <2>1, <2>2 DEF CommitRow
<1>5. Fits(r)'
  BY <1>1, <1>4
  DEF CommitRow, Reported, Moves, Fits, FitsAuth, FitsVerify, FitsLogout, FitsAnalyze,
      FitsNotify, FitsWebhook
<1>6. torn' \subseteq Mailboxes
  BY Committed
<1> QED BY <1>1, <1>3, <1>4, <1>5, <1>6, DataTyped, StepTyped DEF CommitRow, Kept

LEMMA WelcomeTyped ==
  ASSUME Typed, NEW r \in Requests, Welcome(r)
  PROVE  Typed'
<1>1. /\ req[r].kind = "webhook" /\ Buyer(r) \in Mailboxes /\ link[r] = None
  BY EventTyped DEF Welcome, At
<1>2. /\ link' \in [Requests -> LinkRows \cup {None}] /\ link'[r] \in LinkRows
      /\ \A q \in Requests \ {r} : link'[q] = link[q]
  BY <1>1, NewLinkTyped, AccountsAssumption DEF Welcome
<1>3. Moves(r) /\ Over(r)'
  BY EndMoves DEF Welcome, Succeed
<1>4. Kept /\ Linked(r)'
  BY <1>1, <1>2, <1>3 DEF Welcome, Kept, Linked, Moves
<1> QED BY <1>1, <1>2, <1>3, <1>4, DataTyped, StepTyped DEF Welcome

LEMMA UpdatedTyped ==
  ASSUME NEW old \in Snapshots \cup {None}, NEW event \in Events, event.type # "checkout"
  PROVE  /\ Updated(old, event) \in Snapshots \cup {None}
         /\ old = None <=> Updated(old, event) = None
         /\ Updated(old, event) # None => Updated(old, event).sub = old.sub
<1>1. CASE old = None \/ old.sub # event.of.sub
  BY <1>1 DEF Updated
<1>2. CASE old # None /\ old.sub = event.of.sub
  <2>1. old \in Snapshots /\ event.of \in Snapshots
        /\ event.type \in {"updated", "deleted", "payment_failed"}
    BY <1>2 DEF Events
  <2>2. /\ [event.of EXCEPT !.status = "canceled"] \in Snapshots
        /\ [old EXCEPT !.status = "past_due"] \in Snapshots
        /\ [event.of EXCEPT !.status = "canceled"].sub = event.of.sub
        /\ [old EXCEPT !.status = "past_due"].sub = old.sub
    BY <2>1 DEF Snapshots
  <2> QED BY <1>2, <2>1, <2>2, NoneAssumption DEF Updated
<1> QED BY <1>1, <1>2

LEMMA UpdateRowTyped ==
  ASSUME Typed, NEW r \in Requests, UpdateRow(r)
  PROVE  Typed'
<1>1. /\ Buyer(r) \in Mailboxes /\ link[r] = None /\ req[r].arg \in Events
  BY EventTyped DEF UpdateRow, At
<1>2. PICK new : new = Updated(row[Buyer(r)], req[r].arg)
  OBVIOUS
<1>3. PICK m \in Mailboxes : m = Buyer(r)
  BY <1>1
<1>4. new \in Snapshots \cup {None} /\ (row[m] = None <=> new = None)
  BY <1>1, <1>2, <1>3, DataTyped, UpdatedTyped DEF UpdateRow
<1>5. row' = [row EXCEPT ![m] = new]
  BY <1>2, <1>3 DEF UpdateRow
<1>6. /\ row' \in [Mailboxes -> Snapshots \cup {None}]
      /\ \A n \in Mailboxes : row[n] # None => row'[n] # None
  BY <1>4, <1>5, DataTyped
<1>7. Moves(r) /\ Over(r)'
  BY EndMoves DEF UpdateRow, Succeed
<1> QED BY <1>1, <1>6, <1>7, DataTyped, StepTyped DEF UpdateRow, Kept

\* Stripe's record changes; every snapshot of it has been reported.
LEMMA ReportTyped ==
  ASSUME Typed, NEW snapshot \in Snapshots, snapshot.sub \in DOMAIN stripe,
         NEW types, types \subseteq {"checkout", "updated", "deleted", "payment_failed"},
         types # {}, Report(types, snapshot),
         UNCHANGED <<now, req, link, session, report, row, before, signed, torn>>
  PROVE  Typed'
<1>1. events' \subseteq Events /\ events \subseteq events'
  BY DEF Report, Events, Typed, AccountsTypeOK
<1>2. PICK type \in types : TRUE
  OBVIOUS
<1>3. /\ [type |-> type, of |-> snapshot] \in events'
      /\ \A e \in events' : e \in events \/ e.of = snapshot
  BY <1>2 DEF Report
<1>4. DOMAIN stripe' = DOMAIN stripe
  BY DEF Report, Typed, StripeOK
<1>5. stripe' \in [DOMAIN stripe -> Snapshots \cup {None}]
  BY DEF Report, Typed, StripeOK
<1>6. stripe'[snapshot.sub] = snapshot
      /\ \A s \in DOMAIN stripe \ {snapshot.sub} : stripe'[s] = stripe[s]
  BY DEF Report, Typed, StripeOK
<1>7. snapshot # None
  BY NoneAssumption
<1>8. StripeOK'
  <2>1. \A s \in DOMAIN stripe :
          stripe'[s] # None => stripe'[s].sub = s /\ \E e \in events' : e.of = stripe'[s]
    BY <1>1, <1>3, <1>6 DEF Typed, StripeOK
  <2>2. \A e \in events' : e.of.sub \in DOMAIN stripe /\ stripe'[e.of.sub] # None
    BY <1>3, <1>6, <1>7 DEF Typed, StripeOK
  <2> QED BY <1>4, <1>5, <2>1, <2>2 DEF Typed, StripeOK
<1>9. AccountsTypeOK'
  BY <1>1 DEF Typed, AccountsTypeOK
<1>10. ASSUME NEW r \in Requests, Runs(r)' PROVE Fits(r)'
  <2>1. Fits(r)
    BY <1>10 DEF Typed, Runs, Over
  <2>2. FitsWebhook(r)'
    BY <1>1, <2>1 DEF Fits, FitsWebhook, Reported, Buyer
  <2> QED BY <2>1, <2>2 DEF Fits, FitsAuth, FitsVerify, FitsLogout, FitsAnalyze, FitsNotify
<1> QED BY <1>8, <1>9, <1>10 DEF Typed, Linked, Over

LEMMA StripeTyped ==
  ASSUME Typed, NEW s \in DOMAIN stripe, StripeChanges(s)
  PROVE  Typed'
<1> USE DEF StripeChanges
<1>1. s \in Subs /\ now \in Nat /\ Period \in Nat
  BY AccountsAssumption DEF Typed, StripeOK, AccountsTypeOK
<1>2. stripe[s] # None => stripe[s] \in Snapshots /\ stripe[s].sub = s
  BY DEF Typed, StripeOK
<1>3. CASE Report({"checkout", "updated"},
                  [sub |-> s, status |-> "active", end |-> now + Period])
  <2>1. [sub |-> s, status |-> "active", end |-> now + Period] \in Snapshots
    BY <1>1 DEF Snapshots
  <2> QED BY <1>3, <2>1, ReportTyped
<1>4. CASE stripe[s] # None /\ Report({"updated"}, [stripe[s] EXCEPT !.end = @ + Period])
  <2>1. [stripe[s] EXCEPT !.end = @ + Period] \in Snapshots
        /\ [stripe[s] EXCEPT !.end = @ + Period].sub = s
    BY <1>1, <1>2, <1>4 DEF Snapshots
  <2> QED BY <1>4, <2>1, ReportTyped
<1>5. CASE /\ stripe[s] # None
           /\ Report({"updated", "payment_failed"},
                     [sub |-> s, status |-> "past_due", end |-> stripe[s].end + Period])
  <2>1. [sub |-> s, status |-> "past_due", end |-> stripe[s].end + Period] \in Snapshots
    BY <1>1, <1>2, <1>5 DEF Snapshots
  <2> QED BY <1>5, <2>1, ReportTyped
<1>6. CASE stripe[s] # None /\ Report({"updated"}, [stripe[s] EXCEPT !.status = "active"])
  <2>1. [stripe[s] EXCEPT !.status = "active"] \in Snapshots
        /\ [stripe[s] EXCEPT !.status = "active"].sub = s
    BY <1>2, <1>6 DEF Snapshots
  <2> QED BY <1>6, <2>1, ReportTyped
<1>7. CASE stripe[s] # None /\ Report({"deleted"}, [stripe[s] EXCEPT !.status = "canceled"])
  <2>1. [stripe[s] EXCEPT !.status = "canceled"] \in Snapshots
        /\ [stripe[s] EXCEPT !.status = "canceled"].sub = s
    BY <1>2, <1>7 DEF Snapshots
  <2> QED BY <1>7, <2>1, ReportTyped
<1> QED BY <1>3, <1>4, <1>5, <1>6, <1>7

LEMMA TickTyped ==
  ASSUME Typed, Tick
  PROVE  Typed'
<1>1. AccountsTypeOK' /\ StripeOK'
  BY AccountsAssumption DEF Typed, AccountsTypeOK, StripeOK, Tick
<1>2. ASSUME NEW r \in Requests, Runs(r)' PROVE Fits(r)'
  BY <1>2 DEF Typed, Tick, Runs, Over, Fits, FitsAuth, FitsVerify, FitsLogout, FitsAnalyze,
              FitsNotify, FitsWebhook, Reported, Buyer
<1> QED BY <1>1, <1>2 DEF Typed, Tick, Linked, Over

LEMMA NextTyped == Typed /\ [Next]_vars => Typed'
<1> SUFFICES ASSUME Typed, [Next]_vars PROVE Typed'
  OBVIOUS
<1>1. CASE UNCHANGED vars
  <2>1. AccountsTypeOK' /\ StripeOK'
    BY <1>1 DEF Typed, AccountsTypeOK, StripeOK, vars
  <2>2. ASSUME NEW r \in Requests, Runs(r)' PROVE Fits(r)'
    BY <1>1, <2>2 DEF Typed, vars, Runs, Over, Fits, FitsAuth, FitsVerify, FitsLogout,
                      FitsAnalyze, FitsNotify, FitsWebhook, Reported, Buyer
  <2> QED BY <1>1, <2>1, <2>2 DEF Typed, vars, Linked, Over
<1>2. ASSUME NEW r \in Requests,
             Begin(r) \/ Dies(r) \/ AuthStep(r) \/ ReportStep(r) \/ WebhookStep(r)
      PROVE  Typed'
  <2>1. CASE Begin(r) \/ Dies(r)
    BY <2>1, BeginTyped, DiesTyped
  <2>2. CASE AuthStep(r)
    BY <2>2, AuthSendTyped, SelectLinkTyped, MarkLinkTyped, SignInTyped, LogoutTyped
    DEF AuthStep
  <2>3. CASE CountClient(r) \/ CountGlobal(r)
    BY <2>3, CountTyped DEF CountClient, CountGlobal, At
  <2>4. CASE ReportStep(r)
    BY <2>3, <2>4, ResolveAnalyzeTyped, CreateReportTyped, ResolveNotifyTyped,
       SelectReportTyped, UpdateReportTyped DEF ReportStep
  <2>5. CASE WebhookStep(r)
    BY <2>5, FindUserTyped, RetrieveTyped, SelectRowTyped, CommitRowTyped, WelcomeTyped, UpdateRowTyped
    DEF WebhookStep
  <2> QED BY <1>2, <2>1, <2>2, <2>4, <2>5
<1> QED BY <1>1, <1>2, StripeTyped, TickTyped DEF Next

\* Every variable and every handler has its type.
THEOREM AlwaysTyped == Spec => []Typed
<1> QED BY InitTyped, NextTyped, PTL DEF Spec

\* The rows that the requests of adagent_server.py read and write have their
\* types: no half-made user, link, session, report or subscription.
THEOREM AccountsTypeCorrect == Spec => []AccountsTypeOK
<1>1. Typed => AccountsTypeOK
  BY DEF Typed
<1> QED BY <1>1, AlwaysTyped, PTL

-----------------------------------------------------------------------------
(* What is over stays over.                                                *)

Acts(r) == Begin(r) \/ Dies(r) \/ AuthStep(r) \/ ReportStep(r) \/ WebhookStep(r)

LEMMA ActsAlone ==
  ASSUME Typed, NEW r \in Requests, Acts(r)
  PROVE  /\ ~Over(r) /\ req'[r].kind = req[r].kind
         /\ \A q \in Requests \ {r} : req'[q] = req[q]
<1>1. req \in [Requests -> Handlers] /\ req[r] \in Handlers
  BY DEF Typed
<1>2. ASSUME NEW pc, End(r, pc) \/ Goto(r, pc)
      PROVE  req'[r].kind = req[r].kind /\ \A q \in Requests \ {r} : req'[q] = req[q]
  BY <1>1, <1>2 DEF End, Goto, Blank, Handlers
<1>3. CASE Begin(r) \/ Dies(r)
  BY <1>1, <1>2, <1>3 DEF Begin, Dies, Fail, Again, Blank, Over, Handlers
<1>4. CASE AuthStep(r)
  BY <1>2, <1>4 DEF AuthStep, AuthSend, SelectLink, MarkLink, SignIn, Logout, At,
                    Succeed, Fail, Over
<1>5. CASE ReportStep(r)
  BY <1>1, <1>2, <1>5
  DEF ReportStep, ResolveAnalyze, CountClient, CountGlobal, CreateReport, ResolveNotify,
      SelectReport, UpdateReport, At, Succeed, Fail, Over, Handlers
<1>6. CASE WebhookStep(r)
  BY <1>1, <1>2, <1>6
  DEF WebhookStep, FindUser, Retrieve, SelectRow, CommitRow, Welcome, UpdateRow, At,
      Succeed, Again, Blank, Over, Handlers
<1> QED BY <1>3, <1>4, <1>5, <1>6 DEF Acts

\* The requests that were over when one began are over.
BeforeOver == \A r \in Requests : \A q \in before[r] : Over(q)

LEMMA BeforeStep ==
  ASSUME Typed, BeforeOver, [Next]_vars
  PROVE  BeforeOver'
<1>1. CASE UNCHANGED vars \/ Tick \/ \E s \in DOMAIN stripe : StripeChanges(s)
  BY <1>1 DEF BeforeOver, Over, vars, Tick, StripeChanges
<1>2. ASSUME NEW r \in Requests, Acts(r) PROVE BeforeOver'
  <2>1. \A q \in Requests : Over(q) => Over(q)'
    BY <1>2, ActsAlone DEF Over
  <2>2. \A p \in Requests : before'[p] = before[p] \/ before'[p] = Finished
    BY <1>2, DataTyped
    DEF Acts, Begin, Dies, AuthStep, AuthSend, SelectLink, MarkLink, SignIn, Logout,
        ReportStep, ResolveAnalyze, CountClient, CountGlobal, CreateReport, ResolveNotify,
        SelectReport, UpdateReport, WebhookStep,
        FindUser, Retrieve, SelectRow, CommitRow, Welcome, UpdateRow
  <2> QED BY <2>1, <2>2, DataTyped DEF BeforeOver, Finished
<1> QED BY <1>1, <1>2 DEF Next, Acts

-----------------------------------------------------------------------------
(* Sign-in links.                                                          *)

SignedWell(r) ==
  LET l == signed[r] IN
  l # None => /\ Over(r)
              /\ link[l] # None /\ link[l].used /\ link[l].mailed
              /\ session[r] # None => session[r].user = link[l].mail
              /\ \A q \in before[r] : signed[q] # l

SigningIn(r) ==
  (req[r].kind = "verify" /\ req[r].pc \in {"mark", "session"}) =>
    /\ \A q \in before[r] : signed[q] # req[r].arg
    /\ req[r].pc = "session" => link[req[r].arg].used

LinkInv == \A r \in Requests : SignedWell(r) /\ SigningIn(r)

\* A link keeps its mailbox, and stays sent and used.
LEMMA LinkGrows ==
  ASSUME Typed, [Next]_vars, NEW l \in Requests, link[l] # None
  PROVE  /\ link'[l] # None /\ link'[l].mail = link[l].mail
         /\ link[l].used => link'[l].used
         /\ link[l].mailed => link'[l].mailed
<1>1. link[l] \in LinkRows
  BY DataTyped
<1>2. CASE UNCHANGED link
  BY <1>2
<1>3. ASSUME NEW r \in Requests, AuthSend(r)
      PROVE  UNCHANGED link \/ l # r \/ link' = [link EXCEPT ![r].mailed = TRUE]
  BY <1>3 DEF AuthSend, At, Typed, Linked, Over
<1>4. ASSUME NEW r \in Requests, Welcome(r) PROVE l # r
  BY <1>4, EventTyped DEF Welcome, At
<1>5. ASSUME NEW r \in Requests, AuthSend(r) \/ Welcome(r) \/ MarkLink(r)
      PROVE  \/ UNCHANGED link
             \/ link'[l] = link[l]
             \/ link' = [link EXCEPT ![l].mailed = TRUE]
             \/ link' = [link EXCEPT ![l].used = TRUE]
  BY <1>3, <1>4, <1>5, DataTyped DEF AuthSend, Welcome, MarkLink, NewLink
<1>6. ASSUME NEW x \in {"mailed", "used"}, link' = [link EXCEPT ![l] = [@ EXCEPT ![x] = TRUE]]
      PROVE  /\ link'[l] \in LinkRows /\ link'[l].mail = link[l].mail
             /\ link[l].used => link'[l].used
             /\ link[l].mailed => link'[l].mailed
  BY <1>1, <1>6, DataTyped DEF LinkRows
<1>7. ASSUME NEW r \in Requests, Acts(r), ~UNCHANGED link
      PROVE  AuthSend(r) \/ Welcome(r) \/ MarkLink(r)
  BY <1>7
  DEF Acts, Begin, Dies, AuthStep, SelectLink, SignIn, Logout, ReportStep, ResolveAnalyze,
      CountClient, CountGlobal, CreateReport, ResolveNotify, SelectReport, UpdateReport,
      WebhookStep, FindUser, Retrieve, SelectRow, CommitRow, UpdateRow
<1>8. UNCHANGED link \/ \E r \in Requests : Acts(r)
  BY DEF Next, Acts, vars, Tick, StripeChanges
<1> QED BY <1>1, <1>2, <1>5, <1>6, <1>7, <1>8, NoneAssumption

\* Where neither the sign-ins nor what they rest on changes.
LEMMA LinkFrame ==
  ASSUME Typed, BeforeOver, LinkInv, [Next]_vars, UNCHANGED <<signed, before>>,
         NEW r \in Requests, Over(r) => Over(r)',
         session'[r] = session[r] \/ session'[r] = None
  PROVE  SignedWell(r)'
<1>1. CASE signed[r] = None
  BY <1>1 DEF SignedWell
<1>2. CASE signed[r] # None
  <2>1. signed[r] \in Requests
    BY <1>2, DataTyped
  <2> QED BY <1>2, <2>1, LinkGrows DEF LinkInv, SignedWell
<1> QED BY <1>1, <1>2

LEMMA SigningInFrame ==
  ASSUME Typed, LinkInv, [Next]_vars, UNCHANGED <<signed, before>>,
         NEW r \in Requests, req'[r] = req[r]
  PROVE  SigningIn(r)'
<1>1. CASE req[r].kind = "verify" /\ req[r].pc \in {"mark", "session"}
  <2>1. req[r].arg \in Requests /\ link[req[r].arg] # None
    BY <1>1, RunningFits DEF Fits, FitsVerify
  <2> QED BY <1>1, <2>1, LinkGrows DEF LinkInv, SigningIn
<1>2. CASE ~(req[r].kind = "verify" /\ req[r].pc \in {"mark", "session"})
  BY <1>2 DEF SigningIn
<1> QED BY <1>1, <1>2

LEMMA InitLink == Init => BeforeOver /\ LinkInv
BY DEF Init, BeforeOver, LinkInv, SignedWell, SigningIn, Blank

LEMMA LinkStep ==
  ASSUME Typed, BeforeOver, LinkInv, [Next]_vars
  PROVE  LinkInv'
<1>1. CASE UNCHANGED vars \/ Tick \/ \E s \in DOMAIN stripe : StripeChanges(s)
  BY <1>1 DEF LinkInv, SignedWell, SigningIn, Over, vars, Tick, StripeChanges
<1>2. ASSUME NEW r \in Requests, Acts(r) PROVE LinkInv'
  <2>1. ~Over(r) /\ \A q \in Requests \ {r} : req'[q] = req[q]
    BY <1>2, ActsAlone
  <2>2. \A q \in Requests : Over(q) => Over(q)'
    BY <2>1 DEF Over
  <2>3. CASE Begin(r)
    <3>1. \A q \in Requests : signed[q] # None => q # r
      BY <2>1 DEF LinkInv, SignedWell
    <3>2. \A q \in Requests \ {r} : before'[q] = before[q]
      BY <2>3, DataTyped DEF Begin
    <3>3. req'[r].pc = "start"
      BY <2>3 DEF Begin, Typed, Handlers
    <3>4. \A q \in Requests : SignedWell(q)'
      BY <2>2, <2>3, <3>1, <3>2 DEF Begin, LinkInv, SignedWell
    <3>5. ASSUME NEW q \in Requests PROVE SigningIn(q)'
      <4>1. CASE q = r
        BY <3>3, <4>1 DEF SigningIn
      <4>2. CASE q # r
        <5>1. req'[q] = req[q] /\ before'[q] = before[q] /\ SigningIn(q)
          BY <2>1, <3>2, <4>2 DEF LinkInv
        <5> QED BY <2>3, <5>1 DEF Begin, SigningIn
      <4> QED BY <4>1, <4>2
    <3> QED BY <3>4, <3>5 DEF LinkInv
  <2>4. CASE SelectLink(r)
    <3>1. \A q \in Requests : SignedWell(q)'
      BY <2>2, <2>4, LinkFrame DEF SelectLink
    <3>2. \A q \in Requests \ {r} : SigningIn(q)'
      BY <2>1, <2>4, SigningInFrame DEF SelectLink
    <3>3. CASE Usable(req[r].arg) /\ Goto(r, "mark")
      <4>1. req'[r].pc = "mark" /\ req'[r].arg = req[r].arg
        BY <3>3, GotoMoves DEF Places
      <4>2. \A q \in Requests : signed[q] # req[r].arg
        BY <3>3, NoneAssumption DEF LinkInv, SignedWell, Usable, SelectLink, At, Typed
      <4> QED BY <2>4, <3>1, <3>2, <4>1, <4>2, DataTyped DEF LinkInv, SigningIn, SelectLink
    <3>4. CASE Fail(r)
      <4>1. Over(r)'
        BY <3>4, EndMoves DEF Fail
      <4> QED BY <3>1, <3>2, <4>1 DEF LinkInv, SigningIn, Over
    <3> QED BY <2>4, <3>3, <3>4 DEF SelectLink
  <2>5. CASE MarkLink(r)
    <3>1. \A q \in Requests : SignedWell(q)'
      BY <2>2, <2>5, LinkFrame DEF MarkLink
    <3>2. \A q \in Requests \ {r} : SigningIn(q)'
      BY <2>1, <2>5, SigningInFrame DEF MarkLink
    <3>3. req'[r].pc = "session" /\ req'[r].arg = req[r].arg /\ req'[r].kind = "verify"
      BY <2>5, GotoMoves DEF MarkLink, Places, Moves, At
    <3>4. req[r].arg \in Requests /\ link[req[r].arg] \in LinkRows
      BY <2>5, RunningFits, DataTyped DEF MarkLink, At, Fits, FitsVerify
    <3>5. link'[req[r].arg].used
      BY <2>5, <3>4, DataTyped DEF MarkLink, LinkRows
    <3>6. \A q \in before[r] : signed[q] # req[r].arg
      BY <2>5 DEF LinkInv, SigningIn, MarkLink, At
    <3> QED BY <2>5, <3>1, <3>2, <3>3, <3>5, <3>6 DEF LinkInv, SigningIn, MarkLink
  <2>6. CASE SignIn(r)
    <3>1. req[r].arg \in Requests /\ link[req[r].arg] # None /\ link[req[r].arg].mailed
      BY <2>6, RunningFits DEF SignIn, At, Fits, FitsVerify
    <3>2. link[req[r].arg].used /\ \A q \in before[r] : signed[q] # req[r].arg
      BY <2>6 DEF LinkInv, SigningIn, SignIn, At
    <3>3. Over(r)' /\ r \in Tokens
      BY <2>6, EndMoves DEF SignIn, Succeed, Tokens
    <3>4. /\ signed'[r] = req[r].arg /\ session'[r].user = link[req[r].arg].mail
          /\ \A q \in Requests \ {r} : signed'[q] = signed[q] /\ session'[q] = session[q]
      BY <2>6, <3>3, DataTyped DEF SignIn, Tokens
    <3>5. \A q \in Requests : r \notin before[q]
      BY <2>1 DEF BeforeOver
    <3>6. SignedWell(r)'
      BY <2>6, <3>1, <3>2, <3>3, <3>4, <3>5, DataTyped DEF SignIn, SignedWell
    <3>7. \A q \in Requests \ {r} : SignedWell(q)'
      BY <2>2, <2>6, <3>4, <3>5, DataTyped DEF SignIn, LinkInv, SignedWell
    <3>8. \A q \in Requests \ {r} : SigningIn(q)'
      BY <2>1, <2>6, <3>4, <3>5, DataTyped DEF SignIn, LinkInv, SigningIn
    <3> QED BY <3>3, <3>6, <3>7, <3>8 DEF LinkInv, SigningIn, Over
  <2>7. CASE ~Begin(r) /\ ~SelectLink(r) /\ ~MarkLink(r) /\ ~SignIn(r)
    <3>1. UNCHANGED <<signed, before>>
      BY <1>2, <2>7
      DEF Acts, Dies, AuthStep, AuthSend, Logout, ReportStep, ResolveAnalyze, CountClient,
          CountGlobal, CreateReport, ResolveNotify, SelectReport, UpdateReport, WebhookStep,
          FindUser, Retrieve, SelectRow, CommitRow, Welcome, UpdateRow
    <3>2. UNCHANGED session \/ Logout(r)
      BY <1>2, <2>7
      DEF Acts, Dies, AuthStep, AuthSend, ReportStep, ResolveAnalyze, CountClient,
          CountGlobal, CreateReport, ResolveNotify, SelectReport, UpdateReport, WebhookStep,
          FindUser, Retrieve, SelectRow, CommitRow, Welcome, UpdateRow
    <3>3. \A q \in Requests : session'[q] = session[q] \/ session'[q] = None
      BY <3>2, DataTyped DEF Logout, Tokens
    <3>4. \A q \in Requests : SignedWell(q)'
      BY <2>2, <3>1, <3>3, LinkFrame
    <3>5. \A q \in Requests \ {r} : SigningIn(q)'
      BY <2>1, <3>1, SigningInFrame
    <3>6. req'[r].kind # "verify" \/ Over(r)'
      <4>1. req'[r].kind = req[r].kind
        BY <1>2, ActsAlone
      <4>2. CASE Fail(r)
        BY <4>2, EndMoves DEF Fail
      <4>3. CASE Logout(r)
        BY <4>3, EndMoves DEF Logout, Succeed
      <4> QED BY <1>2, <2>7, <4>1, <4>2, <4>3
          DEF Acts, Dies, AuthStep, AuthSend, ReportStep, ResolveAnalyze, CountClient,
              CountGlobal, CreateReport, ResolveNotify, SelectReport, UpdateReport,
              WebhookStep, FindUser, Retrieve, SelectRow, CommitRow, Welcome, UpdateRow, At
    <3> QED BY <3>4, <3>5, <3>6 DEF LinkInv, SigningIn, Over
  <2> QED BY <2>3, <2>4, <2>5, <2>6, <2>7
<1> QED BY <1>1, <1>2 DEF Next, Acts

LEMMA AlwaysLink == Spec => [](Typed /\ BeforeOver /\ LinkInv)
<1>1. Init => Typed /\ BeforeOver /\ LinkInv
  BY InitTyped, InitLink
<1>2. Typed /\ BeforeOver /\ LinkInv /\ [Next]_vars => (Typed /\ BeforeOver /\ LinkInv)'
  BY NextTyped, BeforeStep, LinkStep
<1> QED BY <1>1, <1>2, PTL DEF Spec

\* A mailed link signs in once, as the mailbox it was sent to: of the requests
\* that signed in with it, none was over when another began, however the
\* select and the update of consume_magic_link() interleave.
THEOREM LinkSignsInOnce == Spec => []LinkOnce
<1>1. LinkInv => LinkOnce
  BY NoneAssumption DEF LinkInv, SignedWell, LinkOnce
<1> QED BY <1>1, AlwaysLink, PTL

-----------------------------------------------------------------------------
(* The quota.                                                              *)

\* The free reports since some time that were there when request r began.
Earlier(r, since, clients) ==
  {q \in before[r] \cup {Old} : /\ report[q] # None
                                /\ report[q].limited
                                /\ report[q].at >= since
                                /\ report[q].client \in clients}

WithinClient(r) == PerClient > 0 =>
  Cardinality(Earlier(r, req[r].seen, {req[r].arg.client})) < PerClient
WithinGlobal(r) == GlobalCap > 0 => Cardinality(Earlier(r, req[r].seen, Clients)) < GlobalCap

\* What is known of the quota at each place of a handler of /analyze.
Counts(r) ==
  req[r].kind = "analyze" =>
    /\ req[r].pc = "start" => req[r].seen = None
    /\ (req[r].pc \in {"client", "global", "create"} /\ req[r].seen # None) =>
         /\ req[r].seen + Day <= now
         /\ req[r].pc \in {"global", "create"} => WithinClient(r)
         /\ req[r].pc = "create" => WithinGlobal(r)

WithinQuota(r) == (report[r] # None /\ report[r].limited) =>
             /\ PerClient > 0 => Cardinality(FreeBefore(r, {report[r].client})) < PerClient
             /\ GlobalCap > 0 => Cardinality(FreeBefore(r, Clients)) < GlobalCap

QuotaInv == \A r \in Requests : /\ report[r] # None => Over(r)
                                /\ Counts(r)
                                /\ WithinQuota(r)

\* Who writes a report.
LEMMA ReportWriters ==
  ASSUME [Next]_vars
  PROVE  UNCHANGED report \/ \E r \in Requests : CreateReport(r) \/ UpdateReport(r)
BY DEF Next, vars, Tick, StripeChanges, Begin, Dies, AuthStep, AuthSend, SelectLink,
       MarkLink, SignIn, Logout, ReportStep, ResolveAnalyze, CountClient, CountGlobal,
       ResolveNotify, SelectReport, WebhookStep,
       FindUser, Retrieve, SelectRow, CommitRow, Welcome, UpdateRow

\* A report keeps its client and its time.
LEMMA ReportKeeps ==
  ASSUME Typed, QuotaInv, [Next]_vars, NEW p \in Ids, report[p] # None
  PROVE  /\ report'[p] # None /\ report'[p].limited = report[p].limited
         /\ report'[p].at = report[p].at /\ report'[p].client = report[p].client
<1>1. CASE UNCHANGED report
  BY <1>1
<1>2. ASSUME NEW r \in Requests, CreateReport(r) PROVE report'[p] = report[p]
  BY <1>2, DataTyped DEF CreateReport, At, QuotaInv, Over
<1>3. ASSUME NEW r \in Requests, UpdateReport(r), ~UNCHANGED report
      PROVE  /\ report'[p] # None /\ report'[p].limited = report[p].limited
             /\ report'[p].at = report[p].at /\ report'[p].client = report[p].client
  <2>1. /\ req[r].arg.report \in Ids /\ req[r].user \in Mailboxes
    BY <1>3, RunningFits DEF UpdateReport, At, Fits, FitsNotify, NotifyForm
  <2>2. report' = [report EXCEPT ![req[r].arg.report].owner = req[r].user,
                                 ![req[r].arg.report].by = r]
    BY <1>3 DEF UpdateReport
  <2>3. report[p] \in ReportRows
    BY DataTyped
  <2>4. CASE p # req[r].arg.report
    BY <2>1, <2>2, <2>4, DataTyped
  <2>5. CASE p = req[r].arg.report
    <3>1. report'[p] = [report[p] EXCEPT !.owner = req[r].user, !.by = r]
      BY <2>2, <2>5, DataTyped
    <3>2. report'[p] \in ReportRows
      BY <2>1, <2>3, <3>1 DEF ReportRows
    <3> QED BY <2>3, <3>1, <3>2, NoneAssumption DEF ReportRows
  <2> QED BY <2>4, <2>5
<1> QED BY <1>1, <1>2, <1>3, ReportWriters

\* Only what was over, or there before, counts as earlier, so it stays as it is.
LEMMA EarlierKept ==
  ASSUME Typed, BeforeOver, QuotaInv, [Next]_vars,
         NEW r \in Requests, before'[r] = before[r], NEW since \in Int, NEW clients
  PROVE  Earlier(r, since, clients)' = Earlier(r, since, clients)
<1>1. before[r] \cup {Old} \subseteq Ids
  BY DataTyped DEF Ids
<1>2. ASSUME NEW q \in before[r] \cup {Old}, report'[q] # None PROVE report[q] # None
  <2>1. CASE q = Old
    <3>1. ASSUME NEW p \in Requests, CreateReport(p) PROVE report'[Old] = report[Old]
      BY <3>1, DataTyped, AccountsAssumption DEF CreateReport, Ids
    <3>2. ASSUME NEW p \in Requests, UpdateReport(p) PROVE report[Old] # None
      <4>1. req[p].arg.report \in Ids /\ report[req[p].arg.report] # None
        BY <3>2, RunningFits DEF UpdateReport, At, Fits, FitsNotify, NotifyForm
      <4> QED BY <1>2, <2>1, <3>2, <4>1, DataTyped DEF UpdateReport, Ids
    <3> QED BY <1>2, <2>1, <3>1, <3>2, ReportWriters
  <2>2. CASE q \in before[r]
    <3>1. Over(q) /\ q \in Requests
      BY <2>2, DataTyped DEF BeforeOver
    <3>2. ASSUME NEW p \in Requests, CreateReport(p) PROVE report'[q] = report[q]
      BY <3>1, <3>2, DataTyped DEF CreateReport, At, Over, Ids
    <3>3. ASSUME NEW p \in Requests, UpdateReport(p) PROVE report[q] # None
      <4>1. req[p].arg.report \in Ids /\ report[req[p].arg.report] # None
        BY <3>3, RunningFits DEF UpdateReport, At, Fits, FitsNotify, NotifyForm
      <4> QED BY <1>2, <3>1, <3>3, <4>1, DataTyped DEF UpdateReport, Ids
    <3> QED BY <1>2, <3>2, <3>3, ReportWriters
  <2> QED BY <2>1, <2>2
<1>3. ASSUME NEW q \in before[r] \cup {Old}
      PROVE  q \in Earlier(r, since, clients)' <=> q \in Earlier(r, since, clients)
  BY <1>1, <1>2, <1>3, ReportKeeps DEF Earlier
<1>4. /\ Earlier(r, since, clients)' \subseteq before[r] \cup {Old}
      /\ Earlier(r, since, clients) \subseteq before[r] \cup {Old}
  BY DEF Earlier
<1> QED BY <1>3, <1>4

\* What is counted includes what was there before.
LEMMA CountsEarlier ==
  ASSUME Typed, NEW r \in Requests, NEW since \in Int, NEW clients, NEW limit \in Nat,
         ~Exceeds(limit, CountFree(since, clients)), limit > 0
  PROVE  Cardinality(Earlier(r, since, clients)) < limit
<1> DEFINE counted == {p \in Ids : /\ report[p] # None
                                   /\ report[p].limited
                                   /\ report[p].at >= since
                                   /\ report[p].client \in clients}
<1>1. IsFiniteSet(Ids)
  BY AccountsAssumption, FS_AddElement DEF Ids
<1>2. IsFiniteSet(counted)
  BY <1>1, FS_Subset
<1>3. Earlier(r, since, clients) \subseteq counted
  BY DataTyped DEF Earlier, Ids
<1>4. /\ Cardinality(Earlier(r, since, clients)) <= Cardinality(counted)
      /\ IsFiniteSet(Earlier(r, since, clients))
  BY <1>2, <1>3, FS_Subset
<1>5. Cardinality(counted) \in Nat /\ Cardinality(Earlier(r, since, clients)) \in Nat
  BY <1>2, <1>4, FS_CardinalityType
<1>6. Cardinality(counted) < limit
  <2>1. ~(Cardinality(counted) >= limit)
    BY DEF Exceeds, CountFree
  <2> QED BY <1>5, <2>1
<1> QED BY <1>4, <1>5, <1>6

LEMMA TimePasses ==
  ASSUME Typed, [Next]_vars
  PROVE  now \in Nat /\ now' \in Nat /\ now <= now'
<1>1. now \in Nat
  BY DataTyped
<1>2. UNCHANGED now \/ Tick
  BY DEF Next, vars, StripeChanges, Begin, Dies, AuthStep, AuthSend, SelectLink, MarkLink,
         SignIn, Logout, ReportStep, ResolveAnalyze, CountClient, CountGlobal, CreateReport,
         ResolveNotify, SelectReport, UpdateReport, WebhookStep,
         FindUser, Retrieve, SelectRow, CommitRow, Welcome, UpdateRow
<1> QED BY <1>1, <1>2 DEF Tick

\* A step of others.
LEMMA CountsKept ==
  ASSUME Typed, BeforeOver, QuotaInv, [Next]_vars,
         NEW q \in Requests, req'[q] = req[q], before'[q] = before[q]
  PROVE  Counts(q)'
<1>1. CASE /\ req[q].kind = "analyze" /\ req[q].pc \in {"client", "global", "create"}
           /\ req[q].seen # None
  <2>1. req[q].seen \in Int
    BY <1>1, RunningFits DEF Fits, FitsAnalyze
  <2>2. /\ (req[q].seen + Day <= now) /\ Day \in Nat
        /\ req[q].pc \in {"global", "create"} => WithinClient(q)
        /\ req[q].pc = "create" => WithinGlobal(q)
    BY <1>1, AccountsAssumption DEF QuotaInv, Counts
  <2>3. req[q].seen + Day <= now'
    BY <2>1, <2>2, TimePasses
  <2> PICK since \in Int : since = req[q].seen
    BY <2>1
  <2>4. ASSUME NEW clients
        PROVE  Earlier(q, since, clients)' = Earlier(q, since, clients)
    BY EarlierKept
  <2>5. WithinClient(q) => WithinClient(q)'
    BY <2>4 DEF WithinClient
  <2>6. WithinGlobal(q) => WithinGlobal(q)'
    BY <2>4 DEF WithinGlobal
  <2> QED BY <1>1, <2>2, <2>3, <2>5, <2>6 DEF Counts
<1>2. CASE ~(/\ req[q].kind = "analyze" /\ req[q].pc \in {"client", "global", "create"}
             /\ req[q].seen # None)
  BY <1>2 DEF QuotaInv, Counts
<1> QED BY <1>1, <1>2

LEMMA QuotaKept ==
  ASSUME Typed, BeforeOver, QuotaInv, [Next]_vars,
         NEW q \in Requests, before'[q] = before[q], report'[q] # None => report[q] # None
  PROVE  WithinQuota(q)'
<1> SUFFICES ASSUME report'[q] # None, report'[q].limited
             PROVE  WithinQuota(q)'
  BY DEF WithinQuota
<1>1. /\ report[q] # None /\ report'[q].limited = report[q].limited
      /\ report'[q].at = report[q].at /\ report'[q].client = report[q].client
  BY ReportKeeps DEF Ids
<1>2. PICK since \in Int : since = report[q].at - Day
  BY <1>1, DataTyped, AccountsAssumption DEF Ids, ReportRows
<1>3. ASSUME NEW clients
      PROVE  /\ FreeBefore(q, clients) = Earlier(q, since, clients)
             /\ FreeBefore(q, clients)' = Earlier(q, since, clients)'
             /\ Earlier(q, since, clients)' = Earlier(q, since, clients)
  BY <1>1, <1>2, EarlierKept DEF FreeBefore, Earlier
<1>4. ASSUME NEW clients
      PROVE  FreeBefore(q, clients)' = FreeBefore(q, clients)
  BY <1>3
<1> QED BY <1>1, <1>4 DEF QuotaInv, WithinQuota

\* A count lets a request on only below the limit.
LEMMA ResolvedCounts ==
  ASSUME Typed, QuotaInv, NEW r \in Requests, ResolveAnalyze(r)
  PROVE  Counts(r)'
<1>1. req[r].seen = None /\ now - Day + Day <= now /\ req[r] \in Handlers /\ now - Day \in Int
  BY DataTyped, AccountsAssumption DEF Typed, QuotaInv, Counts, ResolveAnalyze, At
<1>2. CASE Fail(r)
  <2>1. Over(r)'
    BY <1>2, EndMoves DEF Fail
  <2> QED BY <2>1 DEF Counts, Over
<1>3. CASE req' = [req EXCEPT ![r].user = UserOf(req[r].arg.cookie), ![r].pc = "create"]
  <2>1. req'[r].seen = None /\ req'[r].pc = "create"
    BY <1>1, <1>3 DEF Typed, Handlers
  <2> QED BY <2>1 DEF Counts
<1>4. CASE req' = [req EXCEPT ![r].user = UserOf(req[r].arg.cookie), ![r].pc = "client",
                              ![r].seen = now - Day]
  <2>1. req'[r].seen = now - Day /\ req'[r].pc = "client"
    BY <1>1, <1>4 DEF Typed, Handlers
  <2> QED BY <1>1, <2>1 DEF Counts, ResolveAnalyze
<1> QED BY <1>2, <1>3, <1>4 DEF ResolveAnalyze

LEMMA CountedCounts ==
  ASSUME Typed, BeforeOver, QuotaInv, NEW r \in Requests, CountClient(r) \/ CountGlobal(r)
  PROVE  Counts(r)'
<1>1. /\ req[r].kind = "analyze" /\ req[r].pc \in {"client", "global"} /\ Counts(r)
      /\ UNCHANGED <<now, report, before>>
  BY DEF CountClient, CountGlobal, At, QuotaInv
<1>2. PICK since \in Int : since = req[r].seen
  BY <1>1, RunningFits DEF Fits, FitsAnalyze
<1>3. since # None /\ PerClient \in Nat /\ GlobalCap \in Nat
  BY NoneAssumption, AccountsAssumption
<1>4. CASE Fail(r)
  <2>1. Over(r)'
    BY <1>4, EndMoves DEF Fail
  <2> QED BY <2>1 DEF Counts, Over
<1>5. ASSUME NEW pc \in {"global", "create"}, Goto(r, pc)
      PROVE  /\ req'[r].pc = pc /\ req'[r].kind = "analyze"
             /\ req'[r].arg = req[r].arg /\ req'[r].seen = since
             /\ WithinClient(r)' <=> WithinClient(r)
  <2>1. /\ req'[r].pc = pc /\ req'[r].kind = "analyze"
        /\ req'[r].arg = req[r].arg /\ req'[r].seen = since
    BY <1>1, <1>2, <1>5, GotoMoves DEF Places, Moves
  <2> QED BY <1>1, <1>2, <2>1 DEF WithinClient, Earlier
<1>6. CASE CountClient(r) /\ Goto(r, "global")
  <2>1. PerClient > 0 => Cardinality(Earlier(r, since, {req[r].arg.client})) < PerClient
    BY <1>2, <1>3, <1>6, CountsEarlier, GotoMoves, EndMoves
    DEF CountClient, Fail, Over, Places
  <2>2. WithinClient(r)
    BY <1>2, <2>1 DEF WithinClient
  <2> QED BY <1>1, <1>2, <1>3, <1>5, <1>6, <2>2 DEF Counts
<1>7. CASE CountGlobal(r) /\ Goto(r, "create")
  <2>1. GlobalCap > 0 => Cardinality(Earlier(r, since, Clients)) < GlobalCap
    BY <1>2, <1>3, <1>7, CountsEarlier, GotoMoves, EndMoves
    DEF CountGlobal, Fail, Over, Places
  <2>2. WithinGlobal(r)'
    BY <1>1, <1>2, <1>5, <1>7, <2>1 DEF WithinGlobal, Earlier
  <2>3. WithinClient(r)
    BY <1>1, <1>2, <1>3, <1>7 DEF Counts, CountGlobal, At
  <2> QED BY <1>1, <1>2, <1>3, <1>5, <1>7, <2>2, <2>3 DEF Counts
<1> QED BY <1>4, <1>6, <1>7 DEF CountClient, CountGlobal

LEMMA CreatedWithin ==
  ASSUME Typed, BeforeOver, QuotaInv, NEW r \in Requests, CreateReport(r), [Next]_vars
  PROVE  WithinQuota(r)'
<1>1. /\ req[r].kind = "analyze" /\ req[r].pc = "create" /\ Counts(r)
      /\ UNCHANGED <<now, before>> /\ req[r].seen \in Int \cup {None}
  BY RunningFits DEF CreateReport, At, QuotaInv, Fits, FitsAnalyze
<1>2. /\ report'[r].limited <=> req[r].seen # None
      /\ report'[r].at = now /\ report'[r].client = req[r].arg.client
  BY DataTyped DEF CreateReport, Ids
<1> SUFFICES ASSUME report'[r].limited
             PROVE  WithinQuota(r)'
  BY DEF WithinQuota
<1>3. PICK since \in Int : since = req[r].seen
  BY <1>1, <1>2
<1>4. since + Day <= now /\ WithinClient(r) /\ WithinGlobal(r)
  BY <1>1, <1>2, <1>3 DEF Counts
<1>5. ASSUME NEW clients
      PROVE  /\ FreeBefore(r, clients)' \subseteq Earlier(r, since, clients)
             /\ IsFiniteSet(Earlier(r, since, clients))
  <2>1. Earlier(r, since, clients)' = Earlier(r, since, clients)
    BY <1>1, EarlierKept
  <2>2. ASSUME NEW q \in FreeBefore(r, clients)'
        PROVE  q \in Earlier(r, since, clients)'
    <3>1. q \in Ids /\ report'[q] # None /\ report'[q].at >= now - Day
      BY <1>1, <1>2, DataTyped DEF FreeBefore, Ids
    <3>2. report'[q].at \in Nat
      BY <3>1, NextTyped DEF Typed, AccountsTypeOK, ReportRows
    <3>3. report'[q].at >= since
      BY <1>4, <3>1, <3>2, DataTyped, AccountsAssumption
    <3> QED BY <3>3 DEF FreeBefore, Earlier
  <2>3. IsFiniteSet(Ids) /\ Earlier(r, since, clients) \subseteq Ids
    BY AccountsAssumption, FS_AddElement, DataTyped DEF Ids, Earlier
  <2>4. IsFiniteSet(Earlier(r, since, clients))
    BY <2>3, FS_Subset
  <2> QED BY <2>1, <2>2, <2>4
<1>6. ASSUME NEW clients, NEW limit \in Nat,
             Cardinality(Earlier(r, since, clients)) < limit
      PROVE  Cardinality(FreeBefore(r, clients)') < limit
  <2>1. /\ IsFiniteSet(FreeBefore(r, clients)')
        /\ Cardinality(FreeBefore(r, clients)') <= Cardinality(Earlier(r, since, clients))
    BY <1>5, FS_Subset
  <2>2. /\ Cardinality(FreeBefore(r, clients)') \in Nat
        /\ Cardinality(Earlier(r, since, clients)) \in Nat
    BY <1>5, <2>1, FS_CardinalityType
  <2> QED BY <1>6, <2>1, <2>2
<1>7. PICK client : client = req[r].arg.client
  OBVIOUS
<1>8. PerClient > 0 => Cardinality(FreeBefore(r, {client})') < PerClient
  BY <1>3, <1>4, <1>6, <1>7, AccountsAssumption DEF WithinClient
<1>9. GlobalCap > 0 => Cardinality(FreeBefore(r, Clients)') < GlobalCap
  <2>1. GlobalCap > 0 => Cardinality(Earlier(r, since, Clients)) < GlobalCap
    BY <1>3, <1>4 DEF WithinGlobal
  <2> QED BY <1>6, <2>1, AccountsAssumption
<1> QED BY <1>2, <1>7, <1>8, <1>9 DEF WithinQuota

LEMMA InitQuota == Init => QuotaInv
<1> SUFFICES ASSUME Init, NEW r \in Requests
             PROVE  (report[r] # None => Over(r)) /\ Counts(r) /\ WithinQuota(r)
  BY DEF QuotaInv
<1>1. req[r].pc = "idle"
  BY DEF Init, Blank
<1>2. report[r] = None
  BY AccountsAssumption DEF Init, Ids
<1> QED BY <1>1, <1>2 DEF Counts, WithinQuota

LEMMA QuotaStep ==
  ASSUME Typed, BeforeOver, QuotaInv, [Next]_vars
  PROVE  QuotaInv'
<1>1. CASE UNCHANGED vars \/ Tick \/ \E s \in DOMAIN stripe : StripeChanges(s)
  <2>1. UNCHANGED <<req, before, report>>
    BY <1>1 DEF vars, Tick, StripeChanges
  <2> QED BY <2>1, CountsKept, QuotaKept DEF QuotaInv, Over
<1>2. ASSUME NEW r \in Requests, Acts(r) PROVE QuotaInv'
  <2>1. /\ ~Over(r) /\ \A q \in Requests \ {r} : req'[q] = req[q]
        /\ req'[r].kind = req[r].kind
    BY <1>2, ActsAlone
  <2>2. report[r] = None
    BY <2>1 DEF QuotaInv
  <2>3. ASSUME NEW q \in Requests PROVE report'[q] # None => report[q] # None \/ CreateReport(r)
    <3>1. CASE UpdateReport(r)
      <4>1. req[r].arg.report \in Ids /\ report[req[r].arg.report] # None
        BY <3>1, RunningFits DEF UpdateReport, At, Fits, FitsNotify, NotifyForm
      <4> QED BY <3>1, <4>1, DataTyped DEF UpdateReport, Ids
    <3>2. CASE ~UpdateReport(r) /\ ~CreateReport(r)
      BY <1>2, <3>2
      DEF Acts, Begin, Dies, AuthStep, AuthSend, SelectLink, MarkLink, SignIn, Logout,
          ReportStep, ResolveAnalyze, CountClient, CountGlobal, ResolveNotify, SelectReport,
          WebhookStep, FindUser, Retrieve, SelectRow, CommitRow, Welcome, UpdateRow
    <3> QED BY <3>1, <3>2
  <2>4. ASSUME CreateReport(r)
        PROVE  Over(r)' /\ \A q \in Requests \ {r} : report'[q] = report[q]
    BY <2>4, EndMoves, DataTyped DEF CreateReport, Succeed, Ids
  <2>5. \A q \in Requests : before'[q] = before[q] \/ (Begin(r) /\ q = r)
    BY <1>2, DataTyped
    DEF Acts, Begin, Dies, AuthStep, AuthSend, SelectLink, MarkLink, SignIn, Logout,
        ReportStep, ResolveAnalyze, CountClient, CountGlobal, CreateReport, ResolveNotify,
        SelectReport, UpdateReport, WebhookStep,
        FindUser, Retrieve, SelectRow, CommitRow, Welcome, UpdateRow
  <2>6. \A q \in Requests : report'[q] # None => Over(q)'
    BY <2>1, <2>2, <2>3, <2>4 DEF QuotaInv, Over
  <2>7. ASSUME NEW q \in Requests \ {r} PROVE Counts(q)' /\ WithinQuota(q)'
    BY <2>1, <2>3, <2>4, <2>5, CountsKept, QuotaKept
  <2>8. WithinQuota(r)'
    BY <2>2, <2>3, CreatedWithin DEF WithinQuota
  <2>9. Counts(r)'
    <3>1. CASE Begin(r)
      BY <3>1 DEF Begin, Typed, Handlers, Counts
    <3>2. CASE Fail(r) \/ CreateReport(r)
      <4>1. Over(r)'
        BY <2>4, <3>2, EndMoves DEF Fail
      <4> QED BY <4>1 DEF Counts, Over
    <3>3. CASE ResolveAnalyze(r) \/ CountClient(r) \/ CountGlobal(r)
      BY <3>3, ResolvedCounts, CountedCounts
    <3>4. CASE req[r].kind # "analyze"
      BY <2>1, <3>4 DEF Counts
    <3> QED BY <1>2, <3>1, <3>2, <3>3, <3>4
        DEF Acts, Dies, AuthStep, AuthSend, SelectLink, MarkLink, SignIn, Logout, ReportStep,
            ResolveNotify, SelectReport, UpdateReport, WebhookStep,
            FindUser, Retrieve, SelectRow, CommitRow, Welcome, UpdateRow, At
  <2> QED BY <2>6, <2>7, <2>8, <2>9 DEF QuotaInv
<1> QED BY <1>1, <1>2 DEF Next, Acts

LEMMA AlwaysQuota == Spec => [](Typed /\ BeforeOver /\ QuotaInv)
<1>1. Init => Typed /\ BeforeOver /\ QuotaInv
  BY InitTyped, InitLink, InitQuota
<1>2. Typed /\ BeforeOver /\ QuotaInv /\ [Next]_vars => (Typed /\ BeforeOver /\ QuotaInv)'
  BY NextTyped, BeforeStep, QuotaStep
<1> QED BY <1>1, <1>2, PTL DEF Spec

\* The free quota of /analyze holds for requests that follow one another: of
\* the day before a free report, fewer than either limit were made by requests
\* that were over when its own began.  Only simultaneous requests exceed it.
THEOREM QuotaHoldsInSequence == Spec => []QuotaInSequence
<1>1. QuotaInv => QuotaInSequence
  BY DEF QuotaInv, WithinQuota, QuotaInSequence
<1> QED BY <1>1, AlwaysQuota, PTL

-----------------------------------------------------------------------------
(* Claims of reports.                                                      *)

\* Whoever is about to claim a report that is not anonymous any more began
\* before the claim of the owner was over.
Claiming(r) ==
  LET p == req[r].arg.report IN
  (req[r].kind = "notify" /\ req[r].pc = "update" /\ req[r].seen = None) =>
    (report[p].owner # None => report[p].by \notin before[r])

ClaimInv == \A r \in Requests : Claiming(r)

LEMMA InitClaim == Init => ClaimInv
BY DEF Init, ClaimInv, Claiming, Blank

\* The report of a claim, after a step of another request.
LEMMA ClaimKept ==
  ASSUME Typed, BeforeOver, QuotaInv, ClaimInv, [Next]_vars, NEW q \in Requests,
         req'[q] = req[q], before'[q] = before[q]
  PROVE  Claiming(q)'
<1> SUFFICES ASSUME req[q].kind = "notify", req[q].pc = "update", req[q].seen = None,
                    report'[req[q].arg.report].owner # None
             PROVE  report'[req[q].arg.report].by \notin before[q]
  BY DEF Claiming
<1> DEFINE p == req[q].arg.report
<1>1. p \in Ids /\ report[p] \in ReportRows
  BY RunningFits, DataTyped DEF Fits, FitsNotify, NotifyForm
<1>2. report[p] # None
  BY <1>1, NoneAssumption
<1>3. report[p].owner # None => report[p].by \notin before[q]
  BY DEF ClaimInv, Claiming
<1> HIDE DEF p
<1>4. ASSUME NEW r \in Requests, CreateReport(r) PROVE report'[p] = report[p]
  BY <1>1, <1>2, <1>4, DataTyped DEF CreateReport, At, QuotaInv, Over
<1>5. ASSUME NEW r \in Requests, UpdateReport(r)
      PROVE  report'[p] = report[p] \/ report'[p].by \notin before[q]
  <2>1. r \notin before[q]
    BY <1>5 DEF UpdateReport, At, BeforeOver, Over
  <2>2. CASE req[r].seen # None \/ req[r].arg.report # p
    <3>1. req[r].arg.report \in Ids
      BY <1>5, RunningFits DEF UpdateReport, At, Fits, FitsNotify, NotifyForm
    <3> QED BY <1>1, <1>5, <2>2, <3>1, DataTyped DEF UpdateReport
  <2>3. CASE req[r].seen = None /\ req[r].arg.report = p
    <3>1. report'[p] = [report[p] EXCEPT !.owner = req[r].user, !.by = r]
      BY <1>1, <1>5, <2>3, DataTyped DEF UpdateReport
    <3>2. report'[p].by = r
      BY <1>1, <3>1 DEF ReportRows
    <3> QED BY <2>1, <3>2
  <2> QED BY <2>2, <2>3
<1>6. report'[p] = report[p] \/ report'[p].by \notin before[q]
  BY <1>4, <1>5, ReportWriters
<1> QED BY <1>3, <1>6 DEF p

LEMMA ClaimStep ==
  ASSUME Typed, BeforeOver, QuotaInv, ClaimInv, [Next]_vars
  PROVE  ClaimInv'
<1>1. CASE UNCHANGED vars \/ Tick \/ \E s \in DOMAIN stripe : StripeChanges(s)
  <2>1. UNCHANGED <<req, before, report>>
    BY <1>1 DEF vars, Tick, StripeChanges
  <2> QED BY <2>1, ClaimKept DEF ClaimInv
<1>2. ASSUME NEW r \in Requests, Acts(r) PROVE ClaimInv'
  <2>1. /\ ~Over(r) /\ \A q \in Requests \ {r} : req'[q] = req[q]
        /\ req'[r].kind = req[r].kind
    BY <1>2, ActsAlone
  <2>2. \A q \in Requests : before'[q] = before[q] \/ (Begin(r) /\ q = r)
    BY <1>2, DataTyped
    DEF Acts, Begin, Dies, AuthStep, AuthSend, SelectLink, MarkLink, SignIn, Logout,
        ReportStep, ResolveAnalyze, CountClient, CountGlobal, CreateReport, ResolveNotify,
        SelectReport, UpdateReport, WebhookStep,
        FindUser, Retrieve, SelectRow, CommitRow, Welcome, UpdateRow
  <2>3. \A q \in Requests \ {r} : Claiming(q)'
    BY <2>1, <2>2, ClaimKept
  <2>4. Claiming(r)'
    <3>1. CASE Begin(r)
      <4>1. req'[r].pc = "start"
        BY <3>1 DEF Begin, Typed, Handlers
      <4> QED BY <4>1 DEF Claiming
    <3>2. CASE SelectReport(r) /\ ~Fail(r)
      <4>1. /\ req'[r].seen = report[req[r].arg.report].owner /\ req'[r].arg = req[r].arg
            /\ UNCHANGED report
        BY <3>2 DEF SelectReport, Typed, Handlers
      <4> QED BY <4>1 DEF Claiming
    <3>3. CASE Fail(r) \/ UpdateReport(r)
      <4>1. Over(r)'
        BY <3>3, EndMoves DEF Fail, UpdateReport, Succeed
      <4> QED BY <4>1 DEF Claiming, Over
    <3>4. CASE ResolveNotify(r) /\ ~Fail(r)
      <4>1. req'[r].pc = "report"
        BY <3>4 DEF ResolveNotify, Typed, Handlers
      <4> QED BY <4>1 DEF Claiming
    <3>5. CASE req[r].kind # "notify"
      BY <2>1, <3>5 DEF Claiming
    <3> QED BY <1>2, <3>1, <3>2, <3>3, <3>4, <3>5
        DEF Acts, Dies, AuthStep, AuthSend, SelectLink, MarkLink, SignIn, Logout, ReportStep,
            ResolveAnalyze, CountClient, CountGlobal, CreateReport, WebhookStep,
            FindUser, Retrieve, SelectRow, CommitRow, Welcome, UpdateRow, At
  <2> QED BY <2>3, <2>4 DEF ClaimInv
<1> QED BY <1>1, <1>2 DEF Next, Acts

\* Only simultaneous claims take a report from its owner: the request that
\* made it somebody's was not over when the one that takes it began, though
\* set_report_notify_email() writes the owner without looking again.
THEOREM OwnerIsKept == Spec => OwnerKept
<1> DEFINE Inv == Typed /\ BeforeOver /\ QuotaInv /\ ClaimInv
<1>1. Init => Inv
  BY InitTyped, InitLink, InitQuota, InitClaim
<1>2. Inv /\ [Next]_vars => Inv'
  BY NextTyped, BeforeStep, QuotaStep, ClaimStep
<1>3. ASSUME Inv, [Next]_vars, NEW p \in Ids, report[p] # None, report[p].owner # None,
             report'[p].owner # report[p].owner
      PROVE  report[p].by \notin before[report'[p].by]
  <2>1. ASSUME NEW r \in Requests, CreateReport(r) PROVE FALSE
    BY <1>3, <2>1, DataTyped DEF CreateReport, At, QuotaInv, Over
  <2>2. PICK r \in Requests : UpdateReport(r)
    BY <1>3, <2>1, ReportWriters
  <2>3. req[r].kind = "notify" /\ req[r].pc = "update" /\ req[r].seen = None
    BY <1>3, <2>2 DEF UpdateReport, At
  <2> DEFINE claimed == req[r].arg.report
  <2>4. claimed \in Ids
    BY <1>3, <2>3, RunningFits DEF Fits, FitsNotify, NotifyForm
  <2>5. report' = [report EXCEPT ![claimed].owner = req[r].user, ![claimed].by = r]
    BY <2>2, <2>3 DEF UpdateReport
  <2> HIDE DEF claimed
  <2>6. p = claimed
    BY <1>3, <2>4, <2>5, DataTyped
  <2>7. report'[p].by = r
    <3>1. report[p] \in ReportRows
      BY <1>3, DataTyped
    <3>2. report'[p] = [report[p] EXCEPT !.owner = req[r].user, !.by = r]
      BY <1>3, <2>4, <2>5, <2>6, DataTyped
    <3> QED BY <3>1, <3>2 DEF ReportRows
  <2> QED BY <1>3, <2>3, <2>6, <2>7 DEF ClaimInv, Claiming, claimed
<1>4. Inv /\ [Next]_vars =>
        [\A p \in Ids :
           (report[p] # None /\ report[p].owner # None
             /\ report'[p].owner # report[p].owner) =>
               report[p].by \notin before[report'[p].by]]_vars
  BY <1>3
<1> HIDE DEF Inv
<1> QED BY <1>1, <1>2, <1>4, PTL DEF Spec, OwnerKept

-----------------------------------------------------------------------------
(* Subscriptions.                                                          *)

\* A row is about a subscription of its user, and one that gives access is
\* what Stripe has reported at some time, unless a flush has torn it.
RowInv ==
  \A m \in Mailboxes :
    row[m] # None => /\ MailOf[row[m].sub] = m
                     /\ (m \notin torn /\ row[m].status \in {"active", "trialing"}) =>
                          Reported(row[m])

LEMMA InitRow == Init => RowInv
BY DEF Init, RowInv

LEMMA RowStep ==
  ASSUME Typed, RowInv, [Next]_vars
  PROVE  RowInv'
<1>1. events \subseteq events'
  BY DEF Next, vars, Tick, StripeChanges, Report, Begin, Dies, AuthStep, AuthSend,
         SelectLink, MarkLink, SignIn, Logout, ReportStep, ResolveAnalyze, CountClient,
         CountGlobal, CreateReport, ResolveNotify, SelectReport, UpdateReport, WebhookStep,
         FindUser, Retrieve, SelectRow, CommitRow, Welcome, UpdateRow
<1>2. CASE UNCHANGED <<row, torn>>
  BY <1>1, <1>2 DEF RowInv, Reported
<1>3. ASSUME NEW r \in Requests, CommitRow(r) PROVE RowInv'
  <2>1. /\ Buyer(r) \in Mailboxes /\ req[r].seen \in Snapshots /\ Reported(req[r].seen)
        /\ req[r].seen.sub = req[r].arg.of.sub
    BY <1>3, EventTyped DEF CommitRow, Fits, FitsWebhook
  <2>2. PICK m \in Mailboxes : m = Buyer(r)
    BY <2>1
  <2>3. MailOf[req[r].seen.sub] = m
    BY <2>1, <2>2 DEF Buyer
  <2>4. torn \subseteq torn'
    BY <1>3, Committed
  <2>5. CASE UNCHANGED row
    BY <1>1, <2>4, <2>5 DEF RowInv, Reported
  <2>6. ASSUME NEW new \in Snapshots, row' = [row EXCEPT ![m] = new],
               \/ new = req[r].seen
               \/ /\ m \in torn' /\ row[m] # None
                  /\ new.sub \in {row[m].sub, req[r].seen.sub}
        PROVE  RowInv'
    <3>1. /\ MailOf[new.sub] = m
          /\ m \in torn' \/ Reported(new)
      BY <2>1, <2>3, <2>6 DEF RowInv
    <3>2. row'[m] = new /\ \A n \in Mailboxes \ {m} : row'[n] = row[n]
      BY <2>6, DataTyped
    <3> QED BY <1>1, <2>4, <3>1, <3>2 DEF RowInv, Reported
  <2> QED BY <1>3, <2>2, <2>5, <2>6, Committed
<1>4. ASSUME NEW r \in Requests, UpdateRow(r) PROVE RowInv'
  <2> DEFINE m == Buyer(r)
             event == req[r].arg
             new == Updated(row[m], event)
  <2>1. m \in Mailboxes /\ event \in events /\ event \in Events /\ event.of \in Snapshots
        /\ event.type \in {"updated", "deleted", "payment_failed"}
    BY <1>4, EventTyped DEF UpdateRow, At, Events
  <2>2. row' = [row EXCEPT ![m] = new]
    BY <1>4 DEF UpdateRow
  <2>3. new # None => /\ MailOf[new.sub] = m
                      /\ (m \notin torn /\ new.status \in {"active", "trialing"}) =>
                           Reported(new)
    <3>1. CASE row[m] = None \/ row[m].sub # event.of.sub
      BY <2>1, <3>1 DEF Updated, RowInv
    <3>2. CASE row[m] # None /\ row[m].sub = event.of.sub
      <4>1. row[m] \in Snapshots /\ MailOf[row[m].sub] = m
        BY <2>1, <3>2, DataTyped DEF RowInv
      <4>2. CASE event.type = "updated"
        BY <2>1, <3>2, <4>1, <4>2 DEF Updated, Reported
      <4>3. CASE event.type = "deleted"
        <5>1. new = [event.of EXCEPT !.status = "canceled"]
          BY <3>2, <4>3 DEF Updated
        <5>2. new.status = "canceled" /\ new.sub = event.of.sub
          BY <2>1, <5>1 DEF Snapshots
        <5> QED BY <3>2, <4>1, <5>2
      <4>4. CASE event.type = "payment_failed"
        <5>1. new = [row[m] EXCEPT !.status = "past_due"]
          BY <3>2, <4>4 DEF Updated
        <5>2. new.status = "past_due" /\ new.sub = row[m].sub
          BY <4>1, <5>1 DEF Snapshots
        <5> QED BY <4>1, <5>2
      <4> QED BY <2>1, <4>2, <4>3, <4>4
    <3> QED BY <3>1, <3>2
  <2> HIDE DEF new
  <2>4. \A n \in Mailboxes : row'[n] = row[n] \/ (n = m /\ row'[n] = new)
    BY <2>1, <2>2, DataTyped
  <2>5. UNCHANGED torn
    BY <1>4 DEF UpdateRow
  <2> QED BY <1>1, <2>3, <2>4, <2>5 DEF RowInv, Reported
<1>5. UNCHANGED <<row, torn>> \/ \E r \in Requests : CommitRow(r) \/ UpdateRow(r)
  BY DEF Next, vars, Tick, StripeChanges, Begin, Dies, AuthStep, AuthSend, SelectLink,
         MarkLink, SignIn, Logout, ReportStep, ResolveAnalyze, CountClient, CountGlobal,
         CreateReport, ResolveNotify, SelectReport, UpdateReport, WebhookStep, FindUser,
         Retrieve, SelectRow, Welcome
<1> QED BY <1>2, <1>3, <1>4, <1>5

\* Late, repeated and reordered webhooks of Stripe give nobody access that
\* Stripe has not granted: whoever is_subscribed() had, in some event, an
\* active subscription of his own until after now.  The rows that a checkout
\* delivered again wrote over a newer row are left out.
THEOREM AccessIsGranted == Spec => []AccessWasGranted
<1>1. Init => Typed /\ RowInv
  BY InitTyped, InitRow
<1>2. Typed /\ RowInv /\ [Next]_vars => (Typed /\ RowInv)'
  BY NextTyped, RowStep
<1>3. RowInv => AccessWasGranted
  BY DEF RowInv, Reported, AccessWasGranted, Subscribed
<1> QED BY <1>1, <1>2, <1>3, PTL DEF Spec
=============================================================================
