---------------------------- MODULE PassesProofs ----------------------------
(***************************************************************************)
(* The safety of passes for every number of sessions, buyers and requests, *)
(* and for every length of a pass.                                         *)
(*                                                                         *)
(* Bounded says how far passes can be stacked: what a request has computed *)
(* from the buyer's passes, however stale, is within the time the granted  *)
(* sessions and one more give.  PastInv says what of a request's past that *)
(* end covers, whatever has happened to the passes since.                  *)
(* MailInv says that at most one request mails for a session, the one      *)
(* whose insert was first; PaidInv that a request and a row have a payment *)
(* behind them.                                                            *)
(***************************************************************************)
EXTENDS Passes, FiniteSetTheorems, TLAPS

Busy == [pc : {"begun", "inserting", "mailing"}, session : Sessions,
         webhook : BOOLEAN, expires : Times, past : Past]

GrantedSessions == {s \in Sessions : Granted(s)}

\* The end of the last of as many passes as there are granted sessions.
Horizon == MaxNow + Hours * Cardinality(GrantedSessions)

Bounded == /\ \A s \in Sessions : rows[s].expires <= Horizon
           /\ \A q \in Requests :
                req[q].pc = "inserting" => req[q].expires <= Horizon + Hours

\* The passes that the buyer had when a request began are still rows of that
\* buyer, and the end it has computed covers them, and its own beginning.
PastInv ==
  \A q \in Requests :
    LET r == req[q] IN
    r # Idle =>
      /\ r.past.began <= now
      /\ \A t \in r.past.before : BuyerOf[t] = BuyerOf[r.session] /\ Granted(t)
      /\ r.pc = "inserting" =>
           /\ r.past.began + Hours <= r.expires
           /\ \A t \in r.past.before :
                rows[t].status = "active" => rows[t].expires + Hours <= r.expires

Mails(q, s) == req[q].pc = "mailing" /\ req[q].session = s

\* A request that mails has a row of its own to mail about.
MailInv ==
  \A s \in Sessions :
    /\ mails[s] <= 1
    /\ mails[s] > 0 => Granted(s)
    /\ \A q \in Requests : Mails(q, s) => Granted(s) /\ mails[s] = 0
    /\ \A p, q \in Requests : (Mails(p, s) /\ Mails(q, s)) => p = q

\* What is due, served or granted was paid.
PaidInv ==
  /\ \A e \in due : payment[e[2]] # "unpaid"
  /\ \A q \in Requests : req[q] # Idle => payment[req[q].session] # "unpaid"
  /\ \A s \in Sessions : Granted(s) => payment[s] # "unpaid"

\* The inductive invariant.
IInv == TypeOK /\ Bounded /\ PastInv /\ MailInv /\ PaidInv

-----------------------------------------------------------------------------
(* Numbers and sets.                                                       *)

\* A set of natural numbers has a least one.
LEMMA LeastNat ==
  ASSUME NEW S \in SUBSET Nat, S # {}
  PROVE  \E x \in S : \A y \in S : x <= y
<1> DEFINE R == OpToRel(<, Nat)
<1>1. R = {p \in Nat \X Nat : p[1] < p[2]}
  BY DEF OpToRel
<1>2. PICK x \in S : \A y \in S : <<y, x>> \notin R
  BY NatLessThanWellFounded, WFMin
<1>3. \A y \in S : ~ (y < x)
  BY <1>1, <1>2
<1>4. \A y \in S : x <= y
  BY <1>3
<1> QED BY <1>4

\* What FiniteSetsExt's Max is of a bounded set.
LEMMA MaxOfBounded ==
  ASSUME NEW S \in SUBSET Nat, S # {}, NEW n \in Nat, \A x \in S : x <= n
  PROVE  Max(S) \in S /\ \A x \in S : x <= Max(S)
<1> DEFINE D == {n - x : x \in S}
<1>1. D \in SUBSET Nat /\ D # {}
  <2>1. \A x \in S : n - x \in Nat
    OBVIOUS
  <2> QED BY <2>1
<1>2. PICK d \in D : \A e \in D : d <= e
  BY <1>1, LeastNat
<1>3. PICK m \in S : d = n - m
  BY <1>2
<1>4. \A x \in S : m >= x
  BY <1>2, <1>3
<1>5. Max(S) \in S /\ \A x \in S : Max(S) >= x
  BY <1>4 DEF Max
<1> QED BY <1>5

\* A pass more, and the last one ends that much later.
LEMMA HoursOfMore ==
  ASSUME NEW m \in Nat, NEW n \in Nat, m <= n
  PROVE  /\ Hours * m \in Nat
         /\ Hours * (m + 1) = Hours * m + Hours
         /\ Hours * m <= Hours * n
BY PassesAssumption

Limit == MaxNow + Hours * Cardinality(Sessions)

\* The bounds on times are numbers, one below the other.
LEMMA HorizonType ==
  /\ IsFiniteSet(GrantedSessions)
  /\ Cardinality(GrantedSessions) \in Nat
  /\ Horizon \in Nat /\ Limit \in Nat
  /\ MaxNow <= Horizon /\ Horizon <= Limit
<1>1. /\ IsFiniteSet(GrantedSessions)
      /\ Cardinality(GrantedSessions) \in Nat
      /\ Cardinality(Sessions) \in Nat
      /\ Cardinality(GrantedSessions) <= Cardinality(Sessions)
  <2>1. GrantedSessions \in SUBSET Sessions
    BY DEF GrantedSessions
  <2> QED BY <2>1, PassesAssumption, FS_Subset, FS_CardinalityType
<1>2. /\ Hours * Cardinality(GrantedSessions) \in Nat
      /\ Hours * Cardinality(Sessions) \in Nat
      /\ Hours * Cardinality(GrantedSessions) <= Hours * Cardinality(Sessions)
  BY <1>1, HoursOfMore
<1> QED BY <1>1, <1>2, PassesAssumption DEF Horizon, Limit

\* What a request at work has read.
LEMMA BusyRequest ==
  ASSUME TypeOK, NEW q \in Requests,
         req[q] # Idle \/ req[q].pc \in {"begun", "inserting", "mailing"}
  PROVE  /\ req[q] \in Busy /\ req[q] # Idle
         /\ req[q].session \in Sessions /\ req[q].pc # "idle"
         /\ req[q].expires \in Nat /\ req[q].expires <= Limit
         /\ req[q].past \in Past
         /\ req[q].past.began \in Nat /\ req[q].past.before \in SUBSET Sessions
<1>1. req[q] \in {Idle} \cup Busy
  BY DEF TypeOK, Request, Busy
<1>2. req[q] # Idle
  BY DEF Idle
<1>3. req[q] \in Busy
  BY <1>1, <1>2
<1>4. /\ req[q].session \in Sessions /\ req[q].expires \in 0 .. Limit
      /\ req[q].pc # "idle" /\ req[q].past \in Past
  BY <1>3 DEF Busy, Times, Limit
<1>5. req[q].past.began \in 0 .. MaxNow /\ req[q].past.before \in SUBSET Sessions
  BY <1>4 DEF Past
<1> QED BY <1>2, <1>3, <1>4, <1>5, HorizonType, PassesAssumption

\* The fields of a row.
LEMMA RowType ==
  ASSUME TypeOK, NEW s \in Sessions
  PROVE  /\ rows[s] \in Row /\ rows[s].expires \in Nat /\ rows[s].expires <= Limit
         /\ rows[s].status \in {"none", "active", "refunded"}
<1>1. rows[s] \in Row
  BY DEF TypeOK
<1>2. rows[s].expires \in 0 .. Limit /\ rows[s].status \in {"none", "active", "refunded"}
  BY <1>1 DEF Row, Times, Limit
<1> QED BY <1>1, <1>2, HorizonType

\* What a request reads of the buyer's passes ends within the horizon.
LEMMA PassUntilBound ==
  ASSUME TypeOK, Bounded, NEW b
  PROVE  PassUntil(b) \in Nat /\ PassUntil(b) <= Horizon
<1> DEFINE Ends == {0} \cup {rows[s].expires : s \in ActiveOf(b)}
<1>1. \A x \in Ends : x \in Nat /\ x <= Horizon
  BY RowType, HorizonType DEF Bounded, ActiveOf
<1>2. Max(Ends) \in Ends
  BY <1>1, MaxOfBounded, HorizonType
<1>3. PassUntil(b) = Max(Ends)
  BY DEF PassUntil
<1> QED BY <1>1, <1>2, <1>3

\* PassUntil is not before the end of any pass of the buyer that still runs.
LEMMA PassUntilCovers ==
  ASSUME TypeOK, Bounded, NEW t \in Sessions, rows[t].status = "active"
  PROVE  rows[t].expires <= PassUntil(BuyerOf[t]) \/ rows[t].expires <= now
<1> DEFINE Ends == {0} \cup {rows[s].expires : s \in ActiveOf(BuyerOf[t])}
<1>1. \A x \in Ends : x \in Nat /\ x <= Horizon
  BY RowType, HorizonType DEF Bounded, ActiveOf
<1>2. \A x \in Ends : x <= Max(Ends)
  BY <1>1, MaxOfBounded, HorizonType
<1>3. PassUntil(BuyerOf[t]) = Max(Ends)
  BY DEF PassUntil
<1>4. now \in Nat /\ rows[t].expires \in Nat
  BY RowType, PassesAssumption DEF TypeOK
<1>5. CASE rows[t].expires > now
  BY <1>2, <1>3, <1>5 DEF ActiveOf
<1> QED BY <1>4, <1>5

-----------------------------------------------------------------------------
(* The steps.                                                              *)

\* The invariant holds at first.
LEMMA InitInv == Init => IInv
<1> SUFFICES ASSUME Init PROVE IInv
  OBVIOUS
<1>1. \A q \in Requests : req[q] = Idle /\ Idle.pc = "idle"
  BY DEF Init, Idle
<1>2. TypeOK
  <2>1. 0 \in 0 .. Limit /\ 0 \in 0 .. MaxNow
    BY HorizonType, PassesAssumption
  <2>2. [status |-> "none", expires |-> 0] \in Row
    BY <2>1 DEF Row, Times, Limit
  <2> QED BY <2>1, <2>2, PassesAssumption DEF Init, TypeOK, Request
<1>3. Bounded
  BY <1>1, HorizonType DEF Init, Bounded
<1>4. PastInv /\ MailInv /\ PaidInv
  BY <1>1 DEF Init, PastInv, MailInv, Mails, PaidInv, Granted
<1> QED BY <1>2, <1>3, <1>4 DEF IInv

\* A step that grants nothing and begins nothing.
LEMMA BoundedKept ==
  ASSUME TypeOK, Bounded, GrantedSessions' = GrantedSessions,
         \A s \in Sessions : rows'[s].expires <= Horizon,
         \A q \in Requests : req'[q].pc = "inserting" => req'[q].expires <= Horizon + Hours
  PROVE  Bounded'
<1>1. Horizon' = Horizon
  BY DEF Horizon
<1> QED BY <1>1 DEF Bounded

\* A step that takes no request on and lengthens no pass.
LEMMA PastKept ==
  ASSUME IInv, now \in Nat, now' \in Nat, now <= now',
         \A q \in Requests : req'[q] = req[q] \/ req'[q] = Idle,
         \A s \in Sessions : Granted(s) =>
           Granted(s)' /\ (rows'[s] = rows[s] \/ rows'[s].status # "active")
  PROVE  PastInv'
<1> SUFFICES ASSUME NEW q \in Requests, req'[q] # Idle
             PROVE  LET r == req'[q] IN
                    /\ r.past.began <= now'
                    /\ \A t \in r.past.before : BuyerOf[t] = BuyerOf[r.session] /\ Granted(t)'
                    /\ r.pc = "inserting" =>
                         /\ r.past.began + Hours <= r.expires
                         /\ \A t \in r.past.before :
                              rows'[t].status = "active" => rows'[t].expires + Hours <= r.expires
  BY DEF PastInv
<1> DEFINE r == req[q]
<1>1. req'[q] = r /\ r # Idle
  OBVIOUS
<1>2. r.past.began \in Nat /\ r.past.before \in SUBSET Sessions
  BY <1>1, BusyRequest DEF IInv
<1>3. /\ r.past.began <= now
      /\ \A t \in r.past.before : BuyerOf[t] = BuyerOf[r.session] /\ Granted(t)
      /\ r.pc = "inserting" =>
           /\ r.past.began + Hours <= r.expires
           /\ \A t \in r.past.before :
                rows[t].status = "active" => rows[t].expires + Hours <= r.expires
  BY <1>1 DEF IInv, PastInv
<1> HIDE DEF r
<1>4. r.past.began <= now'
  BY <1>2, <1>3
<1>5. \A t \in r.past.before :
        /\ Granted(t)'
        /\ rows'[t].status = "active" => rows'[t] = rows[t]
  BY <1>2, <1>3
<1> QED BY <1>1, <1>3, <1>4, <1>5

\* The action keeps the invariant.
LEMMA TickInv == ASSUME IInv, Tick PROVE IInv'
<1>1. UNCHANGED <<payment, nameless, due, rows, req, mails, failures, pages>>
  BY DEF Tick
<1>2. TypeOK'
  BY <1>1, PassesAssumption DEF IInv, Tick, TypeOK
<1>3. GrantedSessions' = GrantedSessions
  BY <1>1 DEF GrantedSessions, Granted
<1>4. Bounded'
  BY <1>1, <1>3, BoundedKept DEF IInv, Bounded
<1>5. MailInv' /\ PaidInv'
  BY <1>1 DEF IInv, MailInv, Mails, PaidInv, Granted
<1>6. PastInv'
  BY <1>1, PastKept, PassesAssumption DEF IInv, TypeOK, Tick, Granted
<1> QED BY <1>2, <1>4, <1>5, <1>6 DEF IInv

\* A payment or a refund at Stripe.
LEMMA StripeInv ==
  ASSUME IInv, NEW s \in Sessions, Pay(s) \/ Refund(s)
  PROVE  IInv'
<1>1. TypeOK /\ UNCHANGED <<now, rows, req, mails, failures, pages>>
  BY DEF IInv, Pay, Refund
<1>2. PICK state \in {"paid", "refunded"} :
         /\ payment' = [payment EXCEPT ![s] = state]
         /\ due' = due \cup {<<state, s>>}
         /\ nameless' \in {nameless, nameless \cup {s}}
  BY DEF Pay, Refund
<1>3. TypeOK'
  BY <1>1, <1>2 DEF TypeOK, Event
<1>4. GrantedSessions' = GrantedSessions
  BY <1>1 DEF GrantedSessions, Granted
<1>5. Bounded'
  BY <1>1, <1>4, BoundedKept DEF IInv, Bounded
<1>6. MailInv'
  BY <1>1 DEF IInv, MailInv, Mails, Granted
<1>7. PaidInv'
  <2>1. \A t \in Sessions : payment[t] # "unpaid" => payment'[t] # "unpaid"
    BY <1>1, <1>2 DEF TypeOK
  <2>2. payment'[s] # "unpaid"
    BY <1>1, <1>2 DEF TypeOK
  <2>3. \A e \in due' : payment'[e[2]] # "unpaid"
    <3>1. \A e \in due : e[2] \in Sessions
      BY <1>1 DEF TypeOK, Event
    <3>2. \A e \in due' : e \in due \/ e[2] = s
      BY <1>2
    <3> QED BY <2>1, <2>2, <3>1, <3>2 DEF IInv, PaidInv
  <2>4. \A q \in Requests : req[q] # Idle => req[q].session \in Sessions
    BY <1>1, BusyRequest
  <2> QED BY <1>1, <2>1, <2>3, <2>4 DEF IInv, PaidInv, Granted
<1>8. PastInv'
  BY <1>1, PastKept, PassesAssumption DEF IInv, TypeOK, Granted
<1> QED BY <1>3, <1>5, <1>6, <1>7, <1>8 DEF IInv

\* A request starts with the passes that its buyer has.
LEMMA PastOfType ==
  ASSUME TypeOK, NEW s \in Sessions
  PROVE  /\ PastOf(s) \in Past
         /\ PastOf(s).began <= now
         /\ \A t \in PastOf(s).before : BuyerOf[t] = BuyerOf[s] /\ Granted(t)
<1>1. now \in 0 .. MaxNow /\ 0 \in 0 .. MaxNow /\ 0 <= now
  BY PassesAssumption DEF TypeOK
<1>2. CASE Granted(s)
  BY <1>1, <1>2 DEF PastOf, NoPast, Past
<1>3. CASE ~ Granted(s)
  <2>1. /\ ActiveOf(BuyerOf[s]) \in SUBSET Sessions
        /\ \A t \in ActiveOf(BuyerOf[s]) : BuyerOf[t] = BuyerOf[s] /\ Granted(t)
    BY DEF ActiveOf, Granted
  <2> QED BY <1>1, <1>3, <2>1 DEF PastOf, Past
<1> QED BY <1>2, <1>3

\* The action keeps the invariant.
LEMMA BeginInv ==
  ASSUME IInv, NEW q \in Requests, NEW s \in Sessions,
         DeliverPaid(q, s) \/ OpenPage(q, s)
  PROVE  IInv'
<1>1. /\ TypeOK /\ UNCHANGED <<now, payment, nameless, due, rows, mails, failures>>
      /\ payment[s] # "unpaid"
  BY DEF IInv, PaidInv, DeliverPaid, OpenPage, Begin
<1>2. PICK webhook \in BOOLEAN :
         req' = [req EXCEPT ![q] = [pc |-> "begun", session |-> s,
                                    webhook |-> webhook, expires |-> 0,
                                    past |-> PastOf(s)]]
  BY DEF DeliverPaid, OpenPage, Begin
<1>3. /\ req'[q] \in Busy /\ req'[q].pc = "begun"
      /\ req'[q].session = s /\ req'[q].past = PastOf(s)
      /\ \A p \in Requests \ {q} : req'[p] = req[p]
  <2>1. 0 \in 0 .. Limit
    BY HorizonType
  <2> QED BY <1>1, <1>2, <2>1, PastOfType DEF TypeOK, Busy, Times, Limit
<1>4. TypeOK'
  <2>1. req' \in [Requests -> Request]
    BY <1>1, <1>2, <1>3 DEF TypeOK, Request, Busy
  <2>2. pages' \in 0 .. MaxPages
    <3>1. pages' = pages \/ (pages < MaxPages /\ pages' = pages + 1)
      BY DEF DeliverPaid, OpenPage
    <3> QED BY <1>1, <3>1, PassesAssumption DEF TypeOK
  <2> QED BY <1>1, <2>1, <2>2 DEF TypeOK
<1>5. GrantedSessions' = GrantedSessions
  BY <1>1 DEF GrantedSessions, Granted
<1>6. Bounded'
  <2>1. \A p \in Requests : req'[p].pc = "inserting" => req'[p].expires <= Horizon + Hours
    BY <1>3 DEF IInv, Bounded
  <2> QED BY <1>1, <1>5, <2>1, BoundedKept DEF IInv, Bounded
<1>7. MailInv'
  BY <1>1, <1>3 DEF IInv, MailInv, Mails, Granted
<1>8. PaidInv'
  BY <1>1, <1>3 DEF IInv, PaidInv, Granted
<1>9. PastInv'
  BY <1>1, <1>3, PastOfType DEF IInv, PastInv, Granted
<1> QED BY <1>4, <1>6, <1>7, <1>8, <1>9 DEF IInv

\* A request that ends, or fails, without a new row.
LEMMA QuietEnd ==
  ASSUME IInv, NEW q \in Requests,
         UNCHANGED <<now, payment, nameless, rows, mails, pages>>, failures' \in 0 .. MaxFailures,
         req' = [req EXCEPT ![q] = Idle], due' \subseteq due
  PROVE  IInv'
<1>1. TypeOK
  BY DEF IInv
<1>2. req'[q] = Idle /\ Idle.pc = "idle" /\ \A p \in Requests \ {q} : req'[p] = req[p]
  BY <1>1 DEF TypeOK, Idle
<1>3. TypeOK'
  BY <1>1 DEF TypeOK, Request
<1>4. GrantedSessions' = GrantedSessions
  BY DEF GrantedSessions, Granted
<1>5. Bounded'
  BY <1>1, <1>2, <1>4, BoundedKept DEF IInv, Bounded
<1>6. MailInv'
  BY <1>2 DEF IInv, MailInv, Mails, Granted
<1>7. PaidInv'
  BY <1>2 DEF IInv, PaidInv, Granted
<1>8. PastInv'
  BY <1>1, <1>2, PastKept, PassesAssumption DEF TypeOK, Granted
<1> QED BY <1>3, <1>5, <1>6, <1>7, <1>8 DEF IInv

\* A request that ends takes at most its event along.
LEMMA EndIsQuiet ==
  ASSUME NEW q, End(q)
  PROVE  req' = [req EXCEPT ![q] = Idle] /\ due' \subseteq due
BY DEF End

\* The action keeps the invariant.
LEMMA FailInv == ASSUME IInv, NEW q \in Requests, Fail(q) PROVE IInv'
<1>1. failures' \in 0 .. MaxFailures
  BY PassesAssumption DEF IInv, TypeOK, Fail
<1> QED BY <1>1, QuietEnd DEF Fail

\* The action keeps the invariant.
LEMMA CannotGrantInv == ASSUME IInv, NEW q \in Requests, CannotGrant(q) PROVE IInv'
<1>1. failures \in 0 .. MaxFailures
  BY DEF IInv, TypeOK
<1> QED BY <1>1, EndIsQuiet, QuietEnd DEF CannotGrant

\* There is time for the pass of a session that has none.
LEMMA OneMoreFits ==
  ASSUME NEW s \in Sessions, ~ Granted(s)
  PROVE  Horizon + Hours <= Limit
<1> DEFINE n == Cardinality(GrantedSessions)
<1>1. n \in Nat /\ Cardinality(Sessions) \in Nat /\ n + 1 <= Cardinality(Sessions)
  <2>1. GrantedSessions \cup {s} \in SUBSET Sessions /\ s \notin GrantedSessions
    BY DEF GrantedSessions
  <2> QED BY <2>1, HorizonType, FS_AddElement, FS_Subset, FS_CardinalityType,
             PassesAssumption
<1>2. Hours * (n + 1) <= Hours * Cardinality(Sessions)
  BY <1>1, HoursOfMore
<1> QED BY <1>1, <1>2, HoursOfMore, PassesAssumption DEF Horizon, Limit

\* compute_expiry(): the pass gives its hours from now on, and from the end of
\* what was read.
LEMMA ExpiryBounds ==
  ASSUME NEW latest \in Nat, now \in 0 .. MaxNow, NEW h \in Nat, MaxNow <= h, latest <= h
  PROVE  /\ ComputeExpiry(latest) \in Nat
         /\ ComputeExpiry(latest) >= now + Hours
         /\ ComputeExpiry(latest) >= latest + Hours
         /\ ComputeExpiry(latest) <= h + Hours
BY PassesAssumption DEF ComputeExpiry

\* The action keeps the invariant.
LEMMA LookUpInv == ASSUME IInv, NEW q \in Requests, LookUp(q) PROVE IInv'
<1> DEFINE s == req[q].session
<1>1. TypeOK /\ failures \in 0 .. MaxFailures
  BY DEF IInv, TypeOK
<1>2. req[q] \in Busy /\ req[q] # Idle /\ s \in Sessions /\ req[q].pc = "begun"
  BY <1>1, BusyRequest DEF LookUp
<1>3. UNCHANGED <<now, payment, nameless, rows, mails, failures, pages>>
  BY DEF LookUp
<1>4. CASE Granted(s)
  BY <1>1, <1>3, <1>4, EndIsQuiet, QuietEnd DEF LookUp
<1>5. CASE ~ Granted(s)
  <2> DEFINE latest == PassUntil(BuyerOf[s])
             end == ComputeExpiry(latest)
  <2>1. due' = due /\ req' = [req EXCEPT ![q].pc = "inserting", ![q].expires = end]
    BY <1>5 DEF LookUp
  <2>2. /\ latest \in Nat /\ latest <= Horizon /\ now \in 0 .. MaxNow
        /\ end \in Nat /\ end >= now + Hours /\ end >= latest + Hours
        /\ end <= Horizon + Hours
    <3>1. latest \in Nat /\ latest <= Horizon /\ now \in 0 .. MaxNow
      BY <1>1, PassUntilBound DEF IInv, TypeOK
    <3> HIDE DEF latest
    <3> QED BY <3>1, HorizonType, ExpiryBounds
  <2>3. Horizon + Hours <= Limit /\ end \in 0 .. Limit
    <3>1. Horizon + Hours <= Limit
      BY <1>2, <1>5, OneMoreFits
    <3> HIDE DEF end
    <3> QED BY <2>2, <3>1, HorizonType, PassesAssumption
  <2>4. \A t \in Sessions :
          (rows[t].status = "active" /\ BuyerOf[t] = BuyerOf[s])
             => rows[t].expires + Hours <= end
    <3>1. \A t \in Sessions : rows[t].expires \in Nat
      BY <1>1, RowType
    <3>2. \A t \in Sessions :
            (rows[t].status = "active" /\ BuyerOf[t] = BuyerOf[s])
               => rows[t].expires <= latest \/ rows[t].expires <= now
      BY <1>1, PassUntilCovers DEF IInv
    <3> HIDE DEF latest, end
    <3> QED BY <2>2, <3>1, <3>2, PassesAssumption
  <2>5. /\ req'[q] \in Busy /\ req'[q].pc = "inserting"
        /\ req'[q].session = s /\ req'[q].expires = end /\ req'[q].past = req[q].past
        /\ \A p \in Requests \ {q} : req'[p] = req[p]
    <3>1. req'[q] = [req[q] EXCEPT !.pc = "inserting", !.expires = end]
      BY <1>1, <2>1 DEF TypeOK
    <3>2. \A p \in Requests \ {q} : req'[p] = req[p]
      BY <1>1, <2>1 DEF TypeOK
    <3> HIDE DEF end
    <3> QED BY <1>2, <2>3, <3>1, <3>2 DEF Busy, Times, Limit
  <2> HIDE DEF end, latest
  <2>6. TypeOK'
    <3>1. req' \in [Requests -> Request]
      BY <1>1, <2>1, <2>5 DEF TypeOK, Request, Busy
    <3> QED BY <1>1, <1>3, <2>1, <3>1 DEF TypeOK
  <2>7. GrantedSessions' = GrantedSessions
    BY <1>3 DEF GrantedSessions, Granted
  <2>8. Bounded'
    BY <1>1, <1>3, <2>2, <2>5, <2>7, BoundedKept DEF IInv, Bounded
  <2>9. MailInv'
    BY <1>3, <2>5 DEF IInv, MailInv, Mails, Granted
  <2>10. PaidInv'
    BY <1>2, <1>3, <2>1, <2>5 DEF IInv, PaidInv, Granted
  <2>11. PastInv'
    <3>1. /\ req[q].past.began \in Nat /\ req[q].past.before \in SUBSET Sessions
          /\ req[q].past.began <= now
          /\ \A t \in req[q].past.before : BuyerOf[t] = BuyerOf[s] /\ Granted(t)
      BY <1>1, <1>2, BusyRequest DEF IInv, PastInv
    <3>2. req[q].past.began + Hours <= end
      BY <2>2, <3>1, PassesAssumption
    <3>3. \A t \in req[q].past.before :
            rows[t].status = "active" => rows[t].expires + Hours <= end
      BY <2>4, <3>1
    <3> QED BY <1>3, <2>5, <3>1, <3>2, <3>3 DEF IInv, PastInv, Granted
  <2> QED BY <2>6, <2>8, <2>9, <2>10, <2>11 DEF IInv
<1> QED BY <1>4, <1>5

\* What the commit of a new row does.
Inserts(q, s) == /\ req[q].pc = "inserting" /\ req[q].session = s /\ ~ Granted(s)
                 /\ rows' = [rows EXCEPT ![s] =
                      [status |-> "active", expires |-> req[q].expires]]
                 /\ req' = [req EXCEPT ![q] = Mailing(@)]
                 /\ UNCHANGED <<now, payment, nameless, due, mails, failures, pages>>

\* A new pass ends within the horizon of one more granted session.
LEMMA InsertsBounded ==
  ASSUME IInv, NEW q \in Requests, NEW s \in Sessions, Inserts(q, s)
  PROVE  /\ Horizon' = Horizon + Hours
         /\ Horizon' <= Limit
         /\ req[q].expires \in Nat
         /\ req[q].expires <= Horizon'
<1>1. TypeOK
  BY DEF IInv
<1>2. GrantedSessions' = GrantedSessions \cup {s} /\ s \notin GrantedSessions
  BY <1>1 DEF Inserts, GrantedSessions, Granted, TypeOK
<1>3. Cardinality(GrantedSessions') = Cardinality(GrantedSessions) + 1
  BY <1>2, HorizonType, FS_AddElement
<1>4. Horizon' = Horizon + Hours
  BY <1>3, HorizonType, HoursOfMore, PassesAssumption DEF Horizon
<1>5. Horizon' <= Limit
  BY <1>4, OneMoreFits DEF Inserts
<1>6. req[q].expires \in Nat /\ req[q].expires <= Horizon + Hours
  BY <1>1, BusyRequest DEF Inserts, IInv, Bounded
<1> QED BY <1>4, <1>5, <1>6

\* The action keeps the invariant.
LEMMA InsertsInv ==
  ASSUME IInv, NEW q \in Requests, NEW s \in Sessions, Inserts(q, s)
  PROVE  IInv'
<1> DEFINE row == [status |-> "active", expires |-> req[q].expires]
<1>1. TypeOK /\ UNCHANGED <<now, payment, nameless, due, mails, failures, pages>>
  BY DEF IInv, Inserts
<1>2. /\ Horizon' = Horizon + Hours /\ Horizon' <= Limit
      /\ row.status = "active" /\ row.expires \in Nat /\ row.expires <= Horizon'
  BY InsertsBounded
<1>3. /\ rows' = [rows EXCEPT ![s] = row]
      /\ rows'[s] = row /\ \A t \in Sessions \ {s} : rows'[t] = rows[t]
  BY <1>1 DEF TypeOK, Inserts
<1>4. req[q] \in Busy /\ req[q].session = s /\ req[q] # Idle
  BY <1>1, BusyRequest DEF Inserts
<1>5. /\ req'[q] \in Busy /\ req'[q].pc = "mailing"
      /\ req'[q].session = s /\ req'[q].past = NoPast
      /\ \A p \in Requests \ {q} : req'[p] = req[p]
  <2>1. req'[q] = Mailing(req[q]) /\ \A p \in Requests \ {q} : req'[p] = req[p]
    BY <1>1 DEF TypeOK, Inserts
  <2>2. 0 \in Times /\ NoPast \in Past
    BY HorizonType, PassesAssumption DEF Times, Limit, NoPast, Past
  <2> QED BY <1>4, <2>1, <2>2 DEF Busy, Mailing
<1>6. TypeOK'
  <2>1. row.expires \in 0 .. Limit
    BY <1>2, HorizonType, PassesAssumption
  <2>2. row \in Row
    BY <2>1 DEF Row, Times, Limit
  <2>3. rows' \in [Sessions -> Row]
    BY <1>1, <1>3, <2>2 DEF TypeOK
  <2>4. req' \in [Requests -> Request]
    BY <1>1, <1>5 DEF TypeOK, Request, Busy, Inserts
  <2> QED BY <1>1, <2>3, <2>4 DEF TypeOK
<1> HIDE DEF row
<1>7. Bounded'
  <2>1. Horizon <= Horizon'
    BY <1>2, HorizonType, PassesAssumption
  <2>2. \A t \in Sessions : rows'[t].expires <= Horizon'
    BY <1>1, <1>2, <1>3, <2>1, RowType, HorizonType, PassesAssumption DEF IInv, Bounded
  <2>3. \A p \in Requests : req'[p].pc = "inserting" => req'[p].expires <= Horizon' + Hours
    BY <1>1, <1>2, <1>5, <2>1, BusyRequest, HorizonType, PassesAssumption DEF IInv, Bounded
  <2> QED BY <2>2, <2>3 DEF Bounded
<1>8. MailInv'
  <2>1. /\ \A t \in Sessions : Granted(t) => Granted(t)'
        /\ Granted(s)' /\ ~ Granted(s)
    BY <1>2, <1>3 DEF Granted, Inserts
  <2>2. mails[s] = 0 /\ \A p \in Requests : ~ Mails(p, s)
    BY <1>1, <2>1 DEF IInv, TypeOK, MailInv
  <2>3. /\ \A p \in Requests, t \in Sessions \ {s} : Mails(p, t)' <=> Mails(p, t)
        /\ \A p \in Requests : Mails(p, s)' <=> p = q
    BY <1>4, <1>5, <2>2 DEF Mails, Inserts
  <2> QED BY <1>1, <2>1, <2>2, <2>3 DEF IInv, MailInv
<1>9. PaidInv'
  <2>1. payment[s] # "unpaid"
    BY <1>1, <1>4, BusyRequest DEF IInv, PaidInv, Inserts
  <2>2. \A p \in Requests : req'[p] # Idle => payment[req'[p].session] # "unpaid"
    BY <1>5, <2>1 DEF IInv, PaidInv
  <2>3. \A t \in Sessions : Granted(t)' => payment[t] # "unpaid"
    BY <1>3, <2>1 DEF IInv, PaidInv, Granted
  <2> QED BY <1>1, <2>2, <2>3 DEF IInv, PaidInv
<1>10. PastInv'
  <2>1. ~ Granted(s) /\ \A t \in Sessions : Granted(t) => Granted(t)' /\ t # s
    BY <1>2, <1>3 DEF Granted, Inserts
  <2>2. NoPast.began <= now' /\ NoPast.before = {}
    BY <1>1, PassesAssumption DEF NoPast, TypeOK
  <2>3. ASSUME NEW p \in Requests \ {q}, req[p] # Idle
        PROVE  \A t \in req[p].past.before :
                 /\ BuyerOf[t] = BuyerOf[req[p].session] /\ Granted(t)'
                 /\ rows'[t] = rows[t]
    BY <1>1, <1>3, <2>1, <2>3, BusyRequest DEF IInv, PastInv
  <2> QED BY <1>1, <1>5, <2>2, <2>3 DEF IInv, PastInv
<1> QED BY <1>6, <1>7, <1>8, <1>9, <1>10 DEF IInv

\* The action keeps the invariant.
LEMMA InsertInv == ASSUME IInv, NEW q \in Requests, Insert(q) PROVE IInv'
<1>1. TypeOK /\ failures \in 0 .. MaxFailures
  BY DEF IInv, TypeOK
<1>2. req[q].session \in Sessions
  BY <1>1, BusyRequest DEF Insert
<1>3. CASE Granted(req[q].session)
  BY <1>1, <1>3, EndIsQuiet, QuietEnd DEF Insert
<1>4. CASE ~ Granted(req[q].session)
  BY <1>2, <1>4, InsertsInv DEF Insert, Inserts
<1> QED BY <1>3, <1>4

\* The action keeps the invariant.
LEMMA SendMailInv == ASSUME IInv, NEW q \in Requests, SendMail(q) PROVE IInv'
<1> DEFINE s == req[q].session
<1>1. /\ TypeOK /\ UNCHANGED <<now, payment, nameless, rows, failures, pages>>
      /\ req' = [req EXCEPT ![q] = Idle] /\ due' \subseteq due
  BY EndIsQuiet DEF IInv, SendMail
<1>2. PICK sent \in 0 .. 1 : mails' = [mails EXCEPT ![s] = @ + sent]
  BY DEF SendMail
<1>3. s \in Sessions /\ Mails(q, s) /\ mails[s] \in Nat
  BY <1>1, BusyRequest DEF SendMail, Mails, TypeOK
<1>4. Granted(s) /\ mails[s] = 0 /\ \A p \in Requests \ {q} : ~ Mails(p, s)
  BY <1>3 DEF IInv, MailInv
<1>5. mails'[s] = sent /\ \A t \in Sessions \ {s} : mails'[t] = mails[t]
  BY <1>1, <1>2, <1>3, <1>4 DEF TypeOK
<1>6. req'[q] = Idle /\ Idle.pc = "idle" /\ \A p \in Requests \ {q} : req'[p] = req[p]
  BY <1>1 DEF TypeOK, Idle
<1>7. TypeOK'
  <2>1. mails[s] + sent \in Nat
    BY <1>3
  <2>2. mails' \in [Sessions -> Nat]
    BY <1>1, <1>2, <2>1 DEF TypeOK
  <2> QED BY <1>1, <2>2 DEF TypeOK, Request
<1>8. Bounded'
  <2>1. GrantedSessions' = GrantedSessions
    BY <1>1 DEF GrantedSessions, Granted
  <2> QED BY <1>1, <1>6, <2>1, BoundedKept DEF IInv, Bounded
<1>9. MailInv'
  <2>1. \A p \in Requests, t \in Sessions : Mails(p, t)' => Mails(p, t) /\ t # s
    BY <1>4, <1>6 DEF Mails
  <2>2. \A t \in Sessions : Granted(t)' <=> Granted(t)
    BY <1>1 DEF Granted
  <2>3. ASSUME NEW t \in Sessions
        PROVE  mails'[t] <= 1 /\ (mails'[t] > 0 => Granted(t))
    BY <1>2, <1>4, <1>5 DEF IInv, MailInv
  <2> QED BY <1>5, <2>1, <2>2, <2>3 DEF IInv, MailInv
<1>10. PaidInv'
  BY <1>1, <1>6 DEF IInv, PaidInv, Granted
<1>11. PastInv'
  BY <1>1, <1>6, PastKept, PassesAssumption DEF TypeOK, Granted
<1> QED BY <1>7, <1>8, <1>9, <1>10, <1>11 DEF IInv

\* The action keeps the invariant.
LEMMA DeliverRefundInv ==
  ASSUME IInv, NEW s \in Sessions, DeliverRefund(s)
  PROVE  IInv'
<1>1. /\ TypeOK /\ UNCHANGED <<now, payment, nameless, req, mails, pages>>
      /\ due' \subseteq due /\ failures' \in 0 .. MaxFailures
  BY PassesAssumption DEF IInv, TypeOK, DeliverRefund
<1>2. now \in Nat /\ now <= MaxNow /\ now \in 0 .. Limit
  BY <1>1, HorizonType, PassesAssumption DEF TypeOK
<1>3. ASSUME NEW t \in Sessions
      PROVE  \/ rows'[t] = rows[t]
             \/ /\ rows[t].status = "active"
                /\ rows'[t] = [status |-> "refunded", expires |-> now]
  BY <1>1 DEF TypeOK, DeliverRefund
<1>4. TypeOK'
  <2>1. [status |-> "refunded", expires |-> now] \in Row
    BY <1>2 DEF Row, Times, Limit
  <2>2. rows' \in [Sessions -> Row]
    BY <1>1, <2>1 DEF TypeOK, DeliverRefund
  <2> QED BY <1>1, <2>2 DEF TypeOK
<1>5. \A t \in Sessions : Granted(t)' <=> Granted(t)
  BY <1>3 DEF Granted
<1>6. Bounded'
  <2>1. GrantedSessions' = GrantedSessions
    BY <1>5 DEF GrantedSessions
  <2>2. \A t \in Sessions : rows'[t].expires <= Horizon
    BY <1>2, <1>3, HorizonType, PassesAssumption DEF IInv, Bounded
  <2> QED BY <1>1, <2>1, <2>2, BoundedKept DEF IInv, Bounded
<1>7. MailInv'
  BY <1>1, <1>5 DEF IInv, MailInv, Mails
<1>8. PaidInv'
  BY <1>1, <1>5 DEF IInv, PaidInv
<1>9. PastInv'
  BY <1>1, <1>2, <1>3, <1>5, PastKept
<1> QED BY <1>4, <1>6, <1>7, <1>8, <1>9 DEF IInv

\* Every step keeps the invariant.
LEMMA NextInv == IInv /\ [Next]_vars => IInv'
<1> SUFFICES ASSUME IInv, [Next]_vars PROVE IInv'
  OBVIOUS
<1>1. ASSUME NEW s \in Sessions, Pay(s) \/ Refund(s) \/ DeliverRefund(s) PROVE IInv'
  BY <1>1, StripeInv, DeliverRefundInv
<1>2. ASSUME NEW q \in Requests, NEW s \in Sessions, DeliverPaid(q, s) \/ OpenPage(q, s)
      PROVE  IInv'
  BY <1>2, BeginInv
<1>3. ASSUME NEW q \in Requests, Handle(q) \/ Fail(q) PROVE IInv'
  BY <1>3, CannotGrantInv, LookUpInv, InsertInv, SendMailInv, FailInv DEF Handle
<1>4. CASE UNCHANGED vars
  <2>1. TypeOK' /\ GrantedSessions' = GrantedSessions
    BY <1>4 DEF IInv, TypeOK, vars, GrantedSessions, Granted
  <2>2. Bounded'
    BY <1>4, <2>1, BoundedKept DEF IInv, Bounded, vars
  <2>3. MailInv' /\ PaidInv'
    BY <1>4 DEF IInv, MailInv, Mails, PaidInv, Granted, vars
  <2>4. PastInv'
    BY <1>4, PastKept, PassesAssumption DEF IInv, TypeOK, Granted, vars
  <2> QED BY <2>1, <2>2, <2>3, <2>4 DEF IInv
<1> QED BY <1>1, <1>2, <1>3, <1>4, TickInv DEF Next

\* The invariant always holds.
LEMMA Invariance == Spec => []IInv
BY InitInv, NextInv, PTL DEF Spec

-----------------------------------------------------------------------------
(* Theorems                                                                *)

\* No pass ends later than the clock and all the sessions allow, though a
\* request adds its hours to an end it read earlier.
THEOREM PassTypes == Spec => []TypeOK
BY Invariance, PTL DEF IInv

\* Any number of webhooks and pages that fulfil one session at once send one
\* mail for it, and none without its row.
THEOREM WelcomedOnce == Spec => []MailedOnce
<1>1. IInv => MailedOnce
  BY DEF IInv, TypeOK, MailInv, MailedOnce
<1> QED BY <1>1, Invariance, PTL

\* A pass is given only for a payment.
OnlyPaidGrants == \A s \in Sessions : Granted(s) => payment[s] # "unpaid"

\* Nothing of _fulfill_pass gives a pass that nobody paid for, whichever of its
\* two callers begins it and whichever of its steps is repeated.
THEOREM GrantsArePaid == Spec => []OnlyPaidGrants
<1>1. IInv => OnlyPaidGrants
  BY DEF IInv, PaidInv, OnlyPaidGrants
<1> QED BY <1>1, Invariance, PTL

\* What a step may do to a row.
LEMMA StepRows ==
  ASSUME IInv, [Next]_vars, NEW s \in Sessions
  PROVE  \/ rows'[s] = rows[s]
         \/ rows[s].status = "none" /\ rows'[s].status = "active"
         \/ rows[s].status = "active" /\ rows'[s].status = "refunded"
<1>1. TypeOK
  BY DEF IInv
<1>2. ASSUME NEW q \in Requests, Insert(q), ~ Granted(req[q].session)
      PROVE  \/ rows'[s] = rows[s]
             \/ rows[s].status = "none" /\ rows'[s].status = "active"
  BY <1>1, <1>2 DEF Insert, TypeOK, Granted
<1>3. ASSUME NEW t \in Sessions, DeliverRefund(t)
      PROVE  \/ rows'[s] = rows[s]
             \/ rows[s].status = "active" /\ rows'[s].status = "refunded"
  BY <1>1, <1>3 DEF DeliverRefund, TypeOK
<1>4. \/ rows' = rows
      \/ \E q \in Requests : Insert(q) /\ ~ Granted(req[q].session)
      \/ \E t \in Sessions : DeliverRefund(t)
  BY DEF Next, vars, Tick, Pay, Refund, DeliverPaid, OpenPage, Begin, Handle, LookUp,
         CannotGrant, Insert, SendMail, Fail
<1> QED BY <1>2, <1>3, <1>4

\* A request mails about what it has inserted, with the end it had computed.
LEMMA StepMails ==
  ASSUME IInv, [Next]_vars, NEW q \in Requests,
         req[q].pc = "inserting", req'[q].pc = "mailing",
         rows[req[q].session].status = "none"
  PROVE  rows'[req[q].session].expires = req[q].expires
<1>1. TypeOK /\ req[q] # Idle /\ req[q].session \in Sessions
  BY BusyRequest DEF IInv
<1>2. Idle.pc = "idle"
  BY DEF Idle
<1>3. CASE UNCHANGED req
  BY <1>3
<1>4. ASSUME NEW p \in Requests, NEW s \in Sessions, DeliverPaid(p, s) \/ OpenPage(p, s)
      PROVE  FALSE
  <2>1. p # q
    BY <1>1, <1>4 DEF DeliverPaid, OpenPage, Begin
  <2>2. req'[q] = req[q]
    BY <1>1, <1>4, <2>1 DEF DeliverPaid, OpenPage, Begin, TypeOK
  <2> QED BY <2>2
<1>5. ASSUME NEW p \in Requests, req' = [req EXCEPT ![p] = Idle]
      PROVE  FALSE
  BY <1>1, <1>2, <1>5 DEF TypeOK
<1>6. ASSUME NEW p \in Requests, LookUp(p), ~ Granted(req[p].session)
      PROVE  FALSE
  <2>1. p # q
    BY <1>6 DEF LookUp
  <2>2. req'[q] = req[q]
    BY <1>1, <1>6, <2>1 DEF LookUp, TypeOK
  <2> QED BY <2>2
<1>7. ASSUME NEW p \in Requests, Insert(p), ~ Granted(req[p].session)
      PROVE  rows'[req[q].session].expires = req[q].expires
  <2>1. CASE p = q
    BY <1>1, <1>7, <2>1 DEF Insert, TypeOK
  <2>2. CASE p # q
    <3>1. req'[q] = req[q]
      BY <1>1, <1>7, <2>2 DEF Insert, TypeOK
    <3> QED BY <3>1
  <2> QED BY <2>1, <2>2
<1>8. \/ UNCHANGED req
      \/ \E p \in Requests, s \in Sessions : DeliverPaid(p, s) \/ OpenPage(p, s)
      \/ \E p \in Requests : req' = [req EXCEPT ![p] = Idle]
      \/ \E p \in Requests : LookUp(p) /\ ~ Granted(req[p].session)
      \/ \E p \in Requests : Insert(p) /\ ~ Granted(req[p].session)
  BY DEF Next, vars, Tick, Pay, Refund, DeliverRefund, Handle, CannotGrant, LookUp,
         Insert, SendMail, Fail, End
<1> QED BY <1>3, <1>4, <1>5, <1>6, <1>7, <1>8

\* No fulfilment that comes late, or again, revives a refunded pass.
THEOREM RefundStays == Spec => RefundIsFinal
<1>1. IInv /\ [Next]_vars =>
        [\A s \in Sessions : rows[s].status = "refunded" => rows'[s] = rows[s]]_vars
  BY StepRows
<1> QED BY <1>1, Invariance, PTL DEF Spec, RefundIsFinal

\* However old the reads of a fulfilment are when its row is written, the pass
\* ends its hours after the fulfilment began, and after every pass the buyer
\* had then.
THEOREM HoursAreFull == Spec => FullHours
<1>1. IInv /\ [Next]_vars =>
        [\A q \in Requests :
           LET r == req[q] IN
           (/\ r.pc = "inserting" /\ req'[q].pc = "mailing"
            /\ rows[r.session].status = "none")
             => /\ rows'[r.session].expires >= r.past.began + Hours
                /\ \A t \in r.past.before :
                     rows[t].status = "active"
                       => rows'[r.session].expires >= rows[t].expires + Hours]_vars
  <2> SUFFICES ASSUME IInv, [Next]_vars, NEW q \in Requests,
                      req[q].pc = "inserting", req'[q].pc = "mailing",
                      rows[req[q].session].status = "none"
               PROVE  LET r == req[q] IN
                      /\ rows'[r.session].expires >= r.past.began + Hours
                      /\ \A t \in r.past.before :
                           rows[t].status = "active"
                             => rows'[r.session].expires >= rows[t].expires + Hours
    OBVIOUS
  <2> DEFINE r == req[q]
  <2>1. /\ r # Idle /\ r.expires \in Nat /\ r.past.began \in Nat
        /\ r.past.before \in SUBSET Sessions
    BY BusyRequest DEF IInv
  <2>2. /\ r.past.began + Hours <= r.expires
        /\ \A t \in r.past.before :
             rows[t].status = "active" => rows[t].expires + Hours <= r.expires
    BY <2>1 DEF IInv, PastInv
  <2>3. rows'[r.session].expires = r.expires
    BY StepMails
  <2>4. \A t \in r.past.before : rows[t].expires \in Nat
    BY <2>1, RowType DEF IInv
  <2> HIDE DEF r
  <2> QED BY <2>1, <2>2, <2>3, <2>4, PassesAssumption DEF r
<1> QED BY <1>1, Invariance, PTL DEF Spec, FullHours

-----------------------------------------------------------------------------
(* Passes overlap only if two requests do.                                 *)

\* There is a single request at a time.
OneRequest == \A p, q \in Requests : p = q

\* The end that a request has computed still comes after the buyer's passes.
ReadInv ==
  \A q \in Requests, t \in Sessions :
    (/\ req[q].pc = "inserting" /\ rows[t].status = "active"
     /\ BuyerOf[t] = BuyerOf[req[q].session])
       => rows[t].expires + Hours <= req[q].expires

\* With one request at a time, what it has read of the end stays true.
LEMMA StackStep ==
  ASSUME OneRequest, IInv, ReadInv, PassesStack, [Next]_vars
  PROVE  ReadInv' /\ PassesStack'
<1>1. TypeOK /\ Bounded /\ now \in Nat /\ \A s \in Sessions : rows[s].expires \in Nat
  BY RowType, PassesAssumption DEF IInv, TypeOK
<1>2. CASE UNCHANGED <<rows, req>> /\ now' \in Nat /\ now' >= now
  BY <1>1, <1>2 DEF ReadInv, PassesStack
<1>3. ASSUME NEW q \in Requests, UNCHANGED <<rows, now>>, req'[q].pc # "inserting"
      PROVE  ReadInv' /\ PassesStack'
  BY <1>3 DEF OneRequest, ReadInv, PassesStack
<1>4. ASSUME NEW q \in Requests, LookUp(q), ~ Granted(req[q].session)
      PROVE  ReadInv' /\ PassesStack'
  <2> DEFINE latest == PassUntil(BuyerOf[req[q].session])
             end == ComputeExpiry(latest)
  <2>1. /\ UNCHANGED <<rows, now>>
        /\ req'[q].session = req[q].session /\ req'[q].expires = end
    <3>1. req[q] \in Busy
      BY <1>1, <1>4, BusyRequest DEF LookUp
    <3>2. req'[q] = [req[q] EXCEPT !.pc = "inserting", !.expires = end]
      BY <1>1, <1>4 DEF LookUp, TypeOK
    <3> QED BY <1>4, <3>1, <3>2 DEF LookUp, Busy
  <2>2. end \in Nat /\ end >= now + Hours /\ end >= latest + Hours /\ latest \in Nat
    <3>1. latest \in Nat /\ latest <= Horizon /\ now \in 0 .. MaxNow
      BY <1>1, PassUntilBound DEF TypeOK
    <3> HIDE DEF latest
    <3> QED BY <3>1, HorizonType, ExpiryBounds
  <2>3. \A t \in Sessions :
          (rows[t].status = "active" /\ BuyerOf[t] = BuyerOf[req[q].session])
             => rows[t].expires + Hours <= end
    <3>1. \A t \in Sessions :
            (rows[t].status = "active" /\ BuyerOf[t] = BuyerOf[req[q].session])
               => rows[t].expires <= latest \/ rows[t].expires <= now
      BY <1>1, PassUntilCovers
    <3> HIDE DEF latest, end
    <3> QED BY <1>1, <2>2, <3>1, PassesAssumption
  <2> HIDE DEF end
  <2>4. ReadInv'
    BY <2>1, <2>3 DEF OneRequest, ReadInv
  <2> QED BY <2>1, <2>4 DEF PassesStack
<1>5. ASSUME NEW q \in Requests, NEW s \in Sessions, Inserts(q, s)
      PROVE  ReadInv' /\ PassesStack'
  <2>1. req[q] \in Busy /\ req[q].expires \in Nat
    BY <1>1, <1>5, BusyRequest DEF Inserts
  <2>2. req'[q].pc # "inserting"
    <3>1. req'[q] = Mailing(req[q])
      BY <1>1, <1>5 DEF Inserts, TypeOK
    <3> QED BY <2>1, <3>1 DEF Busy, Mailing
  <2>3. ReadInv'
    BY <2>2 DEF OneRequest, ReadInv
  <2>4. rows'[s].expires = req[q].expires
    BY <1>1, <1>5 DEF Inserts, TypeOK
  <2>5. \A t \in Sessions \ {s} : rows'[t] = rows[t]
    BY <1>1, <1>5 DEF Inserts, TypeOK
  <2>6. ASSUME NEW t \in Sessions \ {s}, rows'[t].status = "active", BuyerOf[t] = BuyerOf[s]
        PROVE  rows'[t].expires <= rows'[s].expires - Hours
    <3>1. rows[t].expires + Hours <= req[q].expires
      BY <1>5, <2>5, <2>6 DEF ReadInv, Inserts
    <3> QED BY <1>1, <2>1, <2>4, <2>5, <3>1, PassesAssumption
  <2> QED BY <2>3, <2>5, <2>6 DEF PassesStack
<1>6. ASSUME NEW s \in Sessions, DeliverRefund(s) PROVE ReadInv' /\ PassesStack'
  <2>1. /\ req' = req /\ now' = now
        /\ \A t \in Sessions : rows'[t] = rows[t] \/ rows'[t].status # "active"
    BY <1>1, <1>6 DEF DeliverRefund, TypeOK
  <2> QED BY <2>1 DEF ReadInv, PassesStack
<1>7. CASE Tick \/ UNCHANGED vars \/ \E s \in Sessions : Pay(s) \/ Refund(s)
  BY <1>1, <1>2, <1>7 DEF Tick, vars, Pay, Refund
<1>8. ASSUME NEW q \in Requests, NEW s \in Sessions, DeliverPaid(q, s) \/ OpenPage(q, s)
      PROVE  ReadInv' /\ PassesStack'
  <2>1. req'[q].pc = "begun" /\ UNCHANGED <<rows, now>>
    BY <1>1, <1>8 DEF DeliverPaid, OpenPage, Begin, TypeOK
  <2> QED BY <1>3, <2>1
<1>9. ASSUME NEW q \in Requests, req' = [req EXCEPT ![q] = Idle], UNCHANGED <<rows, now>>
      PROVE  ReadInv' /\ PassesStack'
  <2>1. req'[q].pc # "inserting"
    BY <1>1, <1>9 DEF TypeOK, Idle
  <2> QED BY <1>3, <1>9, <2>1
<1>10. ASSUME NEW q \in Requests, Handle(q) \/ Fail(q) PROVE ReadInv' /\ PassesStack'
  <2>1. CASE Fail(q) \/ CannotGrant(q) \/ SendMail(q)
    BY <1>9, <2>1 DEF Fail, CannotGrant, SendMail, End
  <2>2. CASE LookUp(q)
    BY <1>4, <1>9, <2>2 DEF LookUp, End
  <2>3. CASE Insert(q)
    <3>1. CASE Granted(req[q].session)
      BY <1>9, <2>3, <3>1 DEF Insert, End
    <3>2. CASE ~ Granted(req[q].session)
      <4>1. req[q].session \in Sessions
        BY <1>1, <2>3, BusyRequest DEF Insert
      <4>2. Inserts(q, req[q].session)
        BY <2>3, <3>2 DEF Insert, Inserts
      <4> QED BY <1>5, <4>1, <4>2
    <3> QED BY <3>1, <3>2
  <2> QED BY <1>10, <2>1, <2>2, <2>3 DEF Handle
<1> QED BY <1>6, <1>7, <1>8, <1>10 DEF Next

\* "A buyer who still has time left gets the new pass added after it"
\* (crud.py:207) is true as long as one request runs at a time: only two that
\* read the buyer's passes before either has written can make passes overlap.
THEOREM OneRequestStacks == OneRequest => (Spec => []PassesStack)
<1> SUFFICES ASSUME OneRequest PROVE Spec => []PassesStack
  OBVIOUS
<1>1. Init => ReadInv /\ PassesStack
  BY DEF Init, ReadInv, PassesStack, Idle
<1>2. IInv /\ ReadInv /\ PassesStack /\ [Next]_vars => ReadInv' /\ PassesStack'
  BY StackStep
<1> QED BY <1>1, <1>2, Invariance, PTL DEF Spec
=============================================================================
