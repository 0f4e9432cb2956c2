------------------------------ MODULE Passes ------------------------------
(***************************************************************************)
(* One-time passes: a paid Checkout session of Stripe becomes a row of     *)
(* access_passes, through the webhook and through the success page, which  *)
(* both call _fulfill_pass (adagent_server.py); a refund ends it.          *)
(*                                                                         *)
(* Stripe is external: it tells of a payment or a refund until the webhook *)
(* answers 2xx, several deliveries of one event may be in progress, and    *)
(* nothing orders two events.  A request steps at its database accesses;   *)
(* the reads of one transaction see one snapshot (InnoDB's default).       *)
(***************************************************************************)
EXTENDS Integers, FiniteSets, FiniteSetsExt

CONSTANTS Sessions,    \* Checkout sessions, each with its payment intent
          Buyers, BuyerOf,
          Requests,    \* requests in progress, of all workers
          Hours,       \* what a pass gives, in ticks
          MaxNow, MaxFailures, MaxPages    \* bounds

ASSUME PassesAssumption ==
         /\ IsFiniteSet(Sessions)
         /\ BuyerOf \in [Sessions -> Buyers]
         /\ Hours \in Nat \ {0}
         /\ MaxNow \in Nat /\ MaxFailures \in Nat /\ MaxPages \in Nat

VARIABLES now,
          payment,    \* Stripe: the state of each session
          nameless,   \* Stripe: paid sessions that carry no e-mail address
          due,        \* Stripe: events not acknowledged
          rows,       \* access_passes, by its unique stripe_session_id
          req,        \* the requests
          mails,      \* welcome mails sent for each session
          failures, pages

vars == <<now, payment, nameless, due, rows, req, mails, failures, pages>>

Event == {"paid", "refunded"} \X Sessions

Times == 0 .. (MaxNow + Hours * Cardinality(Sessions))

Row == [status : {"none", "active", "refunded"}, expires : Times]

\* "begun" awaits the transaction that looks for the session, "inserting" the
\* commit of the new row, which is to end at `expires`, "mailing" the sign-in
\* link and the mail.  Its past, kept up to the commit if its session had no
\* row yet: when it began, and with which passes its buyer had access then.
Idle == [pc |-> "idle"]
Past == [began : 0 .. MaxNow, before : SUBSET Sessions]
NoPast == [began |-> 0, before |-> {}]
Request == {Idle} \cup
           [pc : {"begun", "inserting", "mailing"},
            session : Sessions,
            webhook : BOOLEAN,
            expires : Times,
            past : Past]

TypeOK == /\ now \in 0 .. MaxNow
          /\ payment \in [Sessions -> {"unpaid", "paid", "refunded"}]
          /\ nameless \subseteq Sessions
          /\ due \subseteq Event
          /\ rows \in [Sessions -> Row]
          /\ req \in [Requests -> Request]
          /\ mails \in [Sessions -> Nat]
          /\ failures \in 0 .. MaxFailures
          /\ pages \in 0 .. MaxPages

Init == /\ now = 0
        /\ payment = [s \in Sessions |-> "unpaid"]
        /\ nameless = {}
        /\ due = {}
        /\ rows = [s \in Sessions |-> [status |-> "none", expires |-> 0]]
        /\ req = [q \in Requests |-> Idle]
        /\ mails = [s \in Sessions |-> 0]
        /\ failures = 0
        /\ pages = 0

-----------------------------------------------------------------------------
(* Stripe and the clock.                                                   *)

Tick == /\ now < MaxNow
        /\ now' = now + 1
        /\ UNCHANGED <<payment, nameless, due, rows, req, mails, failures, pages>>

Pay(s) == /\ payment[s] = "unpaid"
          /\ payment' = [payment EXCEPT ![s] = "paid"]
          /\ nameless' \in {nameless, nameless \cup {s}}
          /\ due' = due \cup {<<"paid", s>>}
          /\ UNCHANGED <<now, rows, req, mails, failures, pages>>

Refund(s) == /\ payment[s] = "paid"
             /\ payment' = [payment EXCEPT ![s] = "refunded"]
             /\ due' = due \cup {<<"refunded", s>>}
             /\ UNCHANGED <<now, nameless, rows, req, mails, failures, pages>>

Granted(s) == rows[s].status # "none"

\* The passes with which buyer b has access.
ActiveOf(b) ==
  {t \in Sessions :
     BuyerOf[t] = b /\ rows[t].status = "active" /\ rows[t].expires > now}

PastOf(s) == IF Granted(s) THEN NoPast
             ELSE [began |-> now, before |-> ActiveOf(BuyerOf[s])]

-----------------------------------------------------------------------------
(* _fulfill_pass, from a webhook or from the success page.                 *)

Begin(q, s, webhook) ==
  /\ req[q] = Idle
  /\ req' = [req EXCEPT ![q] = [pc |-> "begun", session |-> s, webhook |-> webhook,
                                expires |-> 0, past |-> PastOf(s)]]
  /\ UNCHANGED <<now, payment, nameless, due, rows, mails, failures>>

\* checkout.session.completed, or .async_payment_succeeded for a payment that
\* was not paid on completion.
DeliverPaid(q, s) ==
  /\ <<"paid", s>> \in due
  /\ Begin(q, s, TRUE)
  /\ UNCHANGED pages

\* The buyer's browser opens /subscribe/success, once or many times.  Stripe
\* still says "paid" of a session that was refunded.
OpenPage(q, s) ==
  /\ payment[s] # "unpaid"
  /\ pages < MaxPages
  /\ Begin(q, s, FALSE)
  /\ pages' = pages + 1

\* The request ends: the webhook answers 2xx.
End(q) ==
  /\ req' = [req EXCEPT ![q] = Idle]
  /\ due' = IF req[q].webhook THEN due \ {<<"paid", req[q].session>>} ELSE due

\* Without an address nothing can be granted: that is logged, and the webhook
\* answers 2xx all the same, so that Stripe never asks again.
CannotGrant(q) ==
  /\ req[q].pc = "begun" /\ req[q].session \in nameless
  /\ End(q)
  /\ UNCHANGED <<now, payment, nameless, rows, mails, failures, pages>>

\* get_pass_until(): the end of the buyer's active passes, 0 if there is none.
PassUntil(b) == Max({0} \cup {rows[t].expires : t \in ActiveOf(b)})

\* Mutant of ComputeExpiry: the hours run from now, on top of nothing.
ComputeExpiry_FromNow(latest) == now + Hours

\* Mutant of ComputeExpiry: the end of the last pass is added to the clock.
ComputeExpiry_Sum(latest) == now + latest + Hours

\* passes.compute_expiry()
ComputeExpiry(latest) == (IF latest > now THEN latest ELSE now) + Hours

\* The first reads of create_pass(): the session's row, the buyer's passes.
\* The clock is read with them: the end of the pass is fixed here, and the row
\* is written at any time after that.
LookUp(q) ==
  LET s == req[q].session IN
  /\ req[q].pc = "begun" /\ s \notin nameless
  /\ IF Granted(s)
       THEN End(q)
       ELSE /\ req' = [req EXCEPT ![q].pc = "inserting",
                                  ![q].expires = ComputeExpiry(PassUntil(BuyerOf[s]))]
            /\ UNCHANGED due
  /\ UNCHANGED <<now, payment, nameless, rows, mails, failures, pages>>

\* Request r after the commit of its row.
Mailing(r) == [r EXCEPT !.pc = "mailing", !.expires = 0, !.past = NoPast]

\* Mutant of Insert: INSERT ... ON DUPLICATE KEY UPDATE.
Insert_Upserts(q) ==
  LET s == req[q].session IN
  /\ req[q].pc = "inserting"
  /\ rows' = [rows EXCEPT ![s] = [status |-> "active", expires |-> req[q].expires]]
  /\ req' = [req EXCEPT ![q] = Mailing(@)]
  /\ UNCHANGED <<now, payment, nameless, due, mails, failures, pages>>

\* The commit of the new row; IntegrityError if another request was first.
Insert(q) ==
  LET s == req[q].session IN
  /\ req[q].pc = "inserting"
  /\ IF Granted(s)
       THEN End(q) /\ UNCHANGED rows
       ELSE /\ rows' = [rows EXCEPT ![s] =
                          [status |-> "active", expires |-> req[q].expires]]
            /\ req' = [req EXCEPT ![q] = Mailing(@)]
            /\ UNCHANGED due
  /\ UNCHANGED <<now, payment, nameless, mails, failures, pages>>

\* Mutant of SendMail: the event is not acknowledged, the mail sent again.
SendMail_Stays(q) ==
  /\ req[q].pc = "mailing"
  /\ mails[req[q].session] < 2
  /\ mails' = [mails EXCEPT ![req[q].session] = @ + 1]
  /\ UNCHANGED <<now, payment, nameless, due, rows, req, failures, pages>>

\* The sign-in link is stored and the welcome mail sent; a refusal of the mail
\* relay is only logged.
SendMail(q) ==
  /\ req[q].pc = "mailing"
  /\ \E sent \in 0 .. 1 :
       mails' = [mails EXCEPT ![req[q].session] = @ + sent]
  /\ End(q)
  /\ UNCHANGED <<now, payment, nameless, rows, failures, pages>>

\* Mutant of Fail: the webhook swallows the error and answers 200.
Fail_Acknowledges(q) ==
  /\ req[q] # Idle
  /\ failures < MaxFailures
  /\ failures' = failures + 1
  /\ End(q)
  /\ UNCHANGED <<now, payment, nameless, rows, mails, pages>>

\* The worker dies, or the database raises: the page shows no error, the
\* webhook answers 500, and nothing is undone.
Fail(q) ==
  /\ req[q] # Idle
  /\ failures < MaxFailures
  /\ failures' = failures + 1
  /\ req' = [req EXCEPT ![q] = Idle]
  /\ UNCHANGED <<now, payment, nameless, due, rows, mails, pages>>

\* charge.refunded: revoke_pass_by_payment_intent(), one UPDATE; the answer
\* may be lost, and the event comes again.
DeliverRefund(s) ==
  /\ <<"refunded", s>> \in due
  /\ rows' = IF rows[s].status = "active"
               THEN [rows EXCEPT ![s] = [status |-> "refunded", expires |-> now]]
               ELSE rows
  /\ \/ due' = due \ {<<"refunded", s>>} /\ UNCHANGED failures
     \/ failures < MaxFailures /\ failures' = failures + 1 /\ UNCHANGED due
  /\ UNCHANGED <<now, payment, nameless, req, mails, pages>>

Handle(q) == CannotGrant(q) \/ LookUp(q) \/ Insert(q) \/ SendMail(q)

Next == \/ Tick
        \/ \E s \in Sessions : Pay(s) \/ Refund(s) \/ DeliverRefund(s)
        \/ \E q \in Requests, s \in Sessions : DeliverPaid(q, s) \/ OpenPage(q, s)
        \/ \E q \in Requests : Handle(q) \/ Fail(q)

Spec == Init /\ [][Next]_vars

\* A request that does not fail goes on; Stripe delivers an event again until
\* it is acknowledged (strongly: other requests come and go meanwhile).
Fairness == /\ \A q \in Requests : WF_vars(Handle(q))
            /\ \A s \in Sessions : SF_vars(\E q \in Requests : DeliverPaid(q, s))

FairSpec == Spec /\ Fairness

-----------------------------------------------------------------------------
(* Properties                                                              *)

\* One payment is welcomed by one mail at most, however often and however
\* concurrently it is fulfilled, and only after its row is there.
MailedOnce == \A s \in Sessions : mails[s] <= (IF Granted(s) THEN 1 ELSE 0)

\* A refunded pass stays refunded: no late or repeated fulfilment of the same
\* session revives it.
RefundIsFinal ==
  [][\A s \in Sessions : rows[s].status = "refunded" => rows'[s] = rows[s]]_vars

\* No paid hour is lost to reads that are old when the row is written: a pass
\* that is granted ends its hours or more after its fulfilment began, and that
\* long after the end of every pass the buyer had then, unless refunded since.  (The
\* clock of the commit is not meant: create_pass() fixes the end before, and a
\* pass that it waits long to write has begun by then.)
FullHours ==
  [][\A q \in Requests :
       LET r == req[q] IN
       (/\ r.pc = "inserting" /\ req'[q].pc = "mailing"
        /\ rows[r.session].status = "none")
         => /\ rows'[r.session].expires >= r.past.began + Hours
            /\ \A t \in r.past.before :
                 rows[t].status = "active"
                   => rows'[r.session].expires >= rows[t].expires + Hours]_vars

\* Every payment whose session names its buyer gets its pass, whichever
\* requests fail.  (One without an address is given up by CannotGrant.)
PaidGetsPass ==
  \A s \in Sessions :
     (payment[s] = "paid" /\ s \notin nameless) ~> Granted(s)

\* The periods of a buyer's active passes do not overlap: "A buyer who still
\* has time left gets the new pass added after it" (crud.py:207).
PassesStack ==
  \A s, t \in Sessions :
     (/\ s # t /\ BuyerOf[s] = BuyerOf[t]
      /\ rows[s].status = "active" /\ rows[t].status = "active")
        => \/ rows[s].expires <= rows[t].expires - Hours
           \/ rows[t].expires <= rows[s].expires - Hours

\* Once the webhook has answered for a refund, the payment gives no access:
\* "Refunded one-time payment -> end the pass now" (adagent_server.py:657).
RefundEndsPass ==
  \A s \in Sessions :
     (payment[s] = "refunded" /\ <<"refunded", s>> \notin due)
        => rows[s].status # "active"
=============================================================================
