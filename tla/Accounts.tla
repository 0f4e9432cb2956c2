------------------------------ MODULE Accounts ------------------------------
(***************************************************************************)
(* The requests of adagent_server.py that concern accounts, over one       *)
(* database: sign-in by a mailed link, the free-tier quota of /analyze,    *)
(* the claim of an anonymous report, and Stripe's subscription webhooks.   *)
(*                                                                         *)
(* A step is one commit, or one read with the computation after it.  Both  *)
(* workers serve requests, so these interleave, and a worker can die       *)
(* between two steps.  A user is a mailbox: User.email is unique, and      *)
(* get_or_create_user() returns the one row of it to whoever loses the     *)
(* race to create it.  Sessions, links and reports bear the name of the    *)
(* request that creates them, or Old when they were there before.          *)
(***************************************************************************)
EXTENDS Integers, FiniteSets

CONSTANTS Requests, Mailboxes, Clients, Subs, Old, None,
          Scenes,        \* what the requests are for, the users signed in at first,
                         \* the subscriptions to be bought, the time
          MailOf,        \* customer_email of the checkout of each subscription
          PassUntil,     \* get_pass_until() of each user (module Passes)
          PerClient,     \* FREE_REPORTS_PER_CLIENT_PER_DAY
          GlobalCap,     \* FREE_REPORTS_GLOBAL_PER_DAY
          Day, Period,   \* 24 hours, a paid period of Stripe
          LinkTTL, WelcomeTTL, SessionTTL,
          MaxTime,       \* bound of the model: time stops here
          MaxFails       \* bound of the model: times an event is delivered in vain

Kinds == {"auth", "verify", "logout", "analyze", "notify", "webhook",
          "none"}   \* does not come in

ASSUME AccountsAssumption ==
  /\ IsFiniteSet(Requests) /\ Old \notin Requests
  /\ Scenes \subseteq [kinds : [Requests -> Kinds], users : SUBSET Mailboxes,
                         subs : SUBSET Subs, start : 0 .. MaxTime]
  /\ MailOf \in [Subs -> Mailboxes]
  /\ PassUntil \in [Mailboxes -> Int]
  /\ {PerClient, GlobalCap, Day, Period, LinkTTL, WelcomeTTL, SessionTTL, MaxTime,
   MaxFails} \subseteq Nat

VARIABLES now,
          req,       \* the handler of each request, with what it has read
          link,      \* MagicLink rows, and whether the mail went out
          session,   \* Session rows; those of Mailboxes were there before
          report,    \* Report rows: owner, client, quota
          row,       \* Subscription row of each user
          stripe,    \* Stripe's own record of the subscriptions
          events,    \* what Stripe has reported; it can come late and repeatedly
          before,    \* history: the requests that were over when one began
          signed,    \* history: the link with which a request signed in
          torn       \* history: users whose row was written over a newer one

vars == <<now, req, link, session, report, row, stripe, events, before, signed, torn>>

Ids       == Requests \cup {Old}
Tokens    == Requests \cup Mailboxes
Over(r)   == req[r].pc \in {"done", "failed"}
Finished  == {r \in Requests : Over(r)}

Places == {"idle", "start", "mark", "session", "mail", "client", "global", "create",
           "report", "update", "retrieve", "upsert", "insert", "welcome", "done", "failed"}

LinkRows    == [mail : Mailboxes, expires : Nat, used : BOOLEAN, mailed : BOOLEAN]
SessionRows == [user : Mailboxes, expires : Nat]
ReportRows  == [owner : Mailboxes \cup {None}, client : Clients, limited : BOOLEAN,
                at : Nat, by : Requests \cup {None}]

\* What Stripe says of a subscription, and what a Subscription row says.
Snapshots == [sub : Subs, status : {"active", "trialing", "past_due", "canceled"},
              end : Nat]
Events    == [type : {"checkout", "updated", "deleted", "payment_failed"}, of : Snapshots]

\* None is no row, no name and no time.
ASSUME NoneAssumption ==
  /\ None \notin Requests \cup {Old} /\ None \notin Mailboxes /\ None \notin Int
  /\ None \notin LinkRows /\ None \notin SessionRows
  /\ None \notin ReportRows /\ None \notin Snapshots

AccountsTypeOK ==
  /\ now \in Nat
  /\ \A r \in Requests : /\ req[r].kind \in Kinds
                        /\ req[r].pc \in Places
                        /\ req[r].user \in Mailboxes \cup {None}
                        /\ req[r].old \in Snapshots \cup {None}
                        /\ req[r].fails \in 0 .. MaxFails
  /\ link \in [Requests -> LinkRows \cup {None}]
  /\ session \in [Tokens -> SessionRows \cup {None}]
  /\ report \in [Ids -> ReportRows \cup {None}]
  /\ row \in [Mailboxes -> Snapshots \cup {None}]
  /\ events \subseteq Events
  /\ before \in [Requests -> SUBSET Requests]
  /\ signed \in [Requests -> Requests \cup {None}]
  /\ torn \subseteq Mailboxes

-----------------------------------------------------------------------------
(* Reads.                                                                  *)

\* is_subscribed()
Subscribed(m) == /\ row[m] # None
                 /\ row[m].status \in {"active", "trialing"}
                 /\ row[m].end > now

\* The user of _resolve_access(): that of the session of the cookie.
UserOf(cookie) ==
  IF cookie # None /\ session[cookie] # None /\ session[cookie].expires > now
    THEN session[cookie].user ELSE None

\* Full access: a subscription or a pass.
HasAccess(user) == user # None /\ (Subscribed(user) \/ PassUntil[user] > now)

\* count_free_reports_since(), of some clients.
CountFree(since, clients) ==
  Cardinality({p \in Ids : /\ report[p] # None
                           /\ report[p].limited
                           /\ report[p].at >= since
                           /\ report[p].client \in clients})

-----------------------------------------------------------------------------
(* Requests.                                                               *)

At(r, kind, pc) == req[r].kind = kind /\ req[r].pc = pc

\* A handler with nothing read.
Blank(kind, pc) == [kind |-> kind, pc |-> pc, arg |-> None, user |-> None, seen |-> None,
                    old |-> None, fails |-> 0]

Goto(r, pc) == req' = [req EXCEPT ![r].pc = pc]

\* The request is answered as asked, or it is not.
End(r, pc) == req' = [req EXCEPT ![r] = Blank(@.kind, pc)]
Succeed(r) == End(r, "done")
Fail(r)    == End(r, "failed")

\* Stripe will deliver the event again, to a handler that has read nothing.
Again(r, fails) ==
  req' = [req EXCEPT ![r] = [Blank(@.kind, "start") EXCEPT !.arg = req[r].arg,
                                                           !.fails = fails]]

\* The cookie of a request: one without a session is as good as none.
Cookies == {c \in Tokens : session[c] # None} \cup {None}

\* What a request of each kind may bring along.  Nobody knows a token that
\* was not sent.
Arguments(kind) ==
  CASE kind = "auth"    -> Mailboxes
    [] kind = "verify"  -> {l \in Requests : link[l] # None /\ link[l].mailed} \cup {None}
    [] kind = "logout"  -> Cookies
    [] kind = "analyze" -> [cookie : Cookies, client : Clients]
    [] kind = "notify"  -> [cookie : Cookies, report : {p \in Ids : report[p] # None}]
    [] kind = "webhook" -> events
    [] kind = "none"    -> {}

\* A request comes in.
Begin(r) ==
  /\ req[r].pc = "idle"
  /\ \E a \in Arguments(req[r].kind) :
       req' = [req EXCEPT ![r].pc = "start", ![r].arg = a]
  /\ before' = [before EXCEPT ![r] = Finished]
  /\ UNCHANGED <<now, link, session, report, row, stripe, events, signed, torn>>

\* Mutant of Dies: a webhook that fails is answered all the same.
Dies_Answered(r) ==
  /\ req[r].pc # "idle" /\ ~Over(r)
  /\ Fail(r)
  /\ UNCHANGED <<now, link, session, report, row, stripe, events, before, signed, torn>>

\* The worker dies, or the database or Stripe fails the request.  A browser
\* gives up; Stripe delivers the event again.
Dies(r) ==
  /\ req[r].pc # "idle" /\ ~Over(r)
  /\ \/ req[r].kind # "webhook" /\ Fail(r)
     \/ /\ req[r].kind = "webhook" /\ req[r].fails < MaxFails
        /\ Again(r, req[r].fails + 1)
  /\ UNCHANGED <<now, link, session, report, row, stripe, events, before, signed, torn>>

-----------------------------------------------------------------------------
(* POST /auth, GET /auth/verify/{token}, POST /auth/logout.                *)

\* create_magic_link()
NewLink(r, mail, ttl, mailed) ==
  link' = [link EXCEPT ![r] = [mail |-> mail, expires |-> now + ttl,
                               used |-> FALSE, mailed |-> mailed]]

\* auth_send(): the row, then the mail, which the relay may refuse.
AuthSend(r) ==
  /\ \/ /\ At(r, "auth", "start")
        /\ NewLink(r, req[r].arg, LinkTTL, FALSE)
        /\ Goto(r, "mail")
     \/ /\ At(r, "auth", "mail")
        /\ \/ link' = [link EXCEPT ![r].mailed = TRUE] /\ Succeed(r)
           \/ UNCHANGED link /\ Fail(r)
  /\ UNCHANGED <<now, session, report, row, stripe, events, before, signed, torn>>

Usable(l) == l # None /\ ~link[l].used /\ link[l].expires > now

\* Mutant of SelectLink: consume_magic_link() does not ask for `used`.
SelectLink_Reused(r) ==
  /\ At(r, "verify", "start")
  /\ IF req[r].arg # None /\ link[req[r].arg].expires > now
       THEN Goto(r, "mark") ELSE Fail(r)
  /\ UNCHANGED <<now, link, session, report, row, stripe, events, before, signed, torn>>

\* consume_magic_link(): the select.
SelectLink(r) ==
  /\ At(r, "verify", "start")
  /\ IF Usable(req[r].arg) THEN Goto(r, "mark") ELSE Fail(r)
  /\ UNCHANGED <<now, link, session, report, row, stripe, events, before, signed, torn>>

\* consume_magic_link(): the update, whatever the row says by now.
MarkLink(r) ==
  /\ At(r, "verify", "mark")
  /\ link' = [link EXCEPT ![req[r].arg].used = TRUE]
  /\ Goto(r, "session")
  /\ UNCHANGED <<now, session, report, row, stripe, events, before, signed, torn>>

\* auth_verify(): create_session().
SignIn(r) ==
  /\ At(r, "verify", "session")
  /\ session' = [session EXCEPT ![r] = [user    |-> link[req[r].arg].mail,
                                        expires |-> now + SessionTTL]]
  /\ signed' = [signed EXCEPT ![r] = req[r].arg]
  /\ Succeed(r)
  /\ UNCHANGED <<now, link, report, row, stripe, events, before, torn>>

\* auth_logout()
Logout(r) ==
  /\ At(r, "logout", "start")
  /\ session' = IF req[r].arg = None THEN session ELSE [session EXCEPT ![req[r].arg] = None]
  /\ Succeed(r)
  /\ UNCHANGED <<now, link, report, row, stripe, events, before, signed, torn>>

-----------------------------------------------------------------------------
(* POST /analyze, up to the creation of the report (then see Reports).     *)

\* A form that is refused, or the user and the access behind the cookie; the
\* window of the quota begins a day before.
ResolveAnalyze(r) ==
  LET user == UserOf(req[r].arg.cookie) IN
  /\ At(r, "analyze", "start")
  /\ \/ Fail(r)
     \/ /\ HasAccess(user)
        /\ req' = [req EXCEPT ![r].user = user, ![r].pc = "create"]
     \/ /\ ~HasAccess(user)
        /\ req' = [req EXCEPT ![r].user = user, ![r].pc = "client", ![r].seen = now - Day]
  /\ UNCHANGED <<now, link, session, report, row, stripe, events, before, signed, torn>>

Exceeds(limit, count) == limit > 0 /\ count >= limit

\* The daily limit of the client.
CountClient(r) ==
  /\ At(r, "analyze", "client")
  /\ IF Exceeds(PerClient, CountFree(req[r].seen, {req[r].arg.client}))
       THEN Fail(r) ELSE Goto(r, "global")
  /\ UNCHANGED <<now, link, session, report, row, stripe, events, before, signed, torn>>

\* Mutant of CountGlobal: the client's reports are counted once more.
CountGlobal_Client(r) ==
  /\ At(r, "analyze", "global")
  /\ IF Exceeds(GlobalCap, CountFree(req[r].seen, {req[r].arg.client}))
       THEN Fail(r) ELSE Goto(r, "create")
  /\ UNCHANGED <<now, link, session, report, row, stripe, events, before, signed, torn>>

\* The cap across all clients.
CountGlobal(r) ==
  /\ At(r, "analyze", "global")
  /\ IF Exceeds(GlobalCap, CountFree(req[r].seen, Clients))
       THEN Fail(r) ELSE Goto(r, "create")
  /\ UNCHANGED <<now, link, session, report, row, stripe, events, before, signed, torn>>

\* create_report()
CreateReport(r) ==
  /\ At(r, "analyze", "create")
  /\ report' = [report EXCEPT ![r] =
       [owner |-> req[r].user, client |-> req[r].arg.client, limited |-> req[r].seen # None,
        at |-> now, by |-> IF req[r].user = None THEN None ELSE r]]
  /\ Succeed(r)
  /\ UNCHANGED <<now, link, session, row, stripe, events, before, signed, torn>>

-----------------------------------------------------------------------------
(* POST /api/report/{id}/notify.  (The flag itself is in Reports.)         *)

\* Only a signed-in user.
ResolveNotify(r) ==
  LET user == UserOf(req[r].arg.cookie) IN
  /\ At(r, "notify", "start")
  /\ IF user = None THEN Fail(r)
     ELSE req' = [req EXCEPT ![r].user = user, ![r].pc = "report"]
  /\ UNCHANGED <<now, link, session, report, row, stripe, events, before, signed, torn>>

\* Mutant of SelectReport: whoever switches the flag on owns the report.
SelectReport_Any(r) ==
  /\ At(r, "notify", "report")
  /\ req' = [req EXCEPT ![r].seen = None, ![r].pc = "update"]
  /\ UNCHANGED <<now, link, session, report, row, stripe, events, before, signed, torn>>

\* set_report_notify_email(): the owner is read.
SelectReport(r) ==
  LET owner == report[req[r].arg.report].owner IN
  /\ At(r, "notify", "report")
  /\ IF owner \notin {None, req[r].user} THEN Fail(r)
     ELSE req' = [req EXCEPT ![r].seen = owner, ![r].pc = "update"]
  /\ UNCHANGED <<now, link, session, report, row, stripe, events, before, signed, torn>>

\* The update: an anonymous report is claimed, whoever owns it by now.
UpdateReport(r) ==
  /\ At(r, "notify", "update")
  /\ report' = IF req[r].seen # None THEN report
               ELSE [report EXCEPT ![req[r].arg.report].owner = req[r].user,
                                   ![req[r].arg.report].by = r]
  /\ Succeed(r)
  /\ UNCHANGED <<now, link, session, row, stripe, events, before, signed, torn>>

-----------------------------------------------------------------------------
(* POST /webhooks/stripe, for subscriptions (for passes, see Passes).      *)

Buyer(r) == MailOf[req[r].arg.of.sub]

\* get_or_create_user(): the transaction begins, and with it its view of the row.
FindUser(r) ==
  /\ At(r, "webhook", "start") /\ req[r].arg.type = "checkout"
  /\ req' = [req EXCEPT ![r].old = row[Buyer(r)], ![r].pc = "retrieve"]
  /\ UNCHANGED <<now, link, session, report, row, stripe, events, before, signed, torn>>

\* Mutant of Retrieve: an answer without the end of the period is taken.
Retrieve_NoPeriod(r) ==
  /\ At(r, "webhook", "retrieve")
  /\ req' = [req EXCEPT ![r].pc = "upsert",
                        ![r].seen = [stripe[req[r].arg.of.sub] EXCEPT !.end = None]]
  /\ UNCHANGED <<now, link, session, report, row, stripe, events, before, signed, torn>>

\* _handle_checkout_completed(): Stripe is asked for the subscription as it is
\* now; an error of Stripe fails the request (Dies).
Retrieve(r) ==
  /\ At(r, "webhook", "retrieve")
  /\ req' = [req EXCEPT ![r].seen = stripe[req[r].arg.of.sub], ![r].pc = "upsert"]
  /\ UNCHANGED <<now, link, session, report, row, stripe, events, before, signed, torn>>

\* upsert_subscription(): the select, of what the transaction saw at first, or
\* of the row as it is, when set_stripe_customer() has committed in between.
SelectRow(r) ==
  /\ At(r, "webhook", "upsert")
  /\ \E old \in {req[r].old, row[Buyer(r)]} :
       req' = [req EXCEPT ![r].old = old,
                          ![r].pc = IF old = None THEN "insert" ELSE "update"]
  /\ UNCHANGED <<now, link, session, report, row, stripe, events, before, signed, torn>>

\* What the flush makes of a row: the columns that differ from those selected.
Flushed(current, old, new) ==
  [c \in DOMAIN new |-> IF new[c] = old[c] THEN current[c] ELSE new[c]]

\* upsert_subscription(): the commit.  A second insert is an IntegrityError,
\* which fails the request.
CommitRow(r) ==
  LET m == Buyer(r) IN
  /\ req[r].kind = "webhook"
  /\ \/ /\ req[r].pc = "insert" /\ row[m] # None
        /\ Again(r, req[r].fails) /\ UNCHANGED <<row, torn>>
     \/ /\ req[r].pc = "insert" /\ row[m] = None
        /\ Goto(r, "welcome") /\ UNCHANGED torn
        /\ row' = [row EXCEPT ![m] = req[r].seen]
     \/ /\ req[r].pc = "update"
        /\ Goto(r, "welcome")
        /\ row' = [row EXCEPT ![m] = Flushed(@, req[r].old, req[r].seen)]
        /\ torn' = IF row[m] = req[r].old THEN torn ELSE torn \cup {m}
  /\ UNCHANGED <<now, link, session, report, stripe, events, before, signed>>

\* The sign-in link for the buyer, by mail, which may fail unnoticed.
Welcome(r) ==
  /\ At(r, "webhook", "welcome")
  /\ \E mailed \in BOOLEAN : NewLink(r, Buyer(r), WelcomeTTL, mailed)
  /\ Succeed(r)
  /\ UNCHANGED <<now, session, report, row, stripe, events, before, signed, torn>>

\* Mutant of Updated: the end of the period only moves forward.
Updated_Forward(old, event) ==
  IF old = None \/ old.sub # event.of.sub THEN old
  ELSE [event.of EXCEPT !.end = IF old.end > @ THEN old.end ELSE @]

\* The row after an event: of a failed payment only the status counts, and an
\* event of another subscription, or of none yet, changes nothing.
Updated(old, event) ==
  IF old = None \/ old.sub # event.of.sub THEN old
  ELSE CASE event.type = "updated"        -> event.of
         [] event.type = "deleted"        -> [event.of EXCEPT !.status = "canceled"]
         [] event.type = "payment_failed" -> [old EXCEPT !.status = "past_due"]

\* update_subscription_status(): one commit.
UpdateRow(r) ==
  /\ At(r, "webhook", "start") /\ req[r].arg.type # "checkout"
  /\ row' = [row EXCEPT ![Buyer(r)] = Updated(@, req[r].arg)]
  /\ Succeed(r)
  /\ UNCHANGED <<now, link, session, report, stripe, events, before, signed, torn>>

-----------------------------------------------------------------------------
(* Stripe and time.                                                        *)

Report(types, snapshot) ==
  /\ stripe' = [stripe EXCEPT ![snapshot.sub] = snapshot]
  /\ events' = events \cup [type : types, of : {snapshot}]

\* A subscription is bought, or not renewed, or renewed with or without
\* success, or paid after all, or cancelled.
StripeChanges(s) ==
  /\ \/ /\ stripe[s] = None
        /\ Report({"checkout", "updated"},
                  [sub |-> s, status |-> "active", end |-> now + Period])
     \/ /\ stripe[s] # None /\ stripe[s].status = "active" /\ now >= stripe[s].end
        /\ \/ Report({"updated"}, [stripe[s] EXCEPT !.end = @ + Period])
           \/ Report({"updated", "payment_failed"},
                     [sub |-> s, status |-> "past_due", end |-> stripe[s].end + Period])
     \/ /\ stripe[s] # None /\ stripe[s].status = "past_due"
        /\ Report({"updated"}, [stripe[s] EXCEPT !.status = "active"])
     \/ /\ stripe[s] # None /\ stripe[s].status # "canceled"
        /\ Report({"deleted"}, [stripe[s] EXCEPT !.status = "canceled"])
  /\ UNCHANGED <<now, req, link, session, report, row, before, signed, torn>>

Tick == /\ now < MaxTime
        /\ now' = now + 1
        /\ UNCHANGED <<req, link, session, report, row, stripe, events, before, signed,
                       torn>>

Init ==
  \E scene \in Scenes :
    /\ now = scene.start
    /\ req = [r \in Requests |-> Blank(scene.kinds[r], "idle")]
    /\ link = [r \in Requests |-> None]
    /\ session = [c \in Tokens |->
                    IF c \in scene.users THEN [user |-> c, expires |-> now + SessionTTL]
                    ELSE None]
    /\ \E c \in Clients :
         report = [p \in Ids |-> IF p # Old THEN None
                                 ELSE [owner |-> None, client |-> c, limited |-> TRUE,
                                       at |-> 0, by |-> None]]
    /\ row = [m \in Mailboxes |-> None]
    /\ stripe = [s \in scene.subs |-> None]
    /\ events = {}
    /\ before = [r \in Requests |-> {}]
    /\ signed = [r \in Requests |-> None]
    /\ torn = {}

AuthStep(r) == AuthSend(r) \/ SelectLink(r) \/ MarkLink(r) \/ SignIn(r) \/ Logout(r)
ReportStep(r) == \/ ResolveAnalyze(r) \/ CountClient(r) \/ CountGlobal(r) \/ CreateReport(r)
                 \/ ResolveNotify(r) \/ SelectReport(r) \/ UpdateReport(r)
WebhookStep(r) == \/ FindUser(r) \/ Retrieve(r) \/ SelectRow(r) \/ CommitRow(r)
                  \/ Welcome(r) \/ UpdateRow(r)

Next == \/ \E r \in Requests :
             Begin(r) \/ Dies(r) \/ AuthStep(r) \/ ReportStep(r) \/ WebhookStep(r)
        \/ \E s \in DOMAIN stripe : StripeChanges(s)
        \/ Tick

Spec == Init /\ [][Next]_vars

\* Stripe delivers an event until it is answered, and not every attempt fails.
FairSpec == Spec /\ \A r \in Requests : WF_vars(WebhookStep(r))

-----------------------------------------------------------------------------
(* Properties                                                              *)

\* A link signs in once: two requests that both signed in with it were served
\* at the same time.  The session is that of the mailbox it was sent to.
LinkOnce ==
  \A r \in Requests, l \in Requests :
    signed[r] = l =>
      /\ \A q \in before[r] : signed[q] # l
      /\ link[l].mailed /\ link[l].used
      /\ session[r] # None => session[r].user = link[l].mail

\* The quota holds for requests that follow one another: of the day before a
\* free report, fewer than the limit were made by requests that were over when
\* its own began.  The limit is exceeded by simultaneous requests only.
FreeBefore(r, clients) ==
  {q \in before[r] \cup {Old} : /\ report[q] # None
                                /\ report[q].limited
                                /\ report[q].at >= report[r].at - Day
                                /\ report[q].client \in clients}

QuotaInSequence ==
  \A r \in Requests :
    (report[r] # None /\ report[r].limited) =>
      /\ PerClient > 0 => Cardinality(FreeBefore(r, {report[r].client})) < PerClient
      /\ GlobalCap > 0 => Cardinality(FreeBefore(r, Clients)) < GlobalCap

\* A report changes hands only between claims that were served at the same
\* time: the request that made it somebody's was not over when the one that
\* takes it began.
OwnerKept ==
  [][\A p \in Ids :
       (report[p] # None /\ report[p].owner # None
         /\ report'[p].owner # report[p].owner) =>
           report[p].by \notin before[report'[p].by]]_vars

\* Late, repeated and reordered events give no access that Stripe never
\* granted: there was a moment at which the subscription was active until
\* after now.  Only a checkout delivered again at the same time as another
\* event can, whose flush leaves columns of both in the row.
AccessWasGranted ==
  \A m \in Mailboxes \ torn :
    Subscribed(m) => \E e \in events : /\ MailOf[e.of.sub] = m
                                       /\ e.of.status \in {"active", "trialing"}
                                       /\ e.of.end > now

\* A delivery of a completed checkout ends with a subscription of the buyer,
\* though two deliveries insert at once, Stripe fails, or workers die.
CheckoutGrants ==
  \A m \in Mailboxes :
    (\E r \in Requests : /\ At(r, "webhook", "start")
                         /\ req[r].arg.type = "checkout"
                         /\ Buyer(r) = m) ~> row[m] # None
=============================================================================
