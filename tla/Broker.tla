------------------------------- MODULE Broker -------------------------------
(***************************************************************************)
(* concurrency_broker.py with its clients (service/broker_client.py): the  *)
(* composition of one gate (one entry of GATES) with the connections of    *)
(* the web workers.  A call is one BrokerGateClient.run(): one connection, *)
(* one handler task, one acquire() on the gate.                            *)
(*                                                                         *)
(* The broker's handlers and its gate run on one event loop: they step     *)
(* only when the dispatcher is between batches (LoopFree).  The clients    *)
(* are other processes and step at any time.                               *)
(***************************************************************************)
EXTENDS FairGate

CONSTANTS MayAbandon,   \* may a worker die while its call is queued?
          MayRestart    \* may the broker die and be restarted by systemd?

ASSUME BrokerAssumption == MayAbandon \in BOOLEAN /\ MayRestart \in BOOLEAN

VARIABLES up,       \* the broker process listens
          client,   \* BrokerGateClient.run() of each call
          link,     \* its connection
          reply,    \* {"status": "granted"} written and not yet read
          handler,  \* handle_connection()
          acq,      \* acquire_task
          disc      \* disconnect_task is done

brokerVars == <<up, client, link, reply, handler, acq, disc>>
vars == <<gateVars, brokerVars>>

ClientState == {"idle", "queued", "working"}

LinkState == {"none",
              "open",
              "silent",   \* the client left before it wrote its request
              "hungup",   \* the client released, or left: the broker can read it
              "broken"}   \* the broker died under the client

HandlerState == {"none",
                 "reading",   \* awaiting the request line
                 "racing",    \* asyncio.wait({acquire_task, disconnect_task})
                 "reaping",   \* acquire_task cancelled, awaiting it
                 "holding"}   \* granted, awaiting release or EOF

TaskState == {"none", "created", "waiting", "done", "cancelling", "cancelled"}

TypeOK == /\ GateTypeOK
          /\ up \in BOOLEAN
          /\ client \in [Calls -> ClientState]
          /\ link \in [Calls -> LinkState]
          /\ reply \in [Calls -> BOOLEAN]
          /\ handler \in [Calls -> HandlerState]
          /\ acq \in [Calls -> TaskState]
          /\ disc \in [Calls -> BOOLEAN]

Init == /\ GateInit
        /\ up = TRUE
        /\ client = [c \in Calls |-> "idle"]
        /\ link = [c \in Calls |-> "none"]
        /\ reply = [c \in Calls |-> FALSE]
        /\ handler = [c \in Calls |-> "none"]
        /\ acq = [c \in Calls |-> "none"]
        /\ disc = [c \in Calls |-> FALSE]

-----------------------------------------------------------------------------
(* Client side: BrokerGateClient.run().                                    *)

\* Connect and write the request.  A call's identity is used again once the
\* broker has forgotten its last connection.
Connect(c) ==
  /\ up
  /\ client[c] = "idle" /\ link[c] = "none"
  /\ handler[c] = "none" /\ fut[c] = "free"
  /\ client' = [client EXCEPT ![c] = "queued"]
  /\ link' = [link EXCEPT ![c] = "open"]
  /\ handler' = [handler EXCEPT ![c] = "reading"]
  /\ UNCHANGED <<gateVars, up, reply, acq, disc>>

\* Connect, and die before the request is written.
ConnectAndDie(c) ==
  /\ up
  /\ client[c] = "idle" /\ link[c] = "none"
  /\ handler[c] = "none" /\ fut[c] = "free"
  /\ link' = [link EXCEPT ![c] = "silent"]
  /\ handler' = [handler EXCEPT ![c] = "reading"]
  /\ UNCHANGED <<gateVars, up, client, reply, acq, disc>>

\* The grant line is read and coro_fn() starts.
StartWork(c) ==
  /\ client[c] = "queued"
  /\ reply[c]
  /\ client' = [client EXCEPT ![c] = "working"]
  /\ reply' = [reply EXCEPT ![c] = FALSE]
  /\ UNCHANGED <<gateVars, up, link, handler, acq, disc>>

\* readline() returns EOF before a grant: ConnectionError.
ClosedBeforeGrant(c) ==
  /\ client[c] = "queued"
  /\ link[c] = "broken" /\ ~reply[c]
  /\ client' = [client EXCEPT ![c] = "idle"]
  /\ link' = [link EXCEPT ![c] = "none"]
  /\ UNCHANGED <<gateVars, up, reply, handler, acq, disc>>

\* The client's end is closed: by its release line, by its close, or by the
\* death of its process.
HangUp(c) ==
  /\ client' = [client EXCEPT ![c] = "idle"]
  /\ link' = [link EXCEPT ![c] = IF @ = "open" THEN "hungup" ELSE "none"]
  /\ reply' = [reply EXCEPT ![c] = FALSE]
  /\ UNCHANGED <<gateVars, up, handler, acq, disc>>

\* coro_fn() returned or raised, or the worker died during it: the broker
\* reads a release line, or EOF.
Finish(c) == client[c] = "working" /\ HangUp(c)

\* The worker dies while the call is queued.
Abandon(c) == MayAbandon /\ client[c] = "queued" /\ HangUp(c)

-----------------------------------------------------------------------------
(* Broker side: handle_connection() and its two tasks.                     *)

CloseHandler(c) ==
  /\ handler' = [handler EXCEPT ![c] = "none"]
  /\ acq' = [acq EXCEPT ![c] = "none"]
  /\ disc' = [disc EXCEPT ![c] = FALSE]
  /\ link' = [link EXCEPT ![c] = "none"]
  /\ UNCHANGED <<up, client, reply>>

\* The request line arrives: both tasks are created.  EOF instead: return.
ReadRequest(c) ==
  /\ LoopFree
  /\ handler[c] = "reading"
  /\ IF link[c] = "silent"
       THEN CloseHandler(c)
       ELSE /\ handler' = [handler EXCEPT ![c] = "racing"]
            /\ acq' = [acq EXCEPT ![c] = "created"]
            /\ UNCHANGED <<up, client, link, reply, disc>>
  /\ UNCHANGED gateVars

\* First step of acquire_task: FairGate.acquire() up to its await.
AcquireStart(c) ==
  /\ acq[c] = "created"
  /\ Acquire(c)
  /\ acq' = [acq EXCEPT ![c] = "waiting"]
  /\ UNCHANGED <<up, client, link, reply, handler, disc>>

\* acquire_task resumes after the dispatcher set its future, and returns.
AcquireResume(c) ==
  /\ acq[c] = "waiting"
  /\ Resume(c)
  /\ acq' = [acq EXCEPT ![c] = "done"]
  /\ UNCHANGED <<up, client, link, reply, handler, disc>>

\* reader.read(1) of disconnect_task returns: the client hung up.
DisconnectSeen(c) ==
  /\ LoopFree
  /\ handler[c] = "racing" /\ link[c] = "hungup" /\ ~disc[c]
  /\ disc' = [disc EXCEPT ![c] = TRUE]
  /\ UNCHANGED <<gateVars, up, client, link, reply, handler, acq>>

\* Mutant of HandlerGrant: the grant is written once the call is queued.
HandlerGrant_Early(c) ==
  /\ LoopFree
  /\ handler[c] = "racing" /\ acq[c] \in {"waiting", "done"}
  /\ handler' = [handler EXCEPT ![c] = "holding"]
  /\ disc' = [disc EXCEPT ![c] = FALSE]
  /\ reply' = [reply EXCEPT ![c] = (link[c] = "open")]
  /\ UNCHANGED <<gateVars, up, client, link, acq>>

\* Mutant of HandlerGrant: the grant is never written.
HandlerGrant_NoReply(c) ==
  /\ LoopFree
  /\ handler[c] = "racing" /\ acq[c] = "done"
  /\ handler' = [handler EXCEPT ![c] = "holding"]
  /\ disc' = [disc EXCEPT ![c] = FALSE]
  /\ UNCHANGED <<gateVars, up, client, link, reply, acq>>

\* asyncio.wait() returns with acquire_task in `done`: cancel the other task,
\* write the grant.
HandlerGrant(c) ==
  /\ LoopFree
  /\ handler[c] = "racing" /\ acq[c] = "done"
  /\ handler' = [handler EXCEPT ![c] = "holding"]
  /\ disc' = [disc EXCEPT ![c] = FALSE]
  /\ reply' = [reply EXCEPT ![c] = (link[c] = "open")]
  /\ UNCHANGED <<gateVars, up, client, link, acq>>

\* asyncio.wait() returns with only disconnect_task done: acquire_task is
\* cancelled.  Its future is cancelled with it if it is still pending; if the
\* dispatcher has just granted it, the task alone is, and the slot is lost.
\* (The task has been started: call_soon runs its first step before
\* disconnect_task's.)
HandlerCancel(c) ==
  /\ handler[c] = "racing" /\ acq[c] = "waiting" /\ disc[c]
  /\ handler' = [handler EXCEPT ![c] = "reaping"]
  /\ acq' = [acq EXCEPT ![c] = "cancelling"]
  /\ Cancel(c)
  /\ UNCHANGED <<up, client, link, reply, disc>>

\* CancelledError is thrown into acquire() at `await fut`: nothing there
\* catches it, whether the future was cancelled or granted.
AcquireThrow(c) ==
  /\ LoopFree
  /\ acq[c] = "cancelling"
  /\ acq' = [acq EXCEPT ![c] = "cancelled"]
  /\ UNCHANGED <<gateVars, up, client, link, reply, handler, disc>>

\* Mutant of HandlerReap: the slot is given back even if none was taken.
HandlerReap_AlwaysReleases(c) ==
  /\ LoopFree
  /\ handler[c] = "reaping" /\ acq[c] \in {"done", "cancelled"}
  /\ running' = running - 1
  /\ wakeup' = TRUE
  /\ UNCHANGED <<queue, rotation, worker, fut, since>>
  /\ CloseHandler(c)

\* `await acquire_task` after the cancel: CancelledError returns, anything
\* else gives the slot back first.
HandlerReap(c) ==
  /\ LoopFree
  /\ handler[c] = "reaping" /\ acq[c] \in {"done", "cancelled"}
  /\ IF acq[c] = "done" THEN Release(c) ELSE UNCHANGED gateVars
  /\ CloseHandler(c)

\* Mutant of HandlerRelease: the handler does not wait for the client.
HandlerRelease_NoWait(c) ==
  /\ handler[c] = "holding"
  /\ Release(c)
  /\ CloseHandler(c)

\* Mutant of HandlerRelease: the connection is closed, the slot kept.
HandlerRelease_KeepsSlot(c) ==
  /\ LoopFree
  /\ handler[c] = "holding" /\ link[c] = "hungup"
  /\ CloseHandler(c)
  /\ UNCHANGED gateVars

\* The release line or EOF is read: `finally` frees the slot.
HandlerRelease(c) ==
  /\ handler[c] = "holding" /\ link[c] = "hungup"
  /\ Release(c)
  /\ CloseHandler(c)

DispatcherStep == Dispatch /\ UNCHANGED brokerVars

-----------------------------------------------------------------------------
(* The broker process.                                                     *)

BrokerDies ==
  /\ MayRestart
  /\ up
  /\ up' = FALSE
  /\ GateReset
  /\ handler' = [c \in Calls |-> "none"]
  /\ acq' = [c \in Calls |-> "none"]
  /\ disc' = [c \in Calls |-> FALSE]
  /\ link' = [c \in Calls |->
                IF link[c] \in {"open", "broken"} THEN "broken" ELSE "none"]
  /\ UNCHANGED <<client, reply>>

\* systemd Restart=always; main() unlinks the stale socket and serves anew.
BrokerStarts ==
  /\ ~up
  /\ up' = TRUE
  /\ UNCHANGED <<gateVars, client, link, reply, handler, acq, disc>>

ClientStep(c) == \/ Connect(c) \/ ConnectAndDie(c)
                 \/ StartWork(c) \/ ClosedBeforeGrant(c)
                 \/ Finish(c) \/ Abandon(c)

HandlerStep(c) == \/ ReadRequest(c) \/ AcquireStart(c) \/ AcquireResume(c)
                  \/ DisconnectSeen(c) \/ HandlerGrant(c) \/ HandlerCancel(c)
                  \/ AcquireThrow(c) \/ HandlerReap(c) \/ HandlerRelease(c)

Next == \/ \E c \in Calls : ClientStep(c) \/ HandlerStep(c)
        \/ DispatcherStep
        \/ BrokerDies
        \/ BrokerStarts

Spec == Init /\ [][Next]_vars

\* Every scheduled callback of the broker's loop runs: asyncio's ready queue is
\* FIFO, and a callback that waits there is held back only while another one
\* runs, hence the strong form.  A client reads what it was sent; systemd
\* restarts the broker; and coro_fn() is taken to end, which a page that hangs
\* does not (see Hang in Scrape).  No client is obliged to connect, or to die.
Fairness ==
  /\ WF_vars(DispatcherStep)
  /\ WF_vars(BrokerStarts)
  /\ \A c \in Calls : /\ SF_vars(HandlerStep(c))
                      /\ WF_vars(StartWork(c) \/ ClosedBeforeGrant(c) \/ Finish(c))

FairSpec == Spec /\ Fairness

-----------------------------------------------------------------------------
(* Properties                                                              *)

Connected == {c \in Calls : client[c] = "working" /\ link[c] = "open"}

\* A call at work behind a live connection has a granted slot and a handler
\* that waits for its release: the broker never frees a slot in use.
WorkHoldsSlot ==
  \A c \in Connected : fut[c] = "held" /\ handler[c] = "holding"

\* No more calls are at work behind this broker than the gate has slots.
WithinLimit ==
  Cardinality({c \in Calls : client[c] = "working" /\ link[c] # "broken"})
     <= Capacity

\* No more calls are at work at all than the gate has slots: the limits are
\* "true process-wide totals shared by every worker"
\* (concurrency_broker.py:5-6).  Fails across a restart of the broker, whose
\* new gate knows nothing of the calls still at work.
ProcessWideTotal ==
  Cardinality({c \in Calls : client[c] = "working"}) <= Capacity

\* A call that has a slot and whose handler is gone never gives it back: the
\* slot is lost until the broker restarts ("the broker frees the slot
\* immediately", concurrency_broker.py:25).
NoSlotLeak == \A c \in Granted : handler[c] # "none"

\* A handler that holds a slot has a client, or a hang-up to read: it cannot
\* wait for ever on a connection that will say nothing more.
HolderIsWatched ==
  \A c \in Calls : handler[c] = "holding" =>
     \/ link[c] = "hungup"
     \/ link[c] = "open" /\ (client[c] = "working" \/ reply[c])

\* As long as no client dies while it queues and all work ends, every request
\* is answered: a queued call goes to work, or learns that the broker died.
EveryCallServed == \A c \in Calls : client[c] = "queued" ~> client[c] # "queued"

\* Under the same conditions, the slot of a call whose client is gone comes back.
SlotComesBack ==
  \A c \in Calls : (c \in Granted /\ link[c] # "open") ~> fut[c] = "free"

Pool == INSTANCE SlotPool WITH held <- Granted, using <- Connected

\* The broker and its clients implement the slot pool.
ImplementsSlotPool == Pool!PoolSpec

\* The broker uses the gate only as FairGate allows: what is shown of the
\* gate holds inside the broker.
ImplementsGate == GateSpec
=============================================================================
