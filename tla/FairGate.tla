------------------------------ MODULE FairGate ------------------------------
(***************************************************************************)
(* service/fair_queue.py: the round-robin gate that hands out at most      *)
(* Capacity slots.  Each owner (a report) has a FIFO queue of futures, and *)
(* `rotation` is the order in which owners take turns.  acquire() and      *)
(* release() only edit the queues and the counter and wake the dispatcher  *)
(* task; the dispatcher alone grants.                                      *)
(*                                                                         *)
(* The gate lives on one asyncio event loop.  The dispatcher never awaits  *)
(* between two grants, so while `worker` is "running" no other callback of *)
(* this loop can step: every other action is guarded by LoopFree.          *)
(***************************************************************************)
EXTENDS Integers, Sequences, FiniteSets

CONSTANTS Calls,     \* gated calls; a call awaits one future at a time
          Owners,    \* report ids
          OwnerOf,   \* the owner a call passes to acquire()
          Capacity   \* slots of the gate

ASSUME GateAssumption == /\ Capacity \in Nat \ {0}
                         /\ IsFiniteSet(Calls)
                         /\ OwnerOf \in [Calls -> Owners]

VARIABLES queue,     \* _owners: owner -> FIFO of futures (no key = <<>>)
          rotation,  \* _rotation: the owners with queued futures, in turn order
          running,   \* _running
          wakeup,    \* _wakeup.is_set()
          worker,    \* the dispatcher task
          fut,       \* the future of each call
          since      \* history: owners granted since o last had its turn

gateVars == <<queue, rotation, running, wakeup, worker, fut, since>>

WorkerState == {"none",      \* _worker_task is None
                "ready",     \* created, first step scheduled
                "running",   \* inside the loop, between two awaits
                "asleep"}    \* awaiting _wakeup.wait()

FutureState == {"free",
                "pending",    \* in its queue
                "cancelled",  \* in its queue, and its task is gone
                "granted",    \* set_result() was called, its task not resumed yet
                "held",       \* acquire() has returned
                "lost"}       \* granted, and its task was cancelled before it resumed

GateTypeOK == /\ queue \in [Owners -> Seq(Calls)]
              /\ rotation \in Seq(Owners)
              /\ running \in Int
              /\ wakeup \in BOOLEAN
              /\ worker \in WorkerState
              /\ fut \in [Calls -> FutureState]
              /\ since \in [Owners -> SUBSET Owners]

Elements(s) == {s[i] : i \in DOMAIN s}

GateInit == /\ queue = [o \in Owners |-> <<>>]
            /\ rotation = <<>>
            /\ running = 0
            /\ wakeup = FALSE
            /\ worker = "none"
            /\ fut = [c \in Calls |-> "free"]
            /\ since = [o \in Owners |-> {}]

LoopFree == worker # "running"

-----------------------------------------------------------------------------
(* Operations called from other tasks of the loop.                         *)

\* Mutant of Acquire: the call itself is put in the rotation.
Acquire_RotatesCall(c) ==
  LET o == OwnerOf[c] IN
  /\ LoopFree
  /\ fut[c] = "free"
  /\ fut' = [fut EXCEPT ![c] = "pending"]
  /\ queue' = [queue EXCEPT ![o] = Append(@, c)]
  /\ rotation' = Append(rotation, c)
  /\ worker' = IF worker = "none" THEN "ready" ELSE worker
  /\ wakeup' = TRUE
  /\ UNCHANGED <<running, since>>

\* Mutant of Acquire: the newest call of an owner is queued first.
Acquire_LIFO(c) ==
  LET o == OwnerOf[c] IN
  /\ LoopFree
  /\ fut[c] = "free"
  /\ fut' = [fut EXCEPT ![c] = "pending"]
  /\ queue' = [queue EXCEPT ![o] = <<c>> \o @]
  /\ IF o \in Elements(rotation)
       THEN UNCHANGED <<rotation, since>>
       ELSE /\ rotation' = Append(rotation, o)
            /\ since' = [since EXCEPT ![o] = {}]
  /\ worker' = IF worker = "none" THEN "ready" ELSE worker
  /\ wakeup' = TRUE
  /\ UNCHANGED running

\* acquire(), up to `await fut`.
Acquire(c) ==
  LET o == OwnerOf[c] IN
  /\ LoopFree
  /\ fut[c] = "free"
  /\ fut' = [fut EXCEPT ![c] = "pending"]
  /\ queue' = [queue EXCEPT ![o] = Append(@, c)]
  /\ IF o \in Elements(rotation)
       THEN UNCHANGED <<rotation, since>>
       ELSE /\ rotation' = Append(rotation, o)
            /\ since' = [since EXCEPT ![o] = {}]
  /\ worker' = IF worker = "none" THEN "ready" ELSE worker
  /\ wakeup' = TRUE
  /\ UNCHANGED running

\* The task in acquire() is cancelled.  A pending future is cancelled where it
\* stands, and stays in its queue until the dispatcher meets it.  A granted one
\* is not given back: CancelledError leaves acquire() before the `try` of run().
Cancel(c) ==
  /\ LoopFree
  /\ fut[c] \in {"pending", "granted"}
  /\ fut' = [fut EXCEPT ![c] = IF @ = "pending" THEN "cancelled" ELSE "lost"]
  /\ UNCHANGED <<queue, rotation, running, wakeup, worker, since>>

\* The task of a granted future resumes, and acquire() returns.
Resume(c) ==
  /\ LoopFree
  /\ fut[c] = "granted"
  /\ fut' = [fut EXCEPT ![c] = "held"]
  /\ UNCHANGED <<queue, rotation, running, wakeup, worker, since>>

\* Mutant of Release: the dispatcher is not woken.
Release_NoWake(c) ==
  /\ LoopFree
  /\ fut[c] = "held"
  /\ fut' = [fut EXCEPT ![c] = "free"]
  /\ running' = running - 1
  /\ UNCHANGED <<queue, rotation, wakeup, worker, since>>

\* release() by the call that holds the slot.
Release(c) ==
  /\ LoopFree
  /\ fut[c] = "held"
  /\ fut' = [fut EXCEPT ![c] = "free"]
  /\ running' = running - 1
  /\ wakeup' = TRUE
  /\ UNCHANGED <<queue, rotation, worker, since>>

-----------------------------------------------------------------------------
(* The dispatcher task.                                                    *)

\* Its first step, or its return from _wakeup.wait().
DispatchBegin ==
  /\ worker = "ready" \/ (worker = "asleep" /\ wakeup)
  /\ worker' = "running"
  /\ UNCHANGED <<queue, rotation, running, wakeup, fut, since>>

\* Mutant of MayGrant: one slot too many.
MayGrant_OffByOne == running <= Capacity /\ rotation # <<>>

MayGrant == running < Capacity /\ rotation # <<>>

DispatchSleep ==
  /\ worker = "running"
  /\ ~MayGrant
  /\ wakeup' = FALSE
  /\ worker' = "asleep"
  /\ UNCHANGED <<queue, rotation, running, fut, since>>

\* Mutant of TakeTurn: an owner with nothing left stays in the rotation.
TakeTurn_AlwaysRotates(o) ==
  /\ queue' = [queue EXCEPT ![o] = Tail(@)]
  /\ rotation' = Append(Tail(rotation), o)

\* Mutant of TakeTurn: an owner keeps its turn while it has calls.
TakeTurn_KeepsTurn(o) ==
  LET rest == Tail(queue[o]) IN
  /\ queue' = [queue EXCEPT ![o] = rest]
  /\ rotation' = IF rest = <<>> THEN Tail(rotation) ELSE rotation

\* Owner o has its turn: its head future is popped, and o goes to the back of
\* the rotation if it has more.
TakeTurn(o) ==
  LET rest == Tail(queue[o]) IN
  /\ queue' = [queue EXCEPT ![o] = rest]
  /\ rotation' = IF rest = <<>> THEN Tail(rotation)
                                ELSE Append(Tail(rotation), o)

DispatchGrant ==
  LET o == Head(rotation)
      c == Head(queue[o])
  IN
  /\ worker = "running"
  /\ MayGrant
  /\ queue[o] # <<>>
  /\ fut[c] = "pending"
  /\ TakeTurn(o)
  /\ running' = running + 1
  /\ fut' = [fut EXCEPT ![c] = "granted"]
  /\ since' = [p \in Owners |-> IF p = o THEN {} ELSE since[p] \cup {o}]
  /\ UNCHANGED <<wakeup, worker>>

\* Mutant of DispatchSkip: a cancelled future takes a slot.
DispatchSkip_TakesSlot ==
  LET o == Head(rotation)
      c == Head(queue[o])
  IN
  /\ worker = "running"
  /\ MayGrant
  /\ queue[o] # <<>>
  /\ fut[c] # "pending"
  /\ TakeTurn(o)
  /\ running' = running + 1
  /\ fut' = [fut EXCEPT ![c] = "free"]
  /\ since' = [since EXCEPT ![o] = {}]
  /\ UNCHANGED <<wakeup, worker>>

\* A future already cancelled is dropped without taking a slot (the turn of
\* its owner is spent all the same).
DispatchSkip ==
  LET o == Head(rotation)
      c == Head(queue[o])
  IN
  /\ worker = "running"
  /\ MayGrant
  /\ queue[o] # <<>>
  /\ fut[c] # "pending"
  /\ TakeTurn(o)
  /\ fut' = [fut EXCEPT ![c] = "free"]
  /\ since' = [since EXCEPT ![o] = {}]
  /\ UNCHANGED <<running, wakeup, worker>>

\* The process that holds the gate dies; a new one builds a new gate.
GateReset ==
  /\ queue' = [o \in Owners |-> <<>>]
  /\ rotation' = <<>>
  /\ running' = 0
  /\ wakeup' = FALSE
  /\ worker' = "none"
  /\ fut' = [c \in Calls |-> "free"]
  /\ since' = [o \in Owners |-> {}]

Dispatch == DispatchBegin \/ DispatchSleep \/ DispatchGrant \/ DispatchSkip

GateNext == \/ \E c \in Calls : Acquire(c) \/ Cancel(c) \/ Resume(c) \/ Release(c)
            \/ Dispatch
            \/ GateReset

GateSpec == GateInit /\ [][GateNext]_gateVars

\* asyncio runs every scheduled callback, so a granted task resumes unless it
\* is cancelled first; and the work of a call that did resume is taken to end,
\* upon which the `finally` of run() releases.  Nothing gives a lost slot back.
GateFairness == /\ WF_gateVars(Dispatch)
                /\ \A c \in Calls : WF_gateVars(Resume(c)) /\ WF_gateVars(Release(c))

GateFairSpec == GateSpec /\ GateFairness

-----------------------------------------------------------------------------
(* Properties                                                              *)

\* Calls whose slot was not given back.
Granted == {c \in Calls : fut[c] \in {"granted", "held", "lost"}}
Lost    == {c \in Calls : fut[c] = "lost"}
Queued  == {c \in Calls : fut[c] \in {"pending", "cancelled"}}

Injective(s) == \A i, j \in DOMAIN s : s[i] = s[j] => i = j

\* The counter _running is exactly the number of granted futures whose slot
\* was not given back, and never exceeds the capacity: neither a cancelled
\* future nor a release in the middle of a batch may make it drift.  A lost
\* slot is counted for ever: it makes the gate smaller, never larger.
SlotAccounting == /\ running = Cardinality(Granted)
                  /\ running <= Capacity

\* An owner stands in the rotation exactly once while it has queued futures
\* and not at all otherwise (so `if not queue` in the loop is dead code), and
\* every queued future stands exactly once, in its own owner's queue.
RotationExact ==
  /\ Injective(rotation)
  /\ Elements(rotation) = {o \in Owners : queue[o] # <<>>}
  /\ \A o \in Owners :
       /\ Injective(queue[o])
       /\ Elements(queue[o]) = {c \in Queued : OwnerOf[c] = o}

\* The wake-up event is never lost: whenever the dispatcher sleeps with the
\* event clear, or was never started, there is nothing it could grant.
NoLostWakeup ==
  /\ worker = "asleep" /\ ~wakeup => ~MayGrant
  /\ worker = "none" => rotation = <<>>

\* p was granted since o's last turn only if o's next turn comes before p's.
TurnOrder ==
  \A i, j \in DOMAIN rotation :
     rotation[j] \in since[rotation[i]] => i < j

GrantStep(o) == \E c \in Calls : /\ OwnerOf[c] = o
                                 /\ fut[c] = "pending"
                                 /\ fut'[c] = "granted"

\* Round robin: no owner is granted twice between two turns of an owner that
\* waits in the rotation, however many calls it has queued.
RoundRobin ==
  [][\A o, p \in Owners :
        (GrantStep(p) /\ o # p /\ o \in Elements(rotation))
           => p \notin since[o]]_gateVars

\* The calls of one owner are served in the order they came: a call joins its
\* queue behind every call that waits there, and none is granted while an
\* earlier uncancelled call of its owner still waits.
OwnerFIFO ==
  [][\A o \in Owners :
       /\ \A i, j \in DOMAIN queue'[o] :
             (fut[queue'[o][i]] = "pending" /\ fut[queue'[o][j]] = "free")
                => i < j
       /\ \A i, j \in DOMAIN queue[o] :
             (/\ i < j
              /\ fut[queue[o][j]] = "pending"
              /\ fut'[queue[o][j]] = "granted")
                => fut[queue[o][i]] # "pending"]_gateVars

\* As long as one slot is not lost, no queued call starves, though other owners
\* (and its own) keep submitting and cancelling calls for ever.  (Once Capacity
\* grants have met a cancellation, nobody is served until the process restarts.)
NoStarvation ==
  \A c \in Calls :
     [](Cardinality(Lost) < Capacity) => (fut[c] = "pending" ~> fut[c] # "pending")
=============================================================================
