---------------------------- MODULE BrokerProofs ----------------------------
(***************************************************************************)
(* The broker with its clients, for every set of calls and owners and      *)
(* every capacity: it uses the gate as FairGate allows (so the theorems of *)
(* FairGateProofs hold inside it), it implements the slot pool, and no     *)
(* more calls work behind it than the gate has slots.                      *)
(*                                                                         *)
(* The invariant relates, for each call, the two ends of its connection    *)
(* (ClientInv), its handler and tasks (HandlerInv) and, where no worker    *)
(* may die while queued, the slot to the handler that will free it         *)
(* (SlotInv).                                                              *)
(***************************************************************************)
EXTENDS Broker, FairGateProofs

ClientInv(c) ==
  /\ client[c] = "idle"    => link[c] \in {"none", "silent", "hungup"}
  /\ client[c] = "queued"  => link[c] \in {"open", "broken"}
  /\ client[c] = "working" => link[c] \in {"open", "broken"}
  /\ client[c] = "working" /\ link[c] = "open" => handler[c] = "holding"
  /\ reply[c] => /\ client[c] = "queued"
                 /\ link[c] = "broken" \/ handler[c] = "holding"

HandlerInv(c) ==
  /\ handler[c] = "none" =>
       acq[c] = "none" /\ ~disc[c] /\ link[c] \in {"none", "broken"}
  /\ handler[c] = "reading" =>
       /\ acq[c] = "none" /\ ~disc[c] /\ fut[c] = "free"
       /\ link[c] \in {"open", "silent", "hungup"}
  /\ handler[c] = "racing" =>
       /\ link[c] \in {"open", "hungup"}
       /\ disc[c] => link[c] = "hungup"
       /\ \/ acq[c] = "created" /\ fut[c] = "free"
          \/ acq[c] = "waiting" /\ fut[c] \in {"pending", "granted"}
          \/ acq[c] = "done"    /\ fut[c] = "held"
  /\ handler[c] = "reaping" =>
       acq[c] \in {"cancelling", "cancelled"} /\ link[c] = "hungup"
  /\ handler[c] = "holding" =>
       /\ acq[c] = "done" /\ fut[c] = "held" /\ ~disc[c]
       /\ link[c] = "hungup" \/ (link[c] = "open" /\ (client[c] = "working" \/ reply[c]))

SlotInv(c) ==
  /\ handler[c] # "reaping"
  /\ link[c] = "hungup" => handler[c] = "holding"
  /\ handler[c] \in {"none", "reading"} => fut[c] = "free"

CallInv == \A c \in Calls : ClientInv(c) /\ HandlerInv(c)

BrokerInv == TypeOK /\ GateInv /\ CallInv

-----------------------------------------------------------------------------
(* The broker's steps on the gate.                                         *)

LEMMA BrokerUsesGate == [Next]_vars => [GateNext]_gateVars
<1> SUFFICES ASSUME [Next]_vars PROVE [GateNext]_gateVars
  OBVIOUS
<1>1. CASE UNCHANGED vars
  BY <1>1 DEF vars
<1>2. ASSUME NEW c \in Calls, ClientStep(c) PROVE UNCHANGED gateVars
  BY <1>2 DEF ClientStep, Connect, ConnectAndDie, StartWork, ClosedBeforeGrant,
              Finish, Abandon, HangUp
<1>3. ASSUME NEW c \in Calls, HandlerStep(c)
      PROVE  Acquire(c) \/ Cancel(c) \/ Resume(c) \/ Release(c) \/ UNCHANGED gateVars
  BY <1>3 DEF HandlerStep, ReadRequest, AcquireStart, AcquireResume,
              DisconnectSeen, HandlerGrant, HandlerCancel, AcquireThrow,
              HandlerReap, HandlerRelease
<1>4. CASE DispatcherStep
  BY <1>4 DEF DispatcherStep, GateNext
<1>5. CASE BrokerDies
  BY <1>5 DEF BrokerDies, GateNext
<1>6. CASE BrokerStarts
  BY <1>6 DEF BrokerStarts
<1> QED BY <1>1, <1>2, <1>3, <1>4, <1>5, <1>6 DEF Next, GateNext

\* What the dispatcher may do to a future.
LEMMA DispatchFuture ==
  ASSUME GateInv, Dispatch, NEW d \in Calls
  PROVE  \/ fut'[d] = fut[d]
         \/ fut[d] = "pending"   /\ fut'[d] = "granted"
         \/ fut[d] = "cancelled" /\ fut'[d] = "free"
<1>1. fut \in [Calls -> FutureState]
  BY DEF GateInv, GateTypeOK
<1>2. CASE DispatchBegin \/ DispatchSleep
  BY <1>2 DEF DispatchBegin, DispatchSleep
<1>3. CASE DispatchGrant
  <2>1. fut[NextCall] = "pending" /\ fut' = [fut EXCEPT ![NextCall] = "granted"]
    BY <1>3 DEF DispatchGrant, NextOwner, NextCall
  <2> QED BY <2>1, <1>1
<1>4. CASE DispatchSkip
  <2>1. /\ MayGrant /\ fut[NextCall] # "pending"
        /\ fut' = [fut EXCEPT ![NextCall] = "free"]
    BY <1>4 DEF DispatchSkip, NextOwner, NextCall
  <2>2. fut[NextCall] = "cancelled"
    BY <2>1, NextIsQueued DEF Queued
  <2> QED BY <2>1, <2>2, <1>1
<1> QED BY <1>2, <1>3, <1>4 DEF Dispatch

-----------------------------------------------------------------------------
(* Each step keeps the invariant of each call.                             *)

BrokerTypeOK == /\ fut \in [Calls -> FutureState]
                /\ up \in BOOLEAN
                /\ client \in [Calls -> ClientState]
                /\ link \in [Calls -> LinkState]
                /\ reply \in [Calls -> BOOLEAN]
                /\ handler \in [Calls -> HandlerState]
                /\ acq \in [Calls -> TaskState]
                /\ disc \in [Calls -> BOOLEAN]

LEMMA ClientStepInv ==
  ASSUME BrokerTypeOK, CallInv, NEW c \in Calls, ClientStep(c)
  PROVE  CallInv'
<1> SUFFICES ASSUME NEW d \in Calls PROVE ClientInv(d)' /\ HandlerInv(d)'
  BY DEF CallInv
<1> USE DEF BrokerTypeOK, ClientInv, HandlerInv, gateVars
<1>1. ClientInv(c) /\ HandlerInv(c) /\ ClientInv(d) /\ HandlerInv(d)
  BY DEF CallInv
<1>2. CASE Connect(c)
  BY <1>1, <1>2 DEF Connect
<1>3. CASE ConnectAndDie(c)
  BY <1>1, <1>3 DEF ConnectAndDie
<1>4. CASE StartWork(c)
  BY <1>1, <1>4 DEF StartWork
<1>5. CASE ClosedBeforeGrant(c)
  BY <1>1, <1>5 DEF ClosedBeforeGrant
<1>6. CASE Finish(c)
  BY <1>1, <1>6 DEF Finish, HangUp
<1>7. CASE Abandon(c)
  BY <1>1, <1>7 DEF Abandon, HangUp
<1> QED BY <1>2, <1>3, <1>4, <1>5, <1>6, <1>7 DEF ClientStep

LEMMA HandlerStepInv ==
  ASSUME BrokerTypeOK, CallInv, NEW c \in Calls, HandlerStep(c)
  PROVE  CallInv'
<1> SUFFICES ASSUME NEW d \in Calls PROVE ClientInv(d)' /\ HandlerInv(d)'
  BY DEF CallInv
<1> USE DEF BrokerTypeOK, ClientInv, HandlerInv, gateVars
<1>1. ClientInv(c) /\ HandlerInv(c) /\ ClientInv(d) /\ HandlerInv(d)
  BY DEF CallInv
<1>2. CASE ReadRequest(c)
  BY <1>1, <1>2 DEF ReadRequest, CloseHandler
<1>3. CASE AcquireStart(c)
  BY <1>1, <1>3 DEF AcquireStart, Acquire
<1>4. CASE AcquireResume(c)
  BY <1>1, <1>4 DEF AcquireResume, Resume
<1>5. CASE DisconnectSeen(c)
  BY <1>1, <1>5 DEF DisconnectSeen
<1>6. CASE HandlerGrant(c)
  <2>1. /\ handler[c] = "racing" /\ acq[c] = "done"
        /\ handler' = [handler EXCEPT ![c] = "holding"]
        /\ disc' = [disc EXCEPT ![c] = FALSE]
        /\ reply' = [reply EXCEPT ![c] = (link[c] = "open")]
        /\ UNCHANGED <<fut, client, link, acq>>
    BY <1>6 DEF HandlerGrant
  <2>2. /\ handler'[c] = "holding" /\ ~disc'[c]
        /\ reply'[c] <=> link[c] = "open"
    BY <2>1
  <2>3. CASE d = c
    <3>1. \/ link[c] = "open" /\ client[c] = "queued"
          \/ link[c] = "hungup" /\ client[c] = "idle"
      BY <2>1, <1>1 DEF ClientState
    <3>2. /\ fut'[c] = "held" /\ acq'[c] = "done"
          /\ link'[c] = link[c] /\ client'[c] = client[c]
      BY <2>1, <1>1
    <3>3. ClientInv(c)'
      BY <2>2, <3>1, <3>2
    <3>4. HandlerInv(c)'
      BY <2>2, <3>1, <3>2
    <3> QED BY <2>3, <3>3, <3>4
  <2>4. CASE d # c
    <3>1. handler'[d] = handler[d] /\ disc'[d] = disc[d] /\ reply'[d] = reply[d]
      BY <2>1, <2>4
    <3> QED BY <3>1, <2>1, <1>1
  <2> QED BY <2>3, <2>4
<1>7. CASE HandlerCancel(c)
  BY <1>1, <1>7 DEF HandlerCancel, Cancel
<1>8. CASE AcquireThrow(c)
  BY <1>1, <1>8 DEF AcquireThrow
<1>9. CASE HandlerReap(c)
  BY <1>1, <1>9 DEF HandlerReap, CloseHandler
<1>10. CASE HandlerRelease(c)
  BY <1>1, <1>10 DEF HandlerRelease, CloseHandler, Release
<1> QED BY <1>2, <1>3, <1>4, <1>5, <1>6, <1>7, <1>8, <1>9, <1>10 DEF HandlerStep

LEMMA DispatcherStepInv ==
  ASSUME BrokerTypeOK, GateInv, CallInv, DispatcherStep
  PROVE  CallInv'
<1> SUFFICES ASSUME NEW d \in Calls PROVE ClientInv(d)' /\ HandlerInv(d)'
  BY DEF CallInv
<1>1. ClientInv(d) /\ HandlerInv(d)
  BY DEF CallInv
<1>2. \/ fut'[d] = fut[d]
      \/ fut[d] = "pending"   /\ fut'[d] = "granted"
      \/ fut[d] = "cancelled" /\ fut'[d] = "free"
  BY DispatchFuture DEF DispatcherStep
<1> QED BY <1>1, <1>2 DEF DispatcherStep, brokerVars, ClientInv, HandlerInv

LEMMA BrokerDiesInv ==
  ASSUME BrokerTypeOK, CallInv, BrokerDies
  PROVE  CallInv'
<1> SUFFICES ASSUME NEW d \in Calls PROVE ClientInv(d)' /\ HandlerInv(d)'
  BY DEF CallInv
<1>1. ClientInv(d) /\ HandlerInv(d)
  BY DEF CallInv
<1> QED BY <1>1 DEF BrokerDies, BrokerTypeOK, ClientInv, HandlerInv

LEMMA BrokerTypeInit == Init => BrokerTypeOK /\ CallInv
<1> SUFFICES ASSUME Init PROVE BrokerTypeOK /\ CallInv
  OBVIOUS
<1>1. BrokerTypeOK
  <2>1. /\ fut \in [Calls -> FutureState]
        /\ client \in [Calls -> ClientState]
        /\ link \in [Calls -> LinkState]
        /\ handler \in [Calls -> HandlerState]
        /\ acq \in [Calls -> TaskState]
    BY DEF Init, GateInit, FutureState, ClientState, LinkState, HandlerState, TaskState
  <2>2. up \in BOOLEAN /\ reply \in [Calls -> BOOLEAN] /\ disc \in [Calls -> BOOLEAN]
    BY Zenon DEF Init
  <2> QED BY <2>1, <2>2, Zenon DEF BrokerTypeOK
<1>2. CallInv
  BY DEF Init, GateInit, CallInv, ClientInv, HandlerInv
<1> QED BY <1>1, <1>2

LEMMA BrokerTypeNext ==
  ASSUME BrokerTypeOK, GateTypeOK', [Next]_vars
  PROVE  BrokerTypeOK'
<1> USE DEF BrokerTypeOK
<1>1. fut' \in [Calls -> FutureState]
  BY DEF GateTypeOK
<1>2. ASSUME NEW c \in Calls, ClientStep(c)
      PROVE  /\ up' = up /\ handler' \in [Calls -> HandlerState]
             /\ client' \in [Calls -> ClientState] /\ link' \in [Calls -> LinkState]
             /\ reply' \in [Calls -> BOOLEAN] /\ acq' = acq /\ disc' = disc
  BY <1>2 DEF ClientStep, Connect, ConnectAndDie, StartWork, ClosedBeforeGrant,
              Finish, Abandon, HangUp, ClientState, LinkState, HandlerState
<1>3. ASSUME NEW c \in Calls, HandlerStep(c)
      PROVE  /\ up' = up /\ client' = client
             /\ handler' \in [Calls -> HandlerState] /\ link' \in [Calls -> LinkState]
             /\ reply' \in [Calls -> BOOLEAN]
             /\ acq' \in [Calls -> TaskState] /\ disc' \in [Calls -> BOOLEAN]
  <2> USE DEF LinkState, HandlerState, TaskState
  <2>1. CASE ReadRequest(c)
    BY <2>1 DEF ReadRequest, CloseHandler
  <2>2. CASE AcquireStart(c)
    BY <2>2 DEF AcquireStart
  <2>3. CASE AcquireResume(c)
    BY <2>3 DEF AcquireResume
  <2>4. CASE DisconnectSeen(c)
    BY <2>4 DEF DisconnectSeen
  <2>5. CASE HandlerGrant(c)
    BY <2>5 DEF HandlerGrant
  <2>6. CASE HandlerCancel(c)
    BY <2>6 DEF HandlerCancel
  <2>7. CASE AcquireThrow(c)
    BY <2>7 DEF AcquireThrow
  <2>8. CASE HandlerReap(c)
    BY <2>8 DEF HandlerReap, CloseHandler
  <2>9. CASE HandlerRelease(c)
    BY <2>9 DEF HandlerRelease, CloseHandler
  <2> QED BY <2>1, <2>2, <2>3, <2>4, <2>5, <2>6, <2>7, <2>8, <2>9, <1>3 DEF HandlerStep
<1>4. CASE BrokerDies
  <2>1. /\ handler' \in [Calls -> HandlerState]
        /\ link' \in [Calls -> LinkState]
        /\ acq' \in [Calls -> TaskState]
        /\ client' = client /\ reply' = reply
    BY <1>4 DEF BrokerDies, HandlerState, LinkState, TaskState
  <2>2. up' \in BOOLEAN /\ disc' \in [Calls -> BOOLEAN]
    BY <1>4, Zenon DEF BrokerDies
  <2> QED BY <1>1, <2>1, <2>2, Zenon
<1>5. CASE BrokerStarts
  <2>1. up' \in BOOLEAN
    BY <1>5, Zenon DEF BrokerStarts
  <2>2. UNCHANGED <<client, link, reply, handler, acq, disc>>
    BY <1>5 DEF BrokerStarts
  <2> QED BY <1>1, <2>1, <2>2
<1>6. CASE DispatcherStep \/ UNCHANGED vars
  <2>1. UNCHANGED <<up, client, link, reply, handler, acq, disc>>
    BY <1>6 DEF DispatcherStep, brokerVars, vars
  <2> QED BY <1>1, <2>1
<1> QED BY <1>1, <1>2, <1>3, <1>4, <1>5, <1>6 DEF Next

LEMMA CallInvNext ==
  ASSUME BrokerTypeOK, GateInv, CallInv, [Next]_vars
  PROVE  CallInv'
<1>1. CASE BrokerStarts \/ UNCHANGED vars
  <2>1. UNCHANGED <<fut, client, link, reply, handler, acq, disc>>
    BY <1>1 DEF BrokerStarts, vars, brokerVars, gateVars
  <2> QED BY <2>1 DEF CallInv, ClientInv, HandlerInv
<1> QED BY <1>1, ClientStepInv, HandlerStepInv, DispatcherStepInv, BrokerDiesInv
        DEF Next

-----------------------------------------------------------------------------
(* The theorems.                                                           *)

\* Inside the broker the gate behaves as service/fair_queue.py alone does.
THEOREM BrokerImplementsGate == Spec => ImplementsGate
<1>1. Init => GateInit
  BY DEF Init
<1>2. [Next]_vars => [GateNext]_gateVars
  BY BrokerUsesGate
<1> QED BY <1>1, <1>2, PTL DEF Spec, GateSpec, ImplementsGate

\* The inductive invariant of the broker and its clients.
THEOREM BrokerInvariant == Spec => [](BrokerTypeOK /\ GateInv /\ CallInv)
<1>1. Init => BrokerTypeOK /\ CallInv
  BY BrokerTypeInit
<1>2. BrokerTypeOK /\ CallInv /\ GateInv /\ GateInv' /\ [Next]_vars
        => (BrokerTypeOK /\ CallInv)'
  BY BrokerTypeNext, CallInvNext DEF GateInv
<1> QED BY <1>1, <1>2, BrokerImplementsGate, GateInvariant, PTL DEF Spec, ImplementsGate

\* Every variable of the broker, its gate and its clients keeps its type.
THEOREM BrokerTypeCorrect == Spec => []TypeOK
<1>1. BrokerTypeOK /\ GateInv => TypeOK
  BY Zenon DEF BrokerTypeOK, GateInv, TypeOK
<1> QED BY <1>1, BrokerInvariant, PTL

\* The broker never frees the slot of a call at work behind a live connection.
THEOREM SlotsOutliveWork == Spec => []WorkHoldsSlot
<1>1. CallInv => WorkHoldsSlot
  BY DEF CallInv, ClientInv, HandlerInv, WorkHoldsSlot, Connected
<1> QED BY <1>1, BrokerInvariant, PTL

\* A handler that holds a slot always has something left to hear.
THEOREM HoldersAreWatched == Spec => []HolderIsWatched
<1>1. CallInv => HolderIsWatched
  BY DEF CallInv, HandlerInv, HolderIsWatched
<1> QED BY <1>1, BrokerInvariant, PTL

\* No more calls are at work behind a broker than its gate has slots.
THEOREM BrokerLimit == Spec => []WithinLimit
<1>1. BrokerTypeOK /\ GateInv /\ CallInv => WithinLimit
  <2> SUFFICES ASSUME BrokerTypeOK, GateInv, CallInv PROVE WithinLimit
    OBVIOUS
  <2> DEFINE W == {c \in Calls : client[c] = "working" /\ link[c] # "broken"}
  <2>1. W \subseteq Granted
    BY DEF CallInv, ClientInv, HandlerInv, Granted
  <2>2. IsFiniteSet(Granted)
    BY GateAssumption, FS_Subset DEF Granted
  <2>3. Cardinality(W) <= Cardinality(Granted) /\ IsFiniteSet(W)
    BY <2>1, <2>2, FS_Subset
  <2>4. Cardinality(W) \in Nat /\ Cardinality(Granted) \in Nat
    BY <2>2, <2>3, FS_CardinalityType
  <2>5. Cardinality(Granted) <= Capacity
    BY DEF GateInv, SlotAccounting
  <2> QED BY <2>3, <2>4, <2>5, GateAssumption DEF WithinLimit
<1> QED BY <1>1, BrokerInvariant, PTL

-----------------------------------------------------------------------------
(* Refinement of the slot pool.                                            *)

PoolStep == Pool!PoolNext \/ (Granted' = Granted /\ Connected' = Connected)

LEMMA ClientStepRefines ==
  ASSUME BrokerTypeOK, CallInv, NEW c \in Calls, ClientStep(c)
  PROVE  PoolStep
<1>1. Granted' = Granted
  BY DEF ClientStep, Connect, ConnectAndDie, StartWork, ClosedBeforeGrant,
         Finish, Abandon, HangUp, gateVars, Granted
<1>2. ClientInv(c) /\ HandlerInv(c)
  BY DEF CallInv
<1>3. CASE Connect(c) \/ ConnectAndDie(c) \/ ClosedBeforeGrant(c) \/ Abandon(c)
  <2>1. Connected' = Connected
    BY <1>3 DEF Connect, ConnectAndDie, ClosedBeforeGrant, Abandon, HangUp,
                Connected, BrokerTypeOK
  <2> QED BY <1>1, <2>1 DEF PoolStep
<1>4. CASE StartWork(c)
  <2>1. CASE link[c] = "open"
    <3>1. Connected' = Connected \cup {c}
      BY <1>4, <2>1 DEF StartWork, Connected, BrokerTypeOK
    <3>2. c \in Granted \ Connected
      BY <1>2, <1>4, <2>1
         DEF StartWork, ClientInv, HandlerInv, Connected, Granted
    <3>3. Pool!Start(c)
      BY <1>1, <3>1, <3>2 DEF Pool!Start
    <3> QED BY <3>3 DEF PoolStep, Pool!PoolNext
  <2>2. CASE link[c] # "open"
    <3>1. Connected' = Connected
      BY <1>4, <2>2 DEF StartWork, Connected, BrokerTypeOK
    <3> QED BY <1>1, <3>1 DEF PoolStep
  <2> QED BY <2>1, <2>2
<1>5. CASE Finish(c)
  <2>1. CASE link[c] = "open"
    <3>1. Connected' = Connected \ {c} /\ c \in Connected
      BY <1>5, <2>1 DEF Finish, HangUp, Connected, BrokerTypeOK
    <3>2. Pool!Stop(c)
      BY <1>1, <3>1 DEF Pool!Stop
    <3> QED BY <3>2 DEF PoolStep, Pool!PoolNext
  <2>2. CASE link[c] # "open"
    <3>1. Connected' = Connected
      BY <1>5, <2>2 DEF Finish, HangUp, Connected, BrokerTypeOK
    <3> QED BY <1>1, <3>1 DEF PoolStep
  <2> QED BY <2>1, <2>2
<1> QED BY <1>3, <1>4, <1>5 DEF ClientStep

LEMMA HandlerStepRefines ==
  ASSUME BrokerTypeOK, CallInv, NEW c \in Calls, HandlerStep(c)
  PROVE  PoolStep
<1>1. ClientInv(c) /\ HandlerInv(c)
  BY DEF CallInv
<1>2. CASE HandlerRelease(c)
  <2>1. /\ link[c] = "hungup" /\ fut[c] = "held"
        /\ fut' = [fut EXCEPT ![c] = "free"]
        /\ link' = [link EXCEPT ![c] = "none"] /\ client' = client
    BY <1>2 DEF HandlerRelease, CloseHandler, Release
  <2>2. Granted' = Granted \ {c} /\ c \in Granted
    BY <2>1 DEF Granted, BrokerTypeOK
  <2>3. Connected' = Connected /\ c \notin Connected
    BY <2>1 DEF Connected, BrokerTypeOK
  <2>4. Pool!Free(c)
    BY <2>2, <2>3 DEF Pool!Free
  <2> QED BY <2>4 DEF PoolStep, Pool!PoolNext
<1>3. CASE ReadRequest(c) \/ HandlerReap(c)
  <2>1. Granted' = Granted
    <3>1. HandlerReap(c) => acq[c] = "cancelled"
      BY <1>1 DEF HandlerReap, HandlerInv
    <3> QED BY <1>3, <3>1 DEF ReadRequest, HandlerReap, gateVars, Granted
  <2>2. Connected' = Connected
    <3>1. HandlerReap(c) => link[c] = "hungup"
      BY <1>1 DEF HandlerReap, HandlerInv
    <3> QED BY <1>3, <3>1 DEF ReadRequest, HandlerReap, CloseHandler, Connected,
                              BrokerTypeOK
  <2> QED BY <2>1, <2>2 DEF PoolStep
<1>4. CASE AcquireStart(c) \/ HandlerCancel(c) \/ AcquireResume(c)
  <2>1. /\ UNCHANGED <<client, link>>
        /\ \/ fut[c] = "free"    /\ fut' = [fut EXCEPT ![c] = "pending"]
           \/ fut[c] = "pending" /\ fut' = [fut EXCEPT ![c] = "cancelled"]
           \/ fut[c] = "granted" /\ fut' = [fut EXCEPT ![c] = "lost"]
           \/ fut[c] = "granted" /\ fut' = [fut EXCEPT ![c] = "held"]
    BY <1>4 DEF AcquireStart, Acquire, HandlerCancel, Cancel, AcquireResume, Resume
  <2>2. Granted' = Granted
    BY <2>1 DEF Granted, BrokerTypeOK
  <2>3. Connected' = Connected
    BY <2>1 DEF Connected
  <2> QED BY <2>2, <2>3 DEF PoolStep
<1>5. CASE DisconnectSeen(c) \/ HandlerGrant(c) \/ AcquireThrow(c)
  <2>1. UNCHANGED <<fut, client, link>>
    BY <1>5 DEF DisconnectSeen, HandlerGrant, AcquireThrow, gateVars
  <2> QED BY <2>1 DEF PoolStep, Granted, Connected
<1> QED BY <1>2, <1>3, <1>4, <1>5 DEF HandlerStep

LEMMA DispatcherStepRefines ==
  ASSUME BrokerTypeOK, GateInv, DispatcherStep
  PROVE  PoolStep
<1>1. Connected' = Connected
  BY DEF DispatcherStep, brokerVars, Connected
<1>2. CASE DispatchBegin \/ DispatchSleep
  <2>1. Granted' = Granted
    BY <1>2 DEF DispatchBegin, DispatchSleep, Granted
  <2> QED BY <1>1, <2>1 DEF PoolStep
<1>3. CASE DispatchSkip
  <2>1. /\ MayGrant /\ fut[NextCall] # "pending"
        /\ fut' = [fut EXCEPT ![NextCall] = "free"]
    BY <1>3 DEF DispatchSkip, NextOwner, NextCall
  <2>2. Granted' = Granted
    BY <2>1, NextIsQueued DEF Granted, Queued, BrokerTypeOK
  <2> QED BY <1>1, <2>2 DEF PoolStep
<1>4. CASE DispatchGrant
  <2>1. /\ MayGrant /\ fut[NextCall] = "pending"
        /\ fut' = [fut EXCEPT ![NextCall] = "granted"]
    BY <1>4 DEF DispatchGrant, NextOwner, NextCall
  <2>2. NextCall \in Calls /\ NextCall \notin Granted
    BY <2>1, NextIsQueued DEF Granted
  <2>3. Granted' = Granted \cup {NextCall}
    BY <2>1, <2>2 DEF Granted, BrokerTypeOK
  <2>4. Cardinality(Granted) < Capacity
    BY <2>1 DEF MayGrant, GateInv, SlotAccounting
  <2>5. PICK c \in Calls : c = NextCall
    BY <2>2
  <2>6. Pool!Cardinality(Granted) < Capacity
    BY <2>4, Zenon DEF Pool!Cardinality, Cardinality
  <2>7. Pool!Grant(c)
    BY <1>1, <2>2, <2>3, <2>5, <2>6 DEF Pool!Grant
  <2> QED BY <2>7 DEF PoolStep, Pool!PoolNext
<1> QED BY <1>2, <1>3, <1>4 DEF DispatcherStep, Dispatch

LEMMA BrokerDiesRefines ==
  ASSUME BrokerTypeOK, BrokerDies
  PROVE  PoolStep
<1>1. Granted' = {}
  BY DEF BrokerDies, GateReset, Granted
<1>2. Connected' = {}
  BY DEF BrokerDies, Connected
<1> QED BY <1>1, <1>2 DEF PoolStep, Pool!PoolNext, Pool!Forget

LEMMA BrokerStepRefines ==
  ASSUME BrokerTypeOK, GateInv, CallInv, [Next]_vars
  PROVE  [Pool!PoolNext]_(Pool!poolVars)
<1>1. CASE BrokerStarts \/ UNCHANGED vars
  <2>1. UNCHANGED <<fut, client, link>>
    BY <1>1 DEF BrokerStarts, vars, brokerVars, gateVars
  <2> QED BY <2>1 DEF Pool!poolVars, Granted, Connected
<1>2. PoolStep => [Pool!PoolNext]_(Pool!poolVars)
  BY DEF PoolStep, Pool!poolVars
<1> QED BY <1>1, <1>2, ClientStepRefines, HandlerStepRefines,
           DispatcherStepRefines, BrokerDiesRefines DEF Next

\* The broker and its clients implement the slot pool: a slot is granted only
\* below the capacity, used only while held, and freed only after use.
THEOREM BrokerImplementsSlotPool == Spec => ImplementsSlotPool
<1>1. Init => Pool!PoolInit
  BY DEF Init, GateInit, Pool!PoolInit, Granted, Connected
<1>2. BrokerTypeOK /\ GateInv /\ CallInv /\ [Next]_vars
        => [Pool!PoolNext]_(Pool!poolVars)
  BY BrokerStepRefines
<1> QED BY <1>1, <1>2, BrokerInvariant, PTL
        DEF Spec, ImplementsSlotPool, Pool!PoolSpec

-----------------------------------------------------------------------------
(* What holds only while no worker dies with a call in the queue, and only *)
(* while the broker itself is not restarted.                               *)

LEMMA SlotInvNext ==
  ASSUME ~MayAbandon, BrokerTypeOK, GateInv, CallInv,
         \A c \in Calls : SlotInv(c), [Next]_vars
  PROVE  \A c \in Calls : SlotInv(c)'
<1> SUFFICES ASSUME NEW d \in Calls PROVE SlotInv(d)'
  OBVIOUS
<1> USE DEF BrokerTypeOK, SlotInv
<1>1. \A c \in Calls : ClientInv(c) /\ HandlerInv(c) /\ SlotInv(c)
  BY DEF CallInv
<1>2. ASSUME NEW c \in Calls, ClientStep(c) PROVE SlotInv(d)'
  <2>1. ClientInv(c) /\ HandlerInv(c) /\ SlotInv(c) /\ SlotInv(d)
    BY <1>1
  <2>2. CASE Connect(c) \/ ConnectAndDie(c)
    BY <2>1, <2>2 DEF Connect, ConnectAndDie, gateVars
  <2>3. CASE StartWork(c) \/ ClosedBeforeGrant(c)
    BY <2>1, <2>3 DEF StartWork, ClosedBeforeGrant, gateVars
  <2>4. CASE Finish(c)
    BY <2>1, <2>4 DEF Finish, HangUp, gateVars, ClientInv
  <2> QED BY <1>2, <2>2, <2>3, <2>4 DEF ClientStep, Abandon
<1>3. ASSUME NEW c \in Calls, HandlerStep(c) PROVE SlotInv(d)'
  <2>1. ClientInv(c) /\ HandlerInv(c) /\ SlotInv(c) /\ SlotInv(d)
    BY <1>1
  <2>2. CASE ReadRequest(c)
    BY <2>1, <2>2 DEF ReadRequest, CloseHandler, gateVars
  <2>3. CASE AcquireStart(c)
    BY <2>1, <2>3 DEF AcquireStart, Acquire, HandlerInv
  <2>4. CASE AcquireResume(c) \/ DisconnectSeen(c) \/ AcquireThrow(c)
    BY <2>1, <2>4 DEF AcquireResume, Resume, DisconnectSeen, AcquireThrow, gateVars, HandlerInv
  <2>5. CASE HandlerGrant(c)
    BY <2>1, <2>5 DEF HandlerGrant, gateVars
  <2>6. ~HandlerCancel(c)
    BY <2>1 DEF HandlerCancel, HandlerInv
  <2>7. ~HandlerReap(c)
    BY <2>1 DEF HandlerReap
  <2>8. CASE HandlerRelease(c)
    BY <2>1, <2>8 DEF HandlerRelease, CloseHandler, Release
  <2> QED BY <1>3, <2>2, <2>3, <2>4, <2>5, <2>6, <2>7, <2>8 DEF HandlerStep
<1>4. CASE DispatcherStep
  <2>1. \/ fut'[d] = fut[d]
        \/ fut[d] = "pending"   /\ fut'[d] = "granted"
        \/ fut[d] = "cancelled" /\ fut'[d] = "free"
    BY <1>4, DispatchFuture DEF DispatcherStep
  <2> QED BY <1>1, <1>4, <2>1 DEF DispatcherStep, brokerVars
<1>5. CASE BrokerDies
  BY <1>1, <1>5 DEF BrokerDies, GateReset
<1>6. CASE BrokerStarts \/ UNCHANGED vars
  <2>1. UNCHANGED <<fut, link, handler>>
    BY <1>6 DEF BrokerStarts, vars, brokerVars, gateVars
  <2> QED BY <1>1, <2>1
<1> QED BY <1>2, <1>3, <1>4, <1>5, <1>6 DEF Next

\* No slot leaks as long as no worker dies while one of its calls is queued.
THEOREM NoLeakUnlessAbandoned == ASSUME ~MayAbandon PROVE Spec => []NoSlotLeak
<1>1. Init => \A c \in Calls : SlotInv(c)
  BY DEF Init, GateInit, SlotInv
<1>2. BrokerTypeOK /\ GateInv /\ CallInv /\ (\A c \in Calls : SlotInv(c)) /\ [Next]_vars
        => (\A c \in Calls : SlotInv(c))'
  BY SlotInvNext
<1>3. (\A c \in Calls : SlotInv(c)) => NoSlotLeak
  BY DEF SlotInv, NoSlotLeak, Granted
<1> QED BY <1>1, <1>2, <1>3, BrokerInvariant, PTL DEF Spec

LEMMA NoBrokenLink ==
  ASSUME ~MayRestart, BrokerTypeOK, \A c \in Calls : link[c] # "broken", [Next]_vars
  PROVE  \A c \in Calls : link'[c] # "broken"
<1> USE DEF BrokerTypeOK
<1>1. ASSUME NEW c \in Calls, ClientStep(c) PROVE \A d \in Calls : link'[d] # "broken"
  BY <1>1 DEF ClientStep, Connect, ConnectAndDie, StartWork, ClosedBeforeGrant,
              Finish, Abandon, HangUp
<1>2. ASSUME NEW c \in Calls, HandlerStep(c) PROVE \A d \in Calls : link'[d] # "broken"
  BY <1>2 DEF HandlerStep, ReadRequest, AcquireStart, AcquireResume,
              DisconnectSeen, HandlerGrant, HandlerCancel, AcquireThrow,
              HandlerReap, HandlerRelease, CloseHandler
<1>3. CASE DispatcherStep \/ BrokerStarts \/ UNCHANGED vars
  BY <1>3 DEF DispatcherStep, BrokerStarts, vars, brokerVars
<1>4. ~BrokerDies
  BY DEF BrokerDies
<1> QED BY <1>1, <1>2, <1>3, <1>4 DEF Next

\* The limits are process-wide totals as long as the broker is not restarted.
THEOREM TotalUnlessRestarted == ASSUME ~MayRestart PROVE Spec => []ProcessWideTotal
<1> DEFINE Unbroken == \A c \in Calls : link[c] # "broken"
<1>1. Init => Unbroken
  BY DEF Init
<1>2. BrokerTypeOK /\ Unbroken /\ [Next]_vars => Unbroken'
  BY NoBrokenLink
<1>3. Unbroken /\ WithinLimit => ProcessWideTotal
  <2> SUFFICES ASSUME Unbroken, WithinLimit PROVE ProcessWideTotal
    OBVIOUS
  <2>1. {c \in Calls : client[c] = "working"} =
          {c \in Calls : client[c] = "working" /\ link[c] # "broken"}
    OBVIOUS
  <2> QED BY <2>1, Zenon DEF WithinLimit, ProcessWideTotal
<1> QED BY <1>1, <1>2, <1>3, BrokerInvariant, BrokerLimit, PTL DEF Spec
=============================================================================
