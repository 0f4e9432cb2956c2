-------------------------- MODULE ContextPoolProofs --------------------------
(***************************************************************************)
(* The safety of the context pool for every set of jobs and every size.    *)
(*                                                                         *)
(* PoolInv is inductive: no context is lost or shared because the one job  *)
(* that creates does so below the cap, under the lock (OneCreates); a job  *)
(* waits only at the cap (WaitsAtCap), where the contexts are as many as   *)
(* the slots that the broker counts (SlotsHeld, SlotsBounded).             *)
(***************************************************************************)
EXTENDS ContextPool, FiniteSetTheorems, TLAPS

SlotsHeld    == \A j \in Jobs : place[j] # "outside" <=> j \in slots \cup uncounted
SlotsBounded == Cardinality(slots) <= MaxSize
OneCreates   == \A j \in Jobs : place[j] = "creating" =>
                  /\ created < MaxSize
                  /\ \A k \in Jobs : place[k] = "creating" => k = j
WaitsAtCap   == \A j \in Jobs : place[j] = "waiting" => created = MaxSize

PoolInv == /\ PoolTypeOK
           /\ PoolExact
           /\ SlotsHeld
           /\ SlotsBounded
           /\ OneCreates
           /\ WaitsAtCap

-----------------------------------------------------------------------------
(* The steps that several actions share.                                   *)

\* Giving a slot back keeps the accounting of the slots.
LEMMA LeaveGateInv ==
  ASSUME PoolInv, NEW j \in Jobs, LeaveGate(j)
  PROVE  /\ slots' \subseteq Jobs /\ uncounted' \subseteq Jobs
         /\ place' \in [Jobs -> Places]
         /\ SlotsHeld' /\ SlotsBounded'
<1> USE DEF PoolInv, PoolTypeOK, LeaveGate
<1>1. slots' \subseteq Jobs /\ uncounted' \subseteq Jobs
  OBVIOUS
<1>2. place' \in [Jobs -> Places]
  BY DEF Places
<1>3. SlotsHeld'
  BY DEF SlotsHeld
<1>4. SlotsBounded'
  <2>1. IsFiniteSet(slots) /\ slots' \in SUBSET slots
    BY FS_Subset, PoolAssumption
  <2>2. Cardinality(slots') <= Cardinality(slots)
    BY <2>1, FS_Subset
  <2>3. Cardinality(slots) \in Nat /\ Cardinality(slots') \in Nat
    BY <2>1, FS_Subset, FS_CardinalityType
  <2> QED BY <2>2, <2>3, PoolAssumption DEF SlotsBounded
<1> QED BY <1>1, <1>2, <1>3, <1>4

\* A context of the pool that nobody holds is taken, by a job that holds none:
\* it leaves the idle ones, or it was just created.
LEMMA TakeInv ==
  ASSUME PoolInv, NEW j \in Jobs, place[j] \notin {"outside", "holding"},
         NEW c \in 1 .. MaxSize, Take(j, c),
         created' \in 0 .. MaxSize,
         UNCHANGED <<slots, uncounted>>,
         idle' = idle \ {c},
         c \notin {context[k] : k \in Holding},
         1 .. created' = (1 .. created) \cup {c},
         c \in idle \/ c \notin 1 .. created,
         \A k \in Jobs : k # j /\ place[k] = "creating" => created' = created,
         \A k \in Jobs : k # j /\ place[k] = "waiting" => created' = created
  PROVE  PoolInv'
<1> USE DEF PoolInv, PoolTypeOK, Take
<1>1. PoolTypeOK'
  BY DEF Places
<1>2. Holding' = Holding \cup {j} /\ j \notin Holding
  BY DEF Holding
<1>3. /\ context'[j] = c
      /\ \A k \in Holding : context'[k] = context[k]
  BY <1>2 DEF Holding
<1>4. PoolExact'
  BY <1>2, <1>3 DEF PoolExact
<1>5. SlotsHeld' /\ SlotsBounded'
  BY DEF SlotsHeld, SlotsBounded
<1>6. OneCreates' /\ WaitsAtCap'
  BY DEF OneCreates, WaitsAtCap
<1> QED BY <1>1, <1>4, <1>5, <1>6

\* A job without a context moves on, and the contexts stay: nothing else can
\* be disturbed.
LEMMA MoveInv ==
  ASSUME PoolInv, NEW j \in Jobs, place[j] # "holding",
         NEW to \in Places \ {"holding"},
         place' = [place EXCEPT ![j] = to],
         UNCHANGED <<created, idle, context>>
  PROVE  PoolExact'
<1>1. Holding' = Holding
  BY DEF Holding, PoolInv, PoolTypeOK
<1> QED BY <1>1 DEF PoolInv, PoolExact

\* At the head of the critical section.
LEMMA UnderLockInv ==
  ASSUME PoolInv, NEW j \in Jobs, place[j] \in {"granted", "locking"}, LockFree,
         UnderLock(j)
  PROVE  PoolInv'
<1> USE DEF PoolInv, PoolTypeOK, UnderLock
<1> DEFINE to == IF created < MaxSize THEN "creating" ELSE "waiting"
<1>1. to \in Places \ {"holding"} /\ place' = [place EXCEPT ![j] = to]
  BY DEF Places
<1>2. PoolTypeOK'
  BY <1>1
<1>3. PoolExact'
  BY <1>1, MoveInv, Zenon
<1>4. SlotsHeld' /\ SlotsBounded'
  BY DEF SlotsHeld, SlotsBounded
<1>5. OneCreates' /\ WaitsAtCap'
  BY PoolAssumption DEF OneCreates, WaitsAtCap, LockFree
<1> QED BY <1>2, <1>3, <1>4, <1>5

-----------------------------------------------------------------------------
(* One lemma per action: it preserves the invariant.                       *)

LEMMA PoolInitInv == PoolInit => PoolInv
<1> SUFFICES ASSUME PoolInit PROVE PoolInv
  OBVIOUS
<1> USE DEF PoolInit
<1>1. PoolTypeOK
  BY PoolAssumption DEF PoolTypeOK, Places
<1>2. Holding = {}
  BY DEF Holding
<1>3. PoolExact
  BY <1>2 DEF PoolExact
<1>4. SlotsHeld /\ OneCreates /\ WaitsAtCap
  BY DEF SlotsHeld, OneCreates, WaitsAtCap
<1>5. SlotsBounded
  BY FS_EmptySet, PoolAssumption DEF SlotsBounded
<1> QED BY <1>1, <1>3, <1>4, <1>5 DEF PoolInv

LEMMA GrantInv ==
  ASSUME PoolInv, NEW j \in Jobs, Grant(j)
  PROVE  PoolInv'
<1> USE DEF PoolInv, PoolTypeOK, Grant
<1>1. PoolTypeOK'
  BY DEF Places
<1>2. PoolExact'
  BY MoveInv, "granted" \in Places \ {"holding"} DEF Places
<1>3. SlotsHeld'
  BY DEF SlotsHeld
<1>4. SlotsBounded'
  <2>1. IsFiniteSet(slots)
    BY FS_Subset, PoolAssumption
  <2>2. j \notin slots
    BY DEF SlotsHeld
  <2>3. Cardinality(slots \cup {j}) = Cardinality(slots) + 1
    BY <2>1, <2>2, FS_AddElement
  <2>4. Cardinality(slots) \in Nat
    BY <2>1, FS_CardinalityType
  <2> QED BY <2>3, <2>4, PoolAssumption DEF SlotsBounded
<1>5. OneCreates' /\ WaitsAtCap'
  BY DEF OneCreates, WaitsAtCap
<1> QED BY <1>1, <1>2, <1>3, <1>4, <1>5

LEMMA ForgetInv ==
  ASSUME PoolInv, Forget
  PROVE  PoolInv'
<1> USE DEF PoolInv, PoolTypeOK, Forget
<1>1. PoolTypeOK'
  OBVIOUS
<1>2. PoolExact'
  BY DEF PoolExact, Holding
<1>3. SlotsHeld' /\ OneCreates' /\ WaitsAtCap'
  BY DEF SlotsHeld, OneCreates, WaitsAtCap
<1>4. SlotsBounded'
  BY FS_EmptySet, PoolAssumption DEF SlotsBounded
<1> QED BY <1>1, <1>2, <1>3, <1>4

\* A job that holds no context leaves.
LEMMA LeaveInv ==
  ASSUME PoolInv, NEW j \in Jobs, place[j] # "holding", LeaveGate(j),
         UNCHANGED <<created, idle, context>>
  PROVE  PoolInv'
<1> USE DEF PoolInv, PoolTypeOK
<1>1. /\ slots' \subseteq Jobs /\ uncounted' \subseteq Jobs
      /\ place' \in [Jobs -> Places]
      /\ SlotsHeld' /\ SlotsBounded'
  BY LeaveGateInv
<1>2. PoolTypeOK'
  BY <1>1
<1>3. PoolExact'
  BY MoveInv, "outside" \in Places \ {"holding"} DEF LeaveGate, Places
<1>4. OneCreates' /\ WaitsAtCap'
  BY DEF OneCreates, WaitsAtCap, LeaveGate
<1> QED BY <1>1, <1>2, <1>3, <1>4

\* An idle context is taken.
LEMMA TakeIdleInv ==
  ASSUME PoolInv, NEW j \in Jobs, place[j] \in {"granted", "waiting"},
         NEW c \in idle, Take(j, c), idle' = idle \ {c},
         UNCHANGED <<slots, uncounted, created>>
  PROVE  PoolInv'
<1>1. c \in 1 .. created /\ c \in 1 .. MaxSize
  BY DEF PoolInv, PoolTypeOK, PoolExact
<1>2. c \notin {context[k] : k \in Holding}
  BY DEF PoolInv, PoolExact
<1>3. created' \in 0 .. MaxSize /\ 1 .. created' = (1 .. created) \cup {c}
  BY <1>1 DEF PoolInv, PoolTypeOK
<1> QED BY <1>1, <1>2, <1>3, TakeInv

LEMMA AskContextInv ==
  ASSUME PoolInv, NEW j \in Jobs, AskContext(j)
  PROVE  PoolInv'
<1>1. place[j] = "granted"
  BY DEF AskContext
<1>2. CASE \E c \in idle : /\ Take(j, c)
                           /\ idle' = idle \ {c}
                           /\ UNCHANGED <<slots, uncounted, created>>
  BY <1>1, <1>2, TakeIdleInv
<1>3. CASE LockFree /\ UnderLock(j)
  BY <1>1, <1>3, UnderLockInv
<1>4. CASE /\ place' = [place EXCEPT ![j] = "locking"]
           /\ UNCHANGED <<slots, uncounted, created, idle, context>>
  <2> USE <1>1, <1>4 DEF PoolInv, PoolTypeOK
  <2>1. PoolTypeOK'
    BY DEF Places
  <2>2. PoolExact'
    BY MoveInv, "locking" \in Places \ {"holding"} DEF Places
  <2>3. SlotsHeld' /\ SlotsBounded' /\ OneCreates' /\ WaitsAtCap'
    BY DEF SlotsHeld, SlotsBounded, OneCreates, WaitsAtCap
  <2> QED BY <2>1, <2>2, <2>3
<1> QED BY <1>2, <1>3, <1>4 DEF AskContext

LEMMA CreateInv ==
  ASSUME PoolInv, NEW j \in Jobs, Create(j)
  PROVE  PoolInv'
<1> DEFINE c == created + 1
<1> USE DEF Create
<1>1. /\ created \in 0 .. MaxSize /\ created < MaxSize
      /\ idle \cup {context[k] : k \in Holding} = 1 .. created
  BY DEF PoolInv, PoolTypeOK, OneCreates, PoolExact
<1>2. c \in 1 .. MaxSize /\ c \notin 1 .. created /\ created' \in 0 .. MaxSize
  BY <1>1, PoolAssumption
<1>3. 1 .. created' = (1 .. created) \cup {c}
  BY <1>1
<1>4. c \notin {context[k] : k \in Holding} /\ idle' = idle \ {c}
  BY <1>1, <1>2
<1>5. /\ \A k \in Jobs : k # j /\ place[k] = "creating" => created' = created
      /\ \A k \in Jobs : k # j /\ place[k] = "waiting" => created' = created
  BY <1>1, PoolAssumption DEF PoolInv, OneCreates, WaitsAtCap
<1>6. Take(j, c) /\ UNCHANGED <<slots, uncounted>> /\ place[j] = "creating"
  OBVIOUS
<1> HIDE DEF Create
<1> QED BY <1>2, <1>3, <1>4, <1>5, <1>6, TakeInv

LEMMA ReleaseInv ==
  ASSUME PoolInv, NEW j \in Jobs, Release(j)
  PROVE  PoolInv'
<1> USE DEF PoolInv, PoolTypeOK, Release
<1>1. /\ slots' \subseteq Jobs /\ uncounted' \subseteq Jobs
      /\ place' \in [Jobs -> Places]
      /\ SlotsHeld' /\ SlotsBounded'
  BY LeaveGateInv
<1>2. Holding' = Holding \ {j} /\ j \in Holding
  BY DEF Holding, LeaveGate
<1>3. /\ \A k \in Holding' : context'[k] = context[k]
      /\ context[j] \in 1 .. created
  BY <1>2 DEF PoolExact, Holding
<1>4. PoolTypeOK'
  <2>1. created \in 0 .. MaxSize /\ context[j] \in 1 .. MaxSize
    BY <1>3, PoolAssumption
  <2>2. idle' \subseteq 1 .. MaxSize
    BY <2>1
  <2>3. 0 \in 0 .. MaxSize
    BY PoolAssumption
  <2>4. context' \in [Jobs -> 0 .. MaxSize]
    BY <2>3
  <2> QED BY <1>1, <2>1, <2>2, <2>4
<1>5. PoolExact'
  BY <1>2, <1>3 DEF PoolExact
<1>6. OneCreates' /\ WaitsAtCap'
  BY DEF OneCreates, WaitsAtCap, LeaveGate
<1> QED BY <1>1, <1>4, <1>5, <1>6

\* PoolInv is inductive.
LEMMA PoolNextInv == PoolInv /\ [PoolNext]_poolVars => PoolInv'
<1> SUFFICES ASSUME PoolInv, [PoolNext]_poolVars PROVE PoolInv'
  OBVIOUS
<1>1. ASSUME NEW j \in Jobs, Grant(j) PROVE PoolInv'
  BY <1>1, GrantInv
<1>2. ASSUME NEW j \in Jobs, GiveUp(j) PROVE PoolInv'
  BY <1>2, LeaveInv DEF GiveUp
<1>3. ASSUME NEW j \in Jobs, PoolStep(j) PROVE PoolInv'
  <2>1. CASE AskContext(j)
    BY <2>1, AskContextInv
  <2>2. CASE LockTaken(j)
    BY <2>2, UnderLockInv DEF LockTaken
  <2>3. CASE Create(j)
    BY <2>3, CreateInv
  <2>4. CASE CreateFails(j)
    BY <2>4, LeaveInv DEF CreateFails
  <2>5. CASE GetContext(j)
    BY <2>5, TakeIdleInv DEF GetContext
  <2> QED BY <1>3, <2>1, <2>2, <2>3, <2>4, <2>5 DEF PoolStep
<1>4. ASSUME NEW j \in Jobs, Release(j) PROVE PoolInv'
  BY <1>4, ReleaseInv
<1>5. CASE Forget
  BY <1>5, ForgetInv
<1>6. CASE UNCHANGED poolVars
  BY <1>6 DEF poolVars, PoolInv, PoolTypeOK, PoolExact, Holding, SlotsHeld,
              SlotsBounded, OneCreates, WaitsAtCap
<1> QED BY <1>1, <1>2, <1>3, <1>4, <1>5, <1>6 DEF PoolNext

\* With at most as many counted slots as contexts, the jobs that wait are no
\* more than the idle contexts and the uncounted jobs.
LEMMA WaitersBounded == PoolInv => ContextAtOnce
<1> SUFFICES ASSUME PoolInv PROVE ContextAtOnce
  OBVIOUS
<1> DEFINE Held == {context[j] : j \in Holding}
<1> USE DEF PoolInv, PoolTypeOK
<1>1. /\ IsFiniteSet(slots) /\ IsFiniteSet(uncounted)
      /\ IsFiniteSet(Holding) /\ IsFiniteSet(Waiting)
  BY FS_Subset, PoolAssumption DEF Holding, Waiting
<1>2. IsFiniteSet(idle)
  <2>1. IsFiniteSet(1 .. MaxSize)
    BY FS_Interval, PoolAssumption
  <2> QED BY <2>1, FS_Subset
<1>3. /\ Cardinality(slots) \in Nat /\ Cardinality(uncounted) \in Nat
      /\ Cardinality(Holding) \in Nat /\ Cardinality(Waiting) \in Nat
      /\ Cardinality(idle) \in Nat
  BY <1>1, <1>2, FS_CardinalityType
<1>4. CASE Waiting = {}
  BY <1>3, <1>4, FS_EmptySet DEF ContextAtOnce
<1>5. CASE Waiting # {}
  <2>1. idle \cup Held = 1 .. MaxSize
    BY <1>5 DEF Waiting, WaitsAtCap, PoolExact
  <2>2. IsFiniteSet(Held) /\ Cardinality(Held) <= Cardinality(Holding)
    <3> DEFINE f == [j \in Holding |-> context[j]]
    <3>1. f \in Surjection(Holding, Held)
      BY DEF Surjection
    <3> HIDE DEF f
    <3> QED BY <3>1, <1>1, FS_Surjection
  <2>3. MaxSize <= Cardinality(idle) + Cardinality(Held)
    <3>1. Cardinality(1 .. MaxSize) = MaxSize
      <4>1. 1 \in Int /\ MaxSize \in Int /\ ~(1 > MaxSize)
        BY PoolAssumption
      <4>2. Cardinality(1 .. MaxSize) = MaxSize - 1 + 1
        BY <4>1, FS_Interval
      <4> QED BY <4>1, <4>2
    <3>2. Cardinality(idle \cup Held) =
            Cardinality(idle) + Cardinality(Held) - Cardinality(idle \cap Held)
      BY <1>2, <2>2, FS_Union
    <3>3. IsFiniteSet(idle \cap Held)
      BY <1>2, FS_Subset
    <3>4. Cardinality(idle \cap Held) \in Nat /\ Cardinality(Held) \in Nat
      BY <2>2, <3>3, FS_CardinalityType
    <3>5. MaxSize = Cardinality(idle) + Cardinality(Held) - Cardinality(idle \cap Held)
      BY <2>1, <3>1, <3>2, Zenon
    <3> HIDE DEF Held
    <3> QED BY <3>4, <3>5, <1>3, PoolAssumption
  <2>4. Cardinality(Holding) + Cardinality(Waiting)
          <= Cardinality(slots) + Cardinality(uncounted)
    <3>1. Holding \cap Waiting = {}
      BY DEF Holding, Waiting
    <3>2. Cardinality(Holding \cup Waiting) = Cardinality(Holding) + Cardinality(Waiting)
      BY <3>1, <1>1, <1>3, FS_Union, FS_EmptySet
    <3>3. Holding \cup Waiting \in SUBSET (slots \cup uncounted)
      BY DEF Holding, Waiting, SlotsHeld
    <3>4. IsFiniteSet(slots \cup uncounted)
      BY <1>1, FS_Union
    <3>5. Cardinality(Holding \cup Waiting) <= Cardinality(slots \cup uncounted)
      BY <3>3, <3>4, FS_Subset
    <3>6. Cardinality(slots \cup uncounted) = Cardinality(slots) +
            Cardinality(uncounted) - Cardinality(slots \cap uncounted)
      BY <1>1, FS_Union
    <3>7. Cardinality(slots \cap uncounted) \in Nat
      BY <1>1, FS_Subset, FS_CardinalityType
    <3> QED BY <3>2, <3>5, <3>6, <3>7, <1>3
  <2>5. Cardinality(Held) \in Nat
    BY <2>2, FS_CardinalityType
  <2> HIDE DEF Held
  <2> QED BY <2>2, <2>3, <2>4, <2>5, <1>3, PoolAssumption
          DEF ContextAtOnce, SlotsBounded
<1> QED BY <1>4, <1>5

-----------------------------------------------------------------------------
(* Theorems                                                                *)

\* The invariant of the pool of service/scraper.py holds in every reachable
\* state.
THEOREM PoolInvariant == PoolSpec => []PoolInv
<1>1. PoolInit => PoolInv
  BY PoolInitInv
<1>2. PoolInv /\ [PoolNext]_poolVars => PoolInv'
  BY PoolNextInv
<1> QED BY <1>1, <1>2, PTL DEF PoolSpec

\* The pool's variables keep their types: in particular no more contexts are
\* ever created than SCRAPER_MAX_CONCURRENT_TOTAL.
THEOREM PoolTypeCorrect == PoolSpec => []PoolTypeOK
<1>1. PoolInv => PoolTypeOK
  BY DEF PoolInv
<1> QED BY <1>1, PoolInvariant, PTL

\* Whatever raises and whenever the broker restarts, every context ever created
\* is idle or of exactly one job.
THEOREM PoolIsExact == PoolSpec => []PoolExact
<1>1. PoolInv => PoolExact
  BY DEF PoolInv
<1> QED BY <1>1, PoolInvariant, PTL

\* A job with a slot of the current broker finds a context at once: the gate
\* alone decides who waits.
THEOREM ContextIsAtOnce == PoolSpec => []ContextAtOnce
<1>1. PoolInv => ContextAtOnce
  BY WaitersBounded
<1> QED BY <1>1, PoolInvariant, PTL
=============================================================================
