--------------------------- MODULE FairGateProofs ---------------------------
(***************************************************************************)
(* The gate's safety for every set of calls and owners and every capacity. *)
(*                                                                         *)
(* GateInv is inductive: the counter is right because a future is granted  *)
(* only when it is pending (SlotAccounting), a granted future is pending   *)
(* because the queues hold exactly the queued futures (RotationExact), and *)
(* turns are fair because `since` agrees with the rotation (TurnOrder).    *)
(***************************************************************************)
EXTENDS FairGate, SequenceTheorems, FiniteSetTheorems, TLAPS

GateInv == /\ GateTypeOK
           /\ RotationExact
           /\ SlotAccounting
           /\ NoLostWakeup
           /\ TurnOrder

-----------------------------------------------------------------------------
(* Sequences seen as sets.                                                 *)

\* Appending a new element adds it, and keeps the elements distinct.
LEMMA AppendElements ==
  ASSUME NEW S, NEW s \in Seq(S), NEW e \in S
  PROVE  /\ Append(s, e) \in Seq(S)
         /\ Append(s, e) # <<>>
         /\ Elements(Append(s, e)) = Elements(s) \cup {e}
         /\ Injective(s) /\ e \notin Elements(s) => Injective(Append(s, e))
<1> DEFINE t == Append(s, e)
<1>1. /\ t \in Seq(S) /\ t # <<>>
      /\ Len(t) = Len(s) + 1
      /\ \A i \in 1 .. Len(s) : t[i] = s[i]
      /\ t[Len(s) + 1] = e
  BY AppendProperties
<1>2. /\ Len(s) \in Nat
      /\ DOMAIN s = 1 .. Len(s)
      /\ DOMAIN t = 1 .. Len(s) + 1
  BY <1>1, LenProperties
<1>3. Elements(t) = Elements(s) \cup {e}
  <2>1. ASSUME NEW x \in Elements(t) PROVE x \in Elements(s) \cup {e}
    BY <1>1, <1>2 DEF Elements
  <2>2. ASSUME NEW x \in Elements(s) \cup {e} PROVE x \in Elements(t)
    <3>1. CASE x = e
      <4>1. Len(s) + 1 \in DOMAIN t
        BY <1>2
      <4> QED BY <3>1, <4>1, <1>1 DEF Elements
    <3>2. CASE x \in Elements(s)
      <4>1. PICK i \in DOMAIN s : s[i] = x
        BY <3>2 DEF Elements
      <4>2. i \in DOMAIN t /\ t[i] = x
        BY <4>1, <1>1, <1>2
      <4> QED BY <4>2 DEF Elements
    <3> QED BY <3>1, <3>2, <2>2
  <2> QED BY <2>1, <2>2
<1>4. ASSUME Injective(s), e \notin Elements(s) PROVE Injective(t)
  <2> SUFFICES ASSUME NEW i \in DOMAIN t, NEW j \in DOMAIN t, t[i] = t[j]
               PROVE  i = j
    BY DEF Injective
  <2>1. \A k \in 1 .. Len(s) : t[k] # e
    BY <1>1, <1>2, <1>4 DEF Elements
  <2>2. CASE i \in 1 .. Len(s) /\ j \in 1 .. Len(s)
    BY <2>2, <1>1, <1>2, <1>4 DEF Injective
  <2> QED BY <2>1, <2>2, <1>1, <1>2
<1> QED BY <1>1, <1>3, <1>4

\* Dropping the head of a sequence of distinct elements removes that element.
LEMMA TailElements ==
  ASSUME NEW S, NEW s \in Seq(S), s # <<>>, Injective(s)
  PROVE  /\ Head(s) \in S
         /\ Head(s) \in Elements(s)
         /\ Head(s) = s[1]
         /\ Tail(s) \in Seq(S)
         /\ Injective(Tail(s))
         /\ Elements(Tail(s)) = Elements(s) \ {Head(s)}
<1> DEFINE t == Tail(s)
<1>1. /\ Head(s) \in S /\ t \in Seq(S)
      /\ Len(t) = Len(s) - 1
      /\ \A i \in 1 .. Len(t) : t[i] = s[i + 1]
  BY HeadTailProperties
<1>2. /\ Len(s) \in Nat \ {0}
      /\ DOMAIN s = 1 .. Len(s)
      /\ DOMAIN t = 1 .. Len(s) - 1
  BY <1>1, LenProperties, EmptySeq
<1>3. Head(s) = s[1] /\ 1 \in DOMAIN s
  BY <1>2 
<1>4. Injective(t)
  BY <1>1, <1>2 DEF Injective
<1>5. Elements(t) = Elements(s) \ {Head(s)}
  <2>1. ASSUME NEW x \in Elements(t) PROVE x \in Elements(s) \ {Head(s)}
    <3>1. PICK i \in DOMAIN t : t[i] = x
      BY DEF Elements
    <3>2. i + 1 \in DOMAIN s /\ s[i + 1] = x /\ i + 1 # 1
      BY <3>1, <1>1, <1>2
    <3> QED BY <3>2, <1>3 DEF Elements, Injective
  <2>2. ASSUME NEW x \in Elements(s) \ {Head(s)} PROVE x \in Elements(t)
    <3>1. PICK i \in DOMAIN s : s[i] = x
      BY DEF Elements
    <3>2. i # 1
      BY <3>1, <1>3
    <3>3. i - 1 \in DOMAIN t /\ t[i - 1] = s[i]
      <4>1. i - 1 \in 1 .. Len(t)
        BY <3>2, <1>1, <1>2
      <4> QED BY <4>1, <1>1, <1>2
    <3> QED BY <3>1, <3>3 DEF Elements
  <2> QED BY <2>1, <2>2
<1> QED BY <1>1, <1>3, <1>4, <1>5 DEF Elements

-----------------------------------------------------------------------------
(* One lemma per operation: it preserves the invariant.                    *)

LEMMA InitInv == GateInit => GateInv
<1> SUFFICES ASSUME GateInit PROVE GateInv
  OBVIOUS
<1> USE DEF GateInit
<1>1. GateTypeOK
  <2>1. queue \in [Owners -> Seq(Calls)] /\ rotation \in Seq(Owners)
    BY EmptySeq, Zenon
  <2>2. /\ fut \in [Calls -> FutureState]
        /\ since \in [Owners -> SUBSET Owners]
        /\ worker \in WorkerState
        /\ running \in Int
    BY DEF WorkerState, FutureState
  <2>3. wakeup \in BOOLEAN
    BY Zenon
  <2> QED BY <2>1, <2>2, <2>3, Zenon DEF GateTypeOK
<1>2. RotationExact
  BY DEF RotationExact, Injective, Elements, Queued
<1>3. Granted = {} 
  BY DEF Granted
<1>4. SlotAccounting
  BY <1>3, FS_EmptySet, GateAssumption DEF SlotAccounting
<1>5. NoLostWakeup /\ TurnOrder
  BY DEF NoLostWakeup, TurnOrder
<1> QED BY <1>1, <1>2, <1>4, <1>5 DEF GateInv

LEMMA ResetInv == GateReset => GateInv'
<1> SUFFICES ASSUME GateReset PROVE GateInv'
  OBVIOUS
<1> USE DEF GateReset
<1>1. GateTypeOK'
  <2>1. queue' \in [Owners -> Seq(Calls)] /\ rotation' \in Seq(Owners)
    BY EmptySeq, Zenon
  <2>2. /\ fut' \in [Calls -> FutureState]
        /\ since' \in [Owners -> SUBSET Owners]
        /\ worker' \in WorkerState
        /\ running' \in Int
    BY DEF WorkerState, FutureState
  <2>3. wakeup' \in BOOLEAN
    BY Zenon
  <2> QED BY <2>1, <2>2, <2>3, Zenon DEF GateTypeOK
<1>2. RotationExact'
  BY DEF RotationExact, Injective, Elements, Queued
<1>3. Granted' = {} 
  BY DEF Granted
<1>4. SlotAccounting'
  BY <1>3, FS_EmptySet, GateAssumption DEF SlotAccounting
<1>5. NoLostWakeup' /\ TurnOrder'
  BY DEF NoLostWakeup, TurnOrder
<1> QED BY <1>1, <1>2, <1>4, <1>5 DEF GateInv

LEMMA AcquireInv ==
  ASSUME GateInv, NEW c \in Calls, Acquire(c)
  PROVE  GateInv'
<1> DEFINE o == OwnerOf[c]
<1>1. /\ o \in Owners
      /\ fut[c] = "free"
      /\ fut' = [fut EXCEPT ![c] = "pending"]
      /\ queue' = [queue EXCEPT ![o] = Append(queue[o], c)]
      /\ worker' = IF worker = "none" THEN "ready" ELSE worker
      /\ wakeup' = TRUE
      /\ running' = running
  BY GateAssumption DEF Acquire
<1>2. \/ /\ o \in Elements(rotation)
         /\ rotation' = rotation /\ since' = since
      \/ /\ o \notin Elements(rotation)
         /\ rotation' = Append(rotation, o)
         /\ since' = [since EXCEPT ![o] = {}]
  BY DEF Acquire
<1>3. /\ queue \in [Owners -> Seq(Calls)]
      /\ rotation \in Seq(Owners)
      /\ fut \in [Calls -> FutureState]
      /\ since \in [Owners -> SUBSET Owners]
      /\ worker \in WorkerState /\ running \in Int
  BY DEF GateInv, GateTypeOK
<1>4. /\ Append(queue[o], c) \in Seq(Calls)
      /\ Append(queue[o], c) # <<>>
      /\ Elements(Append(queue[o], c)) = Elements(queue[o]) \cup {c}
      /\ Injective(Append(queue[o], c))
  <2>1. Injective(queue[o]) /\ c \notin Elements(queue[o])
    BY <1>1 DEF GateInv, RotationExact, Queued
  <2>2. queue[o] \in Seq(Calls)
    BY <1>1, <1>3
  <2> HIDE DEF o
  <2> QED BY <2>1, <2>2, AppendElements
<1>5. GateTypeOK'
  <2>1. rotation' \in Seq(Owners) /\ since' \in [Owners -> SUBSET Owners]
    <3>1. Append(rotation, o) \in Seq(Owners)
      BY <1>1, <1>3, AppendProperties
    <3> QED BY <3>1, <1>2, <1>3
  <2>2. queue' \in [Owners -> Seq(Calls)]
    BY <1>1, <1>3, <1>4
  <2>3. fut' \in [Calls -> FutureState] /\ worker' \in WorkerState
    BY <1>1, <1>3 DEF FutureState, WorkerState
  <2> QED BY <1>1, <1>3, <2>1, <2>2, <2>3 DEF GateTypeOK
<1>6. RotationExact'
  <2>1. Injective(rotation')
    BY <1>1, <1>2, <1>3, AppendElements DEF GateInv, RotationExact
  <2>2. Elements(rotation') = Elements(rotation) \cup {o}
    <3> HIDE DEF o
    <3>1. CASE o \in Elements(rotation) /\ rotation' = rotation
      BY <3>1
    <3>2. CASE rotation' = Append(rotation, o)
      BY <3>2, <1>1, <1>3, AppendElements
    <3> QED BY <3>1, <3>2, <1>2
  <2>3. {p \in Owners : queue'[p] # <<>>} =
          {p \in Owners : queue[p] # <<>>} \cup {o}
    BY <1>1, <1>3, <1>4
  <2>4. ASSUME NEW p \in Owners
        PROVE  /\ Injective(queue'[p])
               /\ Elements(queue'[p]) = {d \in Queued' : OwnerOf[d] = p}
    <3>1. Queued' = Queued \cup {c}
      BY <1>1, <1>3 DEF Queued
    <3>2. /\ Injective(queue[p])
          /\ Elements(queue[p]) = {d \in Queued : OwnerOf[d] = p}
      BY DEF GateInv, RotationExact
    <3>3. CASE p = o
      BY <3>1, <3>2, <3>3, <1>1, <1>3, <1>4
    <3>4. CASE p # o
      BY <3>1, <3>2, <3>4, <1>1, <1>3
    <3> QED BY <3>3, <3>4
  <2> QED BY <2>1, <2>2, <2>3, <2>4 DEF GateInv, RotationExact
<1>7. SlotAccounting'
  <2>1. Granted' = Granted
    BY <1>1, <1>3 DEF Granted
  <2> QED BY <2>1, <1>1 DEF GateInv, SlotAccounting
<1>8. NoLostWakeup'
  BY <1>1, <1>3 DEF NoLostWakeup, WorkerState
<1>9. TurnOrder'
  <2>1. CASE rotation' = rotation /\ since' = since
    BY <2>1 DEF GateInv, TurnOrder
  <2>2. CASE /\ rotation' = Append(rotation, o)
             /\ since' = [since EXCEPT ![o] = {}]
    <3> SUFFICES ASSUME NEW i \in DOMAIN rotation', NEW j \in DOMAIN rotation',
                        rotation'[j] \in since'[rotation'[i]]
                 PROVE  i < j
      BY DEF TurnOrder
    <3>1. /\ Len(rotation) \in Nat
          /\ DOMAIN rotation = 1 .. Len(rotation)
          /\ DOMAIN rotation' = 1 .. Len(rotation) + 1
          /\ \A k \in 1 .. Len(rotation) : rotation'[k] = rotation[k]
          /\ rotation'[Len(rotation) + 1] = o
      BY <1>1, <1>3, <2>2, AppendProperties, LenProperties
    <3>2. i # Len(rotation) + 1
      BY <3>1, <2>2, <1>1, <1>3
    <3>3. i \in DOMAIN rotation /\ rotation[i] \in Owners
      BY <3>1, <3>2, <1>3, ElementOfSeq
    <3>4. rotation'[j] \in since[rotation[i]]
      BY <3>1, <3>3, <2>2, <1>1, <1>3
    <3>5. CASE j = Len(rotation) + 1
      BY <3>1, <3>3, <3>5
    <3>6. CASE j # Len(rotation) + 1
      BY <3>1, <3>3, <3>4, <3>6 DEF GateInv, TurnOrder
    <3> QED BY <3>5, <3>6
  <2> QED BY <2>1, <2>2, <1>2
<1> QED BY <1>5, <1>6, <1>7, <1>8, <1>9 DEF GateInv

\* The steps of a task in acquire() that no queue and no counter shows.
LEMMA CancelResumeInv ==
  ASSUME GateInv, NEW c \in Calls, Cancel(c) \/ Resume(c)
  PROVE  GateInv'
<1> USE DEF GateInv
<1>1. /\ \/ fut[c] = "pending" /\ fut' = [fut EXCEPT ![c] = "cancelled"]
         \/ fut[c] = "granted" /\ fut' = [fut EXCEPT ![c] = "lost"]
         \/ fut[c] = "granted" /\ fut' = [fut EXCEPT ![c] = "held"]
      /\ fut \in [Calls -> FutureState]
      /\ UNCHANGED <<queue, rotation, running, wakeup, worker, since>>
  BY DEF Cancel, Resume, GateTypeOK
<1>2. GateTypeOK'
  BY <1>1 DEF GateTypeOK, FutureState
<1>3. Queued' = Queued /\ Granted' = Granted
  BY <1>1 DEF Queued, Granted
<1>4. RotationExact' /\ SlotAccounting'
  BY <1>1, <1>3 DEF RotationExact, SlotAccounting
<1>5. NoLostWakeup' /\ TurnOrder'
  BY <1>1 DEF NoLostWakeup, MayGrant, TurnOrder
<1> QED BY <1>2, <1>4, <1>5

LEMMA ReleaseInv ==
  ASSUME GateInv, NEW c \in Calls, Release(c)
  PROVE  GateInv'
<1> USE DEF GateInv
<1>1. /\ fut[c] = "held"
      /\ fut' = [fut EXCEPT ![c] = "free"]
      /\ fut \in [Calls -> FutureState]
      /\ running' = running - 1 /\ running \in Int
      /\ wakeup' = TRUE
      /\ UNCHANGED <<queue, rotation, worker, since>>
  BY DEF Release, GateTypeOK
<1>2. GateTypeOK'
  BY <1>1 DEF GateTypeOK, FutureState
<1>3. Queued' = Queued
  BY <1>1 DEF Queued
<1>4. RotationExact'
  BY <1>1, <1>3 DEF RotationExact
<1>5. SlotAccounting'
  <2>1. Granted' = Granted \ {c} /\ c \in Granted
    BY <1>1 DEF Granted
  <2>2. IsFiniteSet(Granted)
    BY GateAssumption, FS_Subset DEF Granted
  <2>3. Cardinality(Granted') = Cardinality(Granted) - 1
    BY <2>1, <2>2, FS_RemoveElement
  <2> QED BY <2>3, <1>1, GateAssumption DEF SlotAccounting
<1>6. NoLostWakeup' /\ TurnOrder'
  BY <1>1 DEF NoLostWakeup, TurnOrder
<1> QED BY <1>2, <1>4, <1>5, <1>6

-----------------------------------------------------------------------------
(* The dispatcher.                                                         *)

NextOwner == Head(rotation)
NextCall  == Head(queue[NextOwner])

\* The owner whose turn it is has a queued future at the head of its queue.
LEMMA NextIsQueued ==
  ASSUME GateInv, MayGrant
  PROVE  /\ NextOwner \in Owners
         /\ NextOwner = rotation[1] /\ 1 \in DOMAIN rotation
         /\ queue[NextOwner] \in Seq(Calls) /\ queue[NextOwner] # <<>>
         /\ NextCall \in Calls
         /\ NextCall \in Queued
         /\ OwnerOf[NextCall] = NextOwner
<1>1. rotation \in Seq(Owners) /\ rotation # <<>> /\ Injective(rotation)
  BY DEF GateInv, GateTypeOK, MayGrant, RotationExact
<1>2. /\ NextOwner \in Owners /\ NextOwner = rotation[1]
      /\ NextOwner \in Elements(rotation)
  BY <1>1, TailElements DEF NextOwner
<1>3. 1 \in DOMAIN rotation
  <2>1. DOMAIN rotation = 1 .. Len(rotation) /\ Len(rotation) \in Nat \ {0}
    BY <1>1, LenProperties, EmptySeq
  <2> QED BY <2>1
<1>4. /\ queue[NextOwner] \in Seq(Calls) /\ queue[NextOwner] # <<>>
      /\ Injective(queue[NextOwner])
      /\ Elements(queue[NextOwner]) = {d \in Queued : OwnerOf[d] = NextOwner}
  BY <1>2 DEF GateInv, GateTypeOK, RotationExact
<1>5. NextCall \in Calls /\ NextCall \in Elements(queue[NextOwner])
  BY <1>4, TailElements DEF NextCall
<1> QED BY <1>2, <1>3, <1>4, <1>5

\* A turn that takes its future out of Queued keeps queues and rotation exact.
LEMMA TurnKeepsExact ==
  ASSUME GateInv, MayGrant, TakeTurn(NextOwner), Queued' = Queued \ {NextCall}
  PROVE  /\ queue' \in [Owners -> Seq(Calls)]
         /\ rotation' \in Seq(Owners)
         /\ RotationExact'
<1> DEFINE o == NextOwner
           c == NextCall
           rest == Tail(queue[o])
<1>1. /\ o \in Owners /\ c \in Calls /\ OwnerOf[c] = o
      /\ queue[o] \in Seq(Calls) /\ queue[o] # <<>>
  BY NextIsQueued
<1>2. /\ queue \in [Owners -> Seq(Calls)]
      /\ rotation \in Seq(Owners) /\ rotation # <<>>
      /\ Injective(rotation)
      /\ Elements(rotation) = {p \in Owners : queue[p] # <<>>}
      /\ \A p \in Owners :
           /\ Injective(queue[p])
           /\ Elements(queue[p]) = {d \in Queued : OwnerOf[d] = p}
  BY DEF GateInv, GateTypeOK, MayGrant, RotationExact
<1>3. /\ queue' = [queue EXCEPT ![o] = rest]
      /\ rotation' = IF rest = <<>> THEN Tail(rotation)
                                    ELSE Append(Tail(rotation), o)
  BY DEF TakeTurn
<1>4. /\ rest \in Seq(Calls)
      /\ Injective(rest)
      /\ Elements(rest) = Elements(queue[o]) \ {c}
  BY <1>1, <1>2, TailElements DEF NextCall
<1>5. /\ Tail(rotation) \in Seq(Owners)
      /\ Injective(Tail(rotation))
      /\ Elements(Tail(rotation)) = Elements(rotation) \ {o}
  BY <1>2, TailElements DEF NextOwner
<1>6. /\ Append(Tail(rotation), o) \in Seq(Owners)
      /\ Injective(Append(Tail(rotation), o))
      /\ Elements(Append(Tail(rotation), o)) = Elements(Tail(rotation)) \cup {o}
  <2> DEFINE t == Tail(rotation)
  <2>1. t \in Seq(Owners) /\ Injective(t) /\ o \in Owners /\ o \notin Elements(t)
    BY <1>1, <1>5
  <2> HIDE DEF o, t
  <2>2. /\ Append(t, o) \in Seq(Owners)
        /\ Injective(Append(t, o))
        /\ Elements(Append(t, o)) = Elements(t) \cup {o}
    BY <2>1, AppendElements
  <2> QED BY <2>2 DEF t
<1> HIDE DEF o, c, rest
<1>7. queue' \in [Owners -> Seq(Calls)] /\ rotation' \in Seq(Owners)
  BY <1>1, <1>2, <1>3, <1>4, <1>5, <1>6
<1>8. Injective(rotation')
  BY <1>3, <1>5, <1>6
<1>9. Elements(rotation') = {p \in Owners : queue'[p] # <<>>}
  <2>1. CASE rest = <<>>
    BY <2>1, <1>1, <1>2, <1>3, <1>5
  <2>2. CASE rest # <<>>
    <3>1. Elements(rotation') = Elements(rotation) \cup {o}
      BY <2>2, <1>3, <1>5, <1>6
    <3> QED BY <2>2, <3>1, <1>1, <1>2, <1>3
  <2> QED BY <2>1, <2>2
<1>10. ASSUME NEW p \in Owners
       PROVE  /\ Injective(queue'[p])
              /\ Elements(queue'[p]) = {d \in Queued' : OwnerOf[d] = p}
  <2>1. Queued' = Queued \ {c}
    BY DEF c
  <2>2. CASE p = o
    BY <2>1, <2>2, <1>1, <1>2, <1>3, <1>4
  <2>3. CASE p # o
    <3>1. queue'[p] = queue[p]
      BY <2>3, <1>2, <1>3
    <3>2. {d \in Queued' : OwnerOf[d] = p} = {d \in Queued : OwnerOf[d] = p}
      BY <2>1, <2>3, <1>1
    <3> QED BY <3>1, <3>2, <1>2
  <2> QED BY <2>2, <2>3
<1> QED BY <1>7, <1>8, <1>9, <1>10 DEF RotationExact

\* A turn after which nobody was granted since it, and at most its owner was
\* added to what the others have seen, keeps the turn order.
LEMMA TurnKeepsOrder ==
  ASSUME GateInv, MayGrant, TakeTurn(NextOwner),
         since'[NextOwner] = {},
         \A p \in Owners \ {NextOwner} : since'[p] \subseteq since[p] \cup {NextOwner}
  PROVE  TurnOrder'
<1> DEFINE o == NextOwner
           n == Len(rotation)
<1>1. /\ rotation \in Seq(Owners) /\ rotation # <<>>
      /\ Injective(rotation)
      /\ o \in Owners /\ o = rotation[1]
      /\ rotation' = Tail(rotation) \/ rotation' = Append(Tail(rotation), o)
  BY NextIsQueued DEF GateInv, GateTypeOK, MayGrant, RotationExact, TakeTurn
<1>2. /\ n \in Nat \ {0} /\ DOMAIN rotation = 1 .. n
      /\ Tail(rotation) \in Seq(Owners)
      /\ Len(Tail(rotation)) = n - 1
      /\ \A i \in 1 .. n - 1 : Tail(rotation)[i] = rotation[i + 1]
  BY <1>1, HeadTailProperties, LenProperties, EmptySeq
<1>3. \/ /\ DOMAIN rotation' = 1 .. n - 1
         /\ \A i \in 1 .. n - 1 : rotation'[i] = rotation[i + 1]
      \/ /\ DOMAIN rotation' = 1 .. n
         /\ \A i \in 1 .. n - 1 : rotation'[i] = rotation[i + 1]
         /\ rotation'[n] = o
  <2>1. CASE rotation' = Tail(rotation)
    BY <2>1, <1>2, LenProperties
  <2>2. CASE rotation' = Append(Tail(rotation), o)
    <3> DEFINE t == Tail(rotation)
    <3>1. /\ t \in Seq(Owners) /\ o \in Owners /\ Len(t) = n - 1
          /\ \A i \in 1 .. n - 1 : t[i] = rotation[i + 1]
          /\ rotation' = Append(t, o)
      BY <1>1, <1>2, <2>2
    <3> HIDE DEF o, t, n
    <3>2. /\ rotation' \in Seq(Owners)
          /\ Len(rotation') = Len(t) + 1
          /\ \A i \in 1 .. Len(t) : rotation'[i] = t[i]
          /\ rotation'[Len(t) + 1] = o
      BY <3>1, AppendProperties
    <3>3. DOMAIN rotation' = 1 .. n
      BY <3>1, <3>2, <1>2, LenProperties
    <3> QED BY <3>1, <3>2, <3>3, <1>2
  <2> QED BY <2>1, <2>2, <1>1
<1> SUFFICES ASSUME NEW i \in DOMAIN rotation', NEW j \in DOMAIN rotation',
                    rotation'[j] \in since'[rotation'[i]]
             PROVE  i < j
  BY DEF TurnOrder
<1>4. rotation'[i] # o
  OBVIOUS
<1>5. /\ i \in 1 .. n - 1
      /\ rotation'[i] = rotation[i + 1]
      /\ rotation[i + 1] \in Owners
  BY <1>1, <1>2, <1>3, <1>4, ElementOfSeq
<1>6. rotation'[j] \in since[rotation[i + 1]] \cup {o}
  BY <1>4, <1>5
<1>7. CASE j \in 1 .. n - 1
  <2>1. rotation'[j] = rotation[j + 1] /\ j + 1 \in 1 .. n /\ j + 1 # 1
    BY <1>7, <1>2, <1>3
  <2>2. rotation'[j] # o
    BY <2>1, <1>1, <1>2 DEF Injective
  <2>3. rotation[j + 1] \in since[rotation[i + 1]] /\ i + 1 \in 1 .. n
    BY <2>1, <2>2, <1>5, <1>6, <1>2
  <2>4. i + 1 < j + 1
    BY <2>1, <2>3, <1>2 DEF GateInv, TurnOrder
  <2> QED BY <2>4, <1>5, <1>7, <1>2
<1>8. CASE j \notin 1 .. n - 1
  BY <1>8, <1>2, <1>3, <1>5
<1> QED BY <1>7, <1>8

LEMMA BeginInv == GateInv /\ DispatchBegin => GateInv'
<1> SUFFICES ASSUME GateInv, DispatchBegin PROVE GateInv'
  OBVIOUS
<1>1. /\ worker' = "running"
      /\ UNCHANGED <<queue, rotation, running, wakeup, fut, since>>
  BY DEF DispatchBegin
<1>2. GateTypeOK'
  BY <1>1 DEF GateInv, GateTypeOK, WorkerState
<1>3. RotationExact' /\ SlotAccounting' /\ TurnOrder'
  BY <1>1 DEF GateInv, RotationExact, Queued, SlotAccounting, Granted, TurnOrder
<1>4. NoLostWakeup'
  BY <1>1 DEF NoLostWakeup
<1> QED BY <1>2, <1>3, <1>4 DEF GateInv

LEMMA SleepInv == GateInv /\ DispatchSleep => GateInv'
<1> SUFFICES ASSUME GateInv, DispatchSleep PROVE GateInv'
  OBVIOUS
<1>1. /\ ~MayGrant
      /\ wakeup' = FALSE /\ worker' = "asleep"
      /\ UNCHANGED <<queue, rotation, running, fut, since>>
  BY DEF DispatchSleep
<1>2. GateTypeOK'
  <2>1. wakeup' \in BOOLEAN
    BY <1>1, Zenon
  <2> QED BY <2>1, <1>1 DEF GateInv, GateTypeOK, WorkerState
<1>3. RotationExact' /\ SlotAccounting' /\ TurnOrder'
  BY <1>1 DEF GateInv, RotationExact, Queued, SlotAccounting, Granted, TurnOrder
<1>4. NoLostWakeup'
  BY <1>1 DEF NoLostWakeup, MayGrant
<1> QED BY <1>2, <1>3, <1>4 DEF GateInv

LEMMA GrantInv == GateInv /\ DispatchGrant => GateInv'
<1> SUFFICES ASSUME GateInv, DispatchGrant PROVE GateInv'
  OBVIOUS
<1>1. /\ MayGrant /\ TakeTurn(NextOwner)
      /\ fut[NextCall] = "pending"
      /\ fut' = [fut EXCEPT ![NextCall] = "granted"]
      /\ running' = running + 1
      /\ since' = [p \in Owners |-> IF p = NextOwner THEN {}
                                                    ELSE since[p] \cup {NextOwner}]
      /\ worker = "running" /\ worker' = worker /\ wakeup' = wakeup
  BY DEF DispatchGrant, NextOwner, NextCall
<1>2. /\ fut \in [Calls -> FutureState] /\ running \in Int
      /\ since \in [Owners -> SUBSET Owners] /\ wakeup \in BOOLEAN
      /\ NextCall \in Calls /\ NextOwner \in Owners
  BY <1>1, NextIsQueued DEF GateInv, GateTypeOK
<1>3. Queued' = Queued \ {NextCall}
  BY <1>1, <1>2 DEF Queued, FutureState
<1>4. /\ queue' \in [Owners -> Seq(Calls)] /\ rotation' \in Seq(Owners)
      /\ RotationExact'
  BY <1>1, <1>3, TurnKeepsExact
<1>5. GateTypeOK'
  <2>1. wakeup' \in BOOLEAN
    BY <1>1, <1>2, Zenon
  <2>2. since' \in [Owners -> SUBSET Owners]
    BY <1>1, <1>2
  <2>3. fut' \in [Calls -> FutureState] /\ worker' \in WorkerState /\ running' \in Int
    BY <1>1, <1>2 DEF FutureState, WorkerState
  <2> QED BY <2>1, <2>2, <2>3, <1>4, Zenon DEF GateTypeOK
<1>6. SlotAccounting'
  <2>1. Granted' = Granted \cup {NextCall} /\ NextCall \notin Granted
    BY <1>1, <1>2 DEF Granted
  <2>2. IsFiniteSet(Granted)
    BY GateAssumption, FS_Subset DEF Granted
  <2>3. Cardinality(Granted') = Cardinality(Granted) + 1
    BY <2>1, <2>2, FS_AddElement
  <2> QED BY <2>3, <1>1, <1>2, GateAssumption DEF GateInv, SlotAccounting, MayGrant
<1>7. NoLostWakeup'
  BY <1>1 DEF NoLostWakeup
<1>8. TurnOrder'
  <2>1. /\ since'[NextOwner] = {}
        /\ \A p \in Owners \ {NextOwner} :
             since'[p] \subseteq since[p] \cup {NextOwner}
    BY <1>1, <1>2
  <2> QED BY <2>1, <1>1, TurnKeepsOrder
<1> QED BY <1>4, <1>5, <1>6, <1>7, <1>8 DEF GateInv

LEMMA SkipInv == GateInv /\ DispatchSkip => GateInv'
<1> SUFFICES ASSUME GateInv, DispatchSkip PROVE GateInv'
  OBVIOUS
<1>1. /\ MayGrant /\ TakeTurn(NextOwner)
      /\ fut[NextCall] # "pending"
      /\ fut' = [fut EXCEPT ![NextCall] = "free"]
      /\ since' = [since EXCEPT ![NextOwner] = {}]
      /\ worker = "running"
      /\ running' = running /\ worker' = worker /\ wakeup' = wakeup
  BY DEF DispatchSkip, NextOwner, NextCall
<1>2. /\ fut \in [Calls -> FutureState] /\ running \in Int
      /\ since \in [Owners -> SUBSET Owners] /\ wakeup \in BOOLEAN
      /\ NextCall \in Calls /\ NextOwner \in Owners
      /\ NextCall \in Queued
  BY <1>1, NextIsQueued DEF GateInv, GateTypeOK
<1>3. Queued' = Queued \ {NextCall}
  BY <1>1, <1>2 DEF Queued, FutureState
<1>4. /\ queue' \in [Owners -> Seq(Calls)] /\ rotation' \in Seq(Owners)
      /\ RotationExact'
  BY <1>1, <1>3, TurnKeepsExact
<1>5. GateTypeOK'
  <2>1. wakeup' \in BOOLEAN
    BY <1>1, <1>2, Zenon
  <2>2. since' \in [Owners -> SUBSET Owners]
    BY <1>1, <1>2
  <2>3. fut' \in [Calls -> FutureState] /\ worker' \in WorkerState /\ running' \in Int
    BY <1>1, <1>2 DEF FutureState, WorkerState
  <2> QED BY <2>1, <2>2, <2>3, <1>4, Zenon DEF GateTypeOK
<1>6. SlotAccounting'
  <2>1. Granted' = Granted
    BY <1>1, <1>2 DEF Granted, Queued
  <2> QED BY <2>1, <1>1 DEF GateInv, SlotAccounting
<1>7. NoLostWakeup'
  BY <1>1 DEF NoLostWakeup
<1>8. TurnOrder'
  <2>1. /\ since'[NextOwner] = {}
        /\ \A p \in Owners \ {NextOwner} :
             since'[p] \subseteq since[p] \cup {NextOwner}
    BY <1>1, <1>2
  <2> QED BY <2>1, <1>1, TurnKeepsOrder
<1> QED BY <1>4, <1>5, <1>6, <1>7, <1>8 DEF GateInv

-----------------------------------------------------------------------------
(* The theorems.                                                           *)

LEMMA GateNextInv == GateInv /\ [GateNext]_gateVars => GateInv'
<1> SUFFICES ASSUME GateInv, [GateNext]_gateVars PROVE GateInv'
  OBVIOUS
<1>1. CASE \E c \in Calls : Acquire(c) \/ Cancel(c) \/ Resume(c) \/ Release(c)
  BY <1>1, AcquireInv, CancelResumeInv, ReleaseInv
<1>2. CASE Dispatch
  BY <1>2, BeginInv, SleepInv, GrantInv, SkipInv DEF Dispatch
<1>3. CASE GateReset
  BY <1>3, ResetInv
<1>4. CASE UNCHANGED gateVars
  <2>1. UNCHANGED <<queue, rotation, running, wakeup, worker, fut, since>>
    BY <1>4 DEF gateVars
  <2>2. GateTypeOK'
    BY <2>1 DEF GateInv, GateTypeOK
  <2>3. RotationExact' /\ SlotAccounting' /\ TurnOrder'
    BY <2>1 DEF GateInv, RotationExact, Queued, SlotAccounting, Granted, TurnOrder
  <2>4. NoLostWakeup'
    BY <2>1 DEF GateInv, NoLostWakeup, MayGrant
  <2> QED BY <2>2, <2>3, <2>4 DEF GateInv
<1> QED BY <1>1, <1>2, <1>3, <1>4 DEF GateNext

\* The inductive invariant of service/fair_queue.py, for any number of calls,
\* owners and slots.
THEOREM GateInvariant == GateSpec => []GateInv
<1>1. GateInit => GateInv
  BY InitInv
<1>2. GateInv /\ [GateNext]_gateVars => GateInv'
  BY GateNextInv
<1> QED BY <1>1, <1>2, PTL DEF GateSpec

\* Every variable of the gate keeps its type.
THEOREM GateTypeCorrect == GateSpec => []GateTypeOK
<1>1. GateInv => GateTypeOK
  BY DEF GateInv
<1> QED BY <1>1, GateInvariant, PTL

\* _running counts exactly the slots in use and never exceeds the capacity.
THEOREM GateAccounting == GateSpec => []SlotAccounting
<1>1. GateInv => SlotAccounting
  BY DEF GateInv
<1> QED BY <1>1, GateInvariant, PTL

\* The rotation lists exactly the owners with queued futures.
THEOREM GateRotation == GateSpec => []RotationExact
<1>1. GateInv => RotationExact
  BY DEF GateInv
<1> QED BY <1>1, GateInvariant, PTL

\* The dispatcher never sleeps through work it could grant.
THEOREM GateWakeup == GateSpec => []NoLostWakeup
<1>1. GateInv => NoLostWakeup
  BY DEF GateInv
<1> QED BY <1>1, GateInvariant, PTL

\* A step that grants a future is the dispatcher's, for the first call of the
\* owner whose turn it is.
LEMMA GrantIsNext ==
  ASSUME GateInv, [GateNext]_gateVars,
         NEW c \in Calls, fut[c] = "pending", fut'[c] = "granted"
  PROVE  MayGrant /\ c = NextCall
<1>1. fut[c] = "pending" /\ fut'[c] = "granted"
  OBVIOUS
<1>2. fut \in [Calls -> FutureState]
  BY DEF GateInv, GateTypeOK
<1>3. ~UNCHANGED gateVars
  BY <1>1 DEF gateVars
<1>4. ~GateReset
  BY <1>1 DEF GateReset
<1>5. ASSUME NEW d \in Calls PROVE ~(Acquire(d) \/ Cancel(d) \/ Resume(d) \/ Release(d))
  BY <1>1, <1>2 DEF Acquire, Cancel, Resume, Release
<1>6. ~DispatchBegin /\ ~DispatchSleep
  BY <1>1 DEF DispatchBegin, DispatchSleep
<1>7. ~DispatchSkip
  BY <1>1, <1>2 DEF DispatchSkip
<1>8. DispatchGrant
  BY <1>3, <1>4, <1>5, <1>6, <1>7 DEF GateNext, Dispatch
<1>9. MayGrant /\ fut' = [fut EXCEPT ![NextCall] = "granted"]
  BY <1>8 DEF DispatchGrant, NextOwner, NextCall
<1>10. c = NextCall
  BY <1>1, <1>2, <1>9
<1> QED BY <1>9, <1>10

LEMMA GrantIsFair ==
  ASSUME GateInv, [GateNext]_gateVars,
         NEW o \in Owners, NEW p \in Owners,
         GrantStep(p), o # p, o \in Elements(rotation)
  PROVE  p \notin since[o]
<1>1. /\ MayGrant /\ p = rotation[1] /\ 1 \in DOMAIN rotation
  BY GrantIsNext, NextIsQueued DEF GrantStep
<1>2. PICK i \in DOMAIN rotation : rotation[i] = o
  BY DEF Elements
<1>3. DOMAIN rotation = 1 .. Len(rotation) /\ Len(rotation) \in Nat
  BY LenProperties DEF GateInv, GateTypeOK
<1>4. i > 1
  BY <1>1, <1>2, <1>3
<1> QED BY <1>1, <1>2, <1>3, <1>4 DEF GateInv, TurnOrder

\* Round robin: between two turns of an owner that waits, no other owner is
\* granted twice, however many calls it has queued.
THEOREM GateRoundRobin == GateSpec => RoundRobin
<1>1. GateInv /\ [GateNext]_gateVars =>
        [\A o, p \in Owners :
            (GrantStep(p) /\ o # p /\ o \in Elements(rotation))
               => p \notin since[o]]_gateVars
  BY GrantIsFair
<1> QED BY <1>1, GateInvariant, PTL DEF GateSpec, RoundRobin

LEMMA GrantIsOldest ==
  ASSUME GateInv, [GateNext]_gateVars, NEW o \in Owners,
         NEW i \in DOMAIN queue[o], NEW j \in DOMAIN queue[o],
         fut[queue[o][j]] = "pending", fut'[queue[o][j]] = "granted"
  PROVE  j <= i
<1> DEFINE c == queue[o][j]
<1>1. /\ queue[o] \in Seq(Calls) /\ Injective(queue[o])
      /\ Elements(queue[o]) = {d \in Queued : OwnerOf[d] = o}
      /\ DOMAIN queue[o] = 1 .. Len(queue[o]) /\ Len(queue[o]) \in Nat
  BY LenProperties DEF GateInv, GateTypeOK, RotationExact
<1>2. c \in Calls /\ OwnerOf[c] = o
  BY <1>1 DEF Elements, Queued
<1>3. MayGrant /\ c = NextCall
  BY <1>2, GrantIsNext
<1>4. o = NextOwner /\ queue[o] # <<>>
  BY <1>2, <1>3, NextIsQueued
<1>5. queue[o][1] = c /\ 1 \in DOMAIN queue[o]
  <2>1. NextCall = queue[o][1]
    BY <1>1, <1>4, TailElements DEF NextCall
  <2> QED BY <2>1, <1>1, <1>3
<1>6. j = 1
  BY <1>1, <1>5 DEF Injective
<1> QED BY <1>1, <1>6

\* A call enters its owner's queue at the end.
LEMMA JoinsLast ==
  ASSUME GateInv, [GateNext]_gateVars, NEW o \in Owners,
         NEW i \in DOMAIN queue'[o], NEW j \in DOMAIN queue'[o],
         fut[queue'[o][i]] = "pending", fut[queue'[o][j]] = "free"
  PROVE  i < j
<1>1. /\ queue \in [Owners -> Seq(Calls)] /\ fut \in [Calls -> FutureState]
      /\ Elements(queue[o]) \subseteq Queued
  BY DEF GateInv, GateTypeOK, RotationExact
<1>2. \A k \in DOMAIN queue[o] : fut[queue[o][k]] # "free"
  BY <1>1 DEF Elements, Queued
<1>3. CASE queue'[o] = queue[o]
  BY <1>2, <1>3
<1>4. CASE GateReset
  <2>1. DOMAIN queue'[o] = {}
    BY <1>4 DEF GateReset
  <2> QED BY <2>1
<1>5. CASE DispatchGrant \/ DispatchSkip
  <2>1. MayGrant /\ TakeTurn(NextOwner)
    BY <1>5 DEF DispatchGrant, DispatchSkip, NextOwner
  <2>2. NextOwner \in Owners /\ queue[NextOwner] # <<>>
    BY <2>1, NextIsQueued
  <2>3. CASE o = NextOwner
    <3>1. queue'[o] = Tail(queue[o])
      BY <1>1, <2>1, <2>3 DEF TakeTurn
    <3>2. Elements(queue'[o]) \subseteq Elements(queue[o])
      <4>1. Injective(queue[o])
        BY DEF GateInv, RotationExact
      <4> QED BY <4>1, <1>1, <2>2, <2>3, <3>1, TailElements
    <3> QED BY <3>2, <1>2 DEF Elements
  <2>4. CASE o # NextOwner
    BY <1>1, <2>1, <2>4, <1>3 DEF TakeTurn
  <2> QED BY <2>3, <2>4
<1>6. ASSUME NEW c \in Calls, Acquire(c)
      PROVE  i < j
  <2>1. CASE o # OwnerOf[c]
    BY <1>1, <1>6, <2>1, <1>3 DEF Acquire
  <2>2. CASE o = OwnerOf[c]
    <3>1. queue'[o] = Append(queue[o], c) /\ fut[c] = "free"
      BY <1>1, <1>6, <2>2 DEF Acquire
    <3>2. queue[o] \in Seq(Calls)
      BY <1>1
    <3>3. /\ Len(queue[o]) \in Nat
          /\ DOMAIN queue[o] = 1 .. Len(queue[o])
          /\ DOMAIN queue'[o] = 1 .. (Len(queue[o]) + 1)
          /\ \A k \in 1 .. Len(queue[o]) : queue'[o][k] = queue[o][k]
          /\ queue'[o][Len(queue[o]) + 1] = c
      BY <3>1, <3>2, <1>6
    <3>4. j = Len(queue[o]) + 1
      BY <3>3, <1>2
    <3>5. i # Len(queue[o]) + 1
      BY <3>1, <3>3
    <3> QED BY <3>3, <3>4, <3>5
  <2> QED BY <2>1, <2>2
<1>7. CASE DispatchBegin \/ DispatchSleep \/ UNCHANGED gateVars
  BY <1>7, <1>3 DEF DispatchBegin, DispatchSleep, gateVars
<1>8. ASSUME NEW c \in Calls, Cancel(c) \/ Resume(c) \/ Release(c)
      PROVE  i < j
  BY <1>8, <1>3 DEF Cancel, Resume, Release
<1> QED BY <1>4, <1>5, <1>6, <1>7, <1>8 DEF GateNext, Dispatch

\* Within one owner the gate is first come, first served.
THEOREM GateOwnerFIFO == GateSpec => OwnerFIFO
<1>1. ASSUME GateInv, [GateNext]_gateVars, NEW o \in Owners,
             NEW i \in DOMAIN queue[o], NEW j \in DOMAIN queue[o],
             i < j, fut[queue[o][j]] = "pending", fut'[queue[o][j]] = "granted"
      PROVE  FALSE
  <2>1. j <= i
    BY <1>1, GrantIsOldest
  <2>2. i \in Nat /\ j \in Nat
    BY LenProperties, <1>1 DEF GateInv, GateTypeOK
  <2> QED BY <2>1, <2>2, <1>1
<1>2. GateInv /\ [GateNext]_gateVars =>
        [\A o \in Owners :
           /\ \A i, j \in DOMAIN queue'[o] :
                 (fut[queue'[o][i]] = "pending" /\ fut[queue'[o][j]] = "free")
                    => i < j
           /\ \A i, j \in DOMAIN queue[o] :
                 (/\ i < j
                  /\ fut[queue[o][j]] = "pending"
                  /\ fut'[queue[o][j]] = "granted")
                    => fut[queue[o][i]] # "pending"]_gateVars
  BY <1>1, JoinsLast
<1> QED BY <1>2, GateInvariant, PTL DEF GateSpec, OwnerFIFO
=============================================================================
