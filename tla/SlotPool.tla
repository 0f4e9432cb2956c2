------------------------------ MODULE SlotPool ------------------------------
(***************************************************************************)
(* What the concurrency broker promises its clients: at most Capacity      *)
(* slots are held, a call works only while it holds one, and a slot is     *)
(* freed only after the call that uses it has stopped.                     *)
(***************************************************************************)
EXTENDS Integers, FiniteSets

CONSTANTS Calls, Capacity

VARIABLES held,   \* calls the broker accounts a slot to
          using   \* calls at work behind a live connection

poolVars == <<held, using>>

PoolInit == held = {} /\ using = {}

Grant(c) == /\ c \notin held
            /\ Cardinality(held) < Capacity
            /\ held' = held \cup {c}
            /\ UNCHANGED using

Start(c) == /\ c \in held \ using
            /\ using' = using \cup {c}
            /\ UNCHANGED held

Stop(c) == /\ c \in using
           /\ using' = using \ {c}
           /\ UNCHANGED held

Free(c) == /\ c \in held \ using
           /\ held' = held \ {c}
           /\ UNCHANGED using

\* The broker dies: every connection breaks with it.
Forget == held' = {} /\ using' = {}

PoolNext == Forget \/ \E c \in Calls : Grant(c) \/ Start(c) \/ Stop(c) \/ Free(c)

PoolSpec == PoolInit /\ [][PoolNext]_poolVars
=============================================================================
