----------------------------- MODULE MCFairGate -----------------------------
(* Three reports share a gate: two have two calls in flight and the third   *)
(* has one, for fewer slots than calls.                                     *)
EXTENDS FairGate, TLC

CONSTANTS ra, rb, rc, a1, a2, b1, b2, c1

MCCalls   == {a1, a2, b1, b2, c1}
MCOwners  == {ra, rb, rc}
MCOwnerOf == a1 :> ra @@ a2 :> ra @@ b1 :> rb @@ b2 :> rb @@ c1 :> rc
=============================================================================
