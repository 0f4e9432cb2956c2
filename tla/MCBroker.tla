------------------------------ MODULE MCBroker ------------------------------
(* Two reports; one has two calls in flight.                                *)
EXTENDS Broker, TLC

CONSTANTS ra, rb, a1, a2, b1

MCCalls   == {a1, a2, b1}
MCOwners  == {ra, rb}
MCOwnerOf == a1 :> ra @@ a2 :> ra @@ b1 :> rb
=============================================================================
