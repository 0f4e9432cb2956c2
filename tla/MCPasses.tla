----------------------------- MODULE MCPasses -----------------------------
(* One buyer pays twice; a request of the webhook and one of the page, or   *)
(* two of either, are in progress at a time.                                *)
EXTENDS Passes, TLC

CONSTANTS b1, s1, s2, q1, q2

MCSessions == {s1, s2}
MCBuyers   == {b1}
MCBuyerOf  == s1 :> b1 @@ s2 :> b1
MCRequests == {q1, q2}
=============================================================================
