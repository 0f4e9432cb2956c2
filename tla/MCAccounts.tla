----------------------------- MODULE MCAccounts -----------------------------
(* Three requests of every mixture of kinds that share a row, two users, two *)
(* clients, two subscriptions of the first user.                             *)
EXTENDS Accounts, TLC

CONSTANTS q1, q2, q3, ann, bob, k1, k2, s1, s2

MCRequests  == {q1, q2, q3}
MCMailboxes == {ann, bob}
MCClients   == {k1, k2}
MCSubs      == {s1, s2}

MCMailOf    == [s \in MCSubs |-> ann]
MCPassUntil == [m \in MCMailboxes |-> IF m = bob THEN 3 ELSE 0]

Scene(a, b, c, users, subs, start) ==
  [kinds |-> (q1 :> a @@ q2 :> b @@ q3 :> c), users |-> users, subs |-> subs,
   start |-> start]
MCScenes == {Scene("auth", "verify", "verify", {}, {}, 1),
             Scene("analyze", "analyze", "analyze", {}, {}, 1),
             Scene("notify", "notify", "analyze", {ann, bob}, {}, 1),
             Scene("verify", "analyze", "auth", {bob}, {}, 2),
             Scene("webhook", "analyze", "none", {ann}, {s1}, 2),
             Scene("webhook", "webhook", "none", {}, {s1}, 1),
             Scene("webhook", "webhook", "webhook", {}, {s1}, 2),
             Scene("webhook", "webhook", "none", {}, {s1, s2}, 2),
             Scene("webhook", "verify", "logout", {ann}, {s1}, 2)}
=============================================================================
