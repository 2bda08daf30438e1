----------------------------- MODULE MCProducts -----------------------------
(***************************************************************************)
(* The instance of Products that TLC checks: a manager sees all products   *)
(* and assigns owners; a clerk works on his own products and may name      *)
(* other owners; the same person as the member of a team works on what he  *)
(* owns and on what the team is assigned, which is p1.                     *)
(***************************************************************************)
EXTENDS Products

CONSTANTS P1, P2, Bad, Boss, Worker

All == [allowed |-> TRUE, scope |-> "ALL"]
Own == [allowed |-> TRUE, scope |-> "OWN"]
Group == [allowed |-> TRUE, scope |-> "TEAM"]
User == [manager |-> Boss, clerk |-> Worker, member |-> Worker]
Permissions ==
    [manager |-> [op \in Ops |-> All],
     clerk |-> [op \in Ops |-> IF op \in {"CREATE", "UPDATE"} THEN Own ELSE Denied],
     member |-> [op \in Ops |-> Group]]

Sent == {<<P1>>, <<P1, P2>>, <<P1, P1>>, <<Bad>>}
NoPairs == {}
TeamPairs == {<<Worker, P1>>}
Symmetric == Permutations(Requests)
=============================================================================
