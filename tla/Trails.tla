------------------------------- MODULE Trails --------------------------------
(***************************************************************************)
(* The order among some entries of an audit trail, which are told by their *)
(* places in it: what a reader goes through who looks for the entries of   *)
(* one kind (audit/infrastructure/repository.py lists them by time).       *)
(***************************************************************************)
EXTENDS Integers

\* Among the places S: i is the first, the last, and j comes next after i.
IsFirst(i, S) == \A m \in S : i <= m
IsLast(i, S) == \A m \in S : m <= i
Follows(j, i, S) == i < j /\ \A m \in S : m <= i \/ j <= m
=============================================================================
