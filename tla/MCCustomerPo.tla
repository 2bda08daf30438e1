---------------------------- MODULE MCCustomerPo ----------------------------
(***************************************************************************)
(* The instance of CustomerPo that TLC checks: handler slots and line keys *)
(* are interchangeable.                                                    *)
(***************************************************************************)
EXTENDS CustomerPo

Symmetric == Permutations(Requests) \cup Permutations(LineId)

=============================================================================
