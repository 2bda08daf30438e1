------------------------- MODULE MCBusinessPartner --------------------------
(***************************************************************************)
(* The instance of BusinessPartner that TLC checks: a manager sees all     *)
(* partners and assigns owners, a clerk works on her own, and the same     *)
(* person as an editor changes all partners without assigning.  Requests   *)
(* are interchangeable, and so are codes.                                  *)
(***************************************************************************)
EXTENDS BusinessPartner

CONSTANTS Boss, Worker

Manager == [user |-> Boss, scope |-> "ALL", assign |-> TRUE]
Clerk == [user |-> Worker, scope |-> "OWN", assign |-> FALSE]
Editor == [user |-> Worker, scope |-> "ALL", assign |-> FALSE]

Staff == {Manager, Clerk, Editor}

Symmetric == Permutations(Requests) \cup Permutations(Codes)

=============================================================================
