--------------------------- MODULE MCAttachments ----------------------------
(***************************************************************************)
(* The instance of Attachments that TLC checks: requests of a kind are     *)
(* interchangeable.                                                        *)
(***************************************************************************)
EXTENDS Attachments, TLC

Symmetric == Permutations(Uploads) \cup Permutations(Deletes)

=============================================================================
