-------------------------- MODULE VersionedRecord ---------------------------
(***************************************************************************)
(* What an optimistically locked record promises its clients (README.md,   *)
(* sections 10 and 11): the version counts the mutations, every mutation   *)
(* replaces exactly the version before it, a status only moves along the   *)
(* edges of its workflow, and a deleted record accepts nothing but its     *)
(* restoration.  The detailed modules are checked to implement it.         *)
(***************************************************************************)
EXTENDS Naturals

CONSTANTS
    Initial,    \* statuses a new record may have
    Edges,      \* Edges[s]: statuses that may follow s
    Absent      \* the status of a record not created yet

VARIABLES
    status, version, deleted

vars == <<status, version, deleted>>

Init ==
    /\ status = Absent
    /\ version = 0
    /\ deleted = FALSE

Create ==
    /\ version = 0
    /\ status' \in Initial
    /\ version' = 1
    /\ UNCHANGED deleted

\* A mutation of an existing record consumes its version.
Bump == version > 0 /\ version' = version + 1

Edit == Bump /\ ~deleted /\ UNCHANGED <<status, deleted>>

Move == Bump /\ ~deleted /\ status' \in Edges[status] /\ UNCHANGED deleted

SoftDelete == Bump /\ ~deleted /\ deleted' = TRUE /\ UNCHANGED status

Restore == Bump /\ deleted /\ deleted' = FALSE /\ UNCHANGED status

Next == Create \/ Edit \/ Move \/ SoftDelete \/ Restore

Spec == Init /\ [][Next]_vars

=============================================================================
