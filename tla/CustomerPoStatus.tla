-------------------------- MODULE CustomerPoStatus --------------------------
(***************************************************************************)
(* The Customer PO workflow: app/modules/customer_pos/domain/enums.py.     *)
(* A status is a string; Allowed is the transition table that the server   *)
(* enforces before every status change.                                    *)
(***************************************************************************)

Statuses == {"DRAFT", "RECEIVED", "VALIDATING", "VALIDATED", "PROCESSING",
             "ON_HOLD", "CONVERTED", "REJECTED", "CANCELLED"}

Sources == {"MANUAL", "IMPORT", "API", "EDI"}

Allowed ==
    [s \in Statuses |->
        CASE s = "DRAFT"      -> {"RECEIVED", "CANCELLED"}
          [] s = "RECEIVED"   -> {"VALIDATING", "ON_HOLD", "CANCELLED"}
          [] s = "VALIDATING" -> {"VALIDATED", "REJECTED", "ON_HOLD"}
          [] s = "VALIDATED"  -> {"PROCESSING", "ON_HOLD", "CANCELLED"}
          [] s = "PROCESSING" -> {"CONVERTED", "ON_HOLD", "REJECTED"}
          [] s = "ON_HOLD"    -> {"VALIDATING", "VALIDATED", "PROCESSING", "CANCELLED"}
          [] OTHER            -> {}]

\* can_change is false: the states the table calls terminal.
Terminal == {s \in Statuses : Allowed[s] = {}}

\* A PO typed in by a user starts as a draft, any other arrives received.
InitialStatus(source) == IF source = "MANUAL" THEN "DRAFT" ELSE "RECEIVED"

InitialStatuses == {InitialStatus(source) : source \in Sources}

=============================================================================
