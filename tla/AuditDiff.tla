------------------------------ MODULE AuditDiff ------------------------------
(***************************************************************************)
(* The field-level diff of the audit trail (audit/application/             *)
(* diff_service.py).  A snapshot is a function from field paths to values, *)
(* None standing for a field that has no value or is not there at all.     *)
(* The changes of an event are a function from the paths that changed; the *)
(* order of the paths, and with it sequence_no, is left out.               *)
(***************************************************************************)
CONSTANT None

ChangeType(old, new) ==
  IF old = None THEN "ADD" ELSE IF new = None THEN "REMOVE" ELSE "UPDATE"

Change(old, new, sensitive) ==
  [type |-> ChangeType(old, new), sensitive |-> sensitive,
   old |-> IF sensitive THEN None ELSE old, new |-> IF sensitive THEN None ELSE new]

Diff(before, after, sensitive) ==
  [f \in {g \in DOMAIN after : before[g] # after[g]} |->
     Change(before[f], after[f], f \in sensitive)]

\* The changes that an event may hold, of some fields with some values.
ChangeSets(fields, values) ==
  UNION {[changed -> [type : {"ADD", "REMOVE", "UPDATE"}, sensitive : BOOLEAN,
                      old : values, new : values]] : changed \in SUBSET fields}
=============================================================================
