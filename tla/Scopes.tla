------------------------------- MODULE Scopes -------------------------------
(***************************************************************************)
(* Permission resolution and data scopes: how the grants of a user become  *)
(* effective permissions (iam/application/permission_resolver.py), which   *)
(* rows a scope lets a statement see (the repositories' _scope), and which *)
(* capabilities an answer shows (the modules' capabilities.py).            *)
(***************************************************************************)
EXTENDS Integers

Scopes == {"NONE", "OWN", "ASSIGNED", "TEAM", "ALL"}
Rank == [NONE |-> 0, OWN |-> 10, ASSIGNED |-> 20, TEAM |-> 30, ALL |-> 40]

\* A grant of one permission by a policy, and the permission that results.  A
\* grant without a scope counts as NONE.
Grant == [effect : {"ALLOW", "DENY"}, scope : Scopes]
Effective == [allowed : BOOLEAN, scope : Scopes]
Denied == [allowed |-> FALSE, scope |-> "NONE"]

\* One DENY wins over every ALLOW; without an ALLOW there is no permission;
\* among ALLOWs the highest scope is taken.
Resolve(grants) ==
  LET allows == {g \in grants : g.effect = "ALLOW"}
  IN  IF allows = {} \/ \E g \in grants : g.effect = "DENY" THEN Denied
      ELSE [allowed |-> TRUE,
            scope |-> CHOOSE s \in {g.scope : g \in allows} : \A g \in allows : Rank[g.scope] <= Rank[s]]

\* What the database knows of an actor and a row.
Facts == [owner : BOOLEAN, assigned : BOOLEAN, team : BOOLEAN]

\* The rows that a statement under a scope sees: products, customers, suppliers,
\* Customer POs (where the assignments are those of the customer) and the dashboard.
Sees(scope, facts) ==
  \/ scope = "ALL"
  \/ scope = "OWN" /\ facts.owner
  \/ scope = "ASSIGNED" /\ facts.assigned
  \/ scope = "TEAM" /\ (facts.owner \/ facts.team)

\* The same question as the capabilities of master data ask it, and as those of
\* Customer POs do, which know the owner only.
MasterAllows(permission, facts) == permission.allowed /\ Sees(permission.scope, facts)
PoAllows(permission, facts) ==
  /\ permission.allowed
  /\ permission.scope = "ALL" \/ (permission.scope \in {"OWN", "TEAM"} /\ facts.owner)
=============================================================================
