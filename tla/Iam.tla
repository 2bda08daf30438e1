-------------------------------- MODULE Iam --------------------------------
(***************************************************************************)
(* The permission tables (iam/infrastructure/models.py) as they are about  *)
(* one user and one permission, how administrators change them, and the    *)
(* two statements by which a request reads them: the profile first, then   *)
(* the grants (iam/application/current_user_service.py).  Nothing holds    *)
(* the tables still between the two.                                       *)
(***************************************************************************)
EXTENDS Scopes, FiniteSets

CONSTANTS
    Roles,         \* roles of the installation
    Groups,        \* groups
    Home,          \* those of the user's tenant
    Policies,      \* policies
    Direct         \* the source of the user's own policies (user_policies)

VARIABLES
    active,        \* profiles.is_active
    member,        \* the primary role, and the groups in user_groups
    gone,          \* roles, groups and policies with deleted_at
    attached,      \* role_policies, group_policies and user_policies
    rule           \* policy_permissions: what a policy says of the permission

tables == <<active, member, gone, attached, rule>>

ASSUME HomeAssumption == Home \subseteq Groups
ASSUME SourcesAssumption ==
    Roles \cap Groups = {} /\ Direct \notin Roles \cup Groups \cup Policies

Sources == Roles \cup Groups \cup {Direct}
NoRule == [effect |-> "NONE", scope |-> "NONE"]

IamTypeOK ==
    /\ active \in BOOLEAN
    /\ member \subseteq Roles \cup Groups
    /\ gone \subseteq Roles \cup Groups \cup Policies
    /\ attached \subseteq Sources \X Policies
    /\ rule \in [Policies -> Grant \cup {NoRule}]

-----------------------------------------------------------------------------
\* What administrators do, in transactions of their own.

SetActive == active' = ~active /\ UNCHANGED <<member, gone, attached, rule>>

\* A user has one primary role, or none.
SetRole(role) ==
    /\ role \subseteq Roles /\ Cardinality(role) <= 1
    /\ member \cap Roles # role
    /\ member' = (member \ Roles) \cup role
    /\ UNCHANGED <<active, gone, attached, rule>>

SetDeleted(x) ==
    /\ gone' = IF x \in gone THEN gone \ {x} ELSE gone \cup {x}
    /\ UNCHANGED <<active, member, attached, rule>>

SetRule(p, g) ==
    /\ rule[p] # g
    /\ rule' = [rule EXCEPT ![p] = g]
    /\ UNCHANGED <<active, member, gone, attached>>

-----------------------------------------------------------------------------
\* get_permission_grants: one statement of three joins.

\* The rules of the policies that a source gives.
Rules(source) ==
    {rule[p] : p \in {q \in Policies : <<source, q>> \in attached /\ q \notin gone}} \ {NoRule}

RoleGrants == UNION {Rules(r) : r \in (member \cap Roles) \ gone}

\* Mutant: groups that are deleted count.
GroupGrantsOfAll == UNION {Rules(g) : g \in member \cap Home}
GroupGrants == UNION {Rules(g) : g \in (member \cap Home) \ gone}

DirectGrants == Rules(Direct)

Permission == Resolve(RoleGrants \cup GroupGrants \cup DirectGrants)

\* The rules of docs/IAM_MODEL.md, of a policy that the user has by whatever path.
Has(p) ==
    /\ p \notin gone
    /\ \E s \in (member \cup {Direct}) \ (gone \cup (Groups \ Home)) : <<s, p>> \in attached
Entitled(scope) ==
    LET has == {p \in Policies : Has(p)} IN
    /\ \A p \in has : rule[p].effect # "DENY"
    /\ \E p \in has : rule[p] = [effect |-> "ALLOW", scope |-> scope]
    /\ \A p \in has : rule[p].effect = "ALLOW" => Rank[rule[p].scope] <= Rank[scope]
=============================================================================
