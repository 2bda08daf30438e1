-------------------------- MODULE BusinessPartner ---------------------------
(***************************************************************************)
(* Business partners and their customer and supplier roles                 *)
(* (app/modules/customers and app/modules/suppliers).  A partner is one    *)
(* row with a row_version; a role is a row of its own, that has none: its  *)
(* deletion and restoration consume the version of the partner, and so the *)
(* two roles of a partner share it.  A supplier role can be added to a     *)
(* partner that exists; that consumes no version and locks nothing.        *)
(*                                                                         *)
(* Every handler is one transaction at READ COMMITTED, and its statements  *)
(* overlap those of others.  A creation, and an import of several rows,    *)
(* inserts one row after the other: an insert waits for a transaction that *)
(* has inserted the same key and is not over, a versioned UPDATE for one   *)
(* that has written the same row.                                          *)
(***************************************************************************)
EXTENDS Trails, SequencesExt

CONSTANTS
    Codes,         \* partner codes of one tenant; a partner is known by its code
    Users,         \* owners
    NoOwner,       \* owner_user_id is null, or is not named by the request
    Requests,      \* handler slots: requests that may be in flight together
    Actors,        \* users with the scope and the right to assign owners they act with
    MaxRows,       \* bound: rows of an import
    MaxRequests    \* bound: requests

ASSUME OwnerAssumption == NoOwner \notin Users
ASSUME ActorsAssumption ==
    Actors \subseteq [user : Users, scope : {"ALL", "OWN"}, assign : BOOLEAN]
ASSUME BoundsAssumption == MaxRows \in Nat \ {0} /\ MaxRequests \in Nat

VARIABLES
    partner,       \* committed business_partners rows
    role,          \* committed partner_roles rows
    audit,         \* committed audit events of each partner
    req,           \* the handlers, and what their transactions have written
    issued         \* requests so far

vars == <<partner, role, audit, req, issued>>

-----------------------------------------------------------------------------
\* Data.

Kinds == {"CUSTOMER", "SUPPLIER"}
Owners == Users \cup {NoOwner}
RoleStates == {"absent", "active", "deleted"}

\* The columns other than the version are abstracted to the owner.
Partner == [version : Nat, owner : Owners]

\* The audited fields: those of the partner and whether the role is active.
Image == [owner : Owners, role : RoleStates]
NoImage == [owner |-> NoOwner, role |-> "absent"]

\* A role added to a partner that exists is audited as a creation too: JOIN tells them apart.
AuditOps == {"CREATE", "JOIN", "UPDATE", "DELETE", "RESTORE"}
AuditEvent == [op : AuditOps, kind : Kinds, before : Image, after : Image]

\* The rows of a creation: one, or those of an import (DUPLICATE_IN_FILE).
Files == {f \in UNION {[1..n -> Codes] : n \in 1..MaxRows} :
            \A i, j \in 1..Len(f) : f[i] = f[j] => i = j}

\* A handler: who asks for what; the rows still to insert, the partners made and joined,
\* and the partner that a lookup has found.
Stages == {"idle", "looking", "inserting", "joining", "loaded", "checked", "written"}
Handler == [pc : Stages, op : {"NONE", "CREATE", "UPDATE", "DELETE", "RESTORE"},
            kind : Kinds, actor : [user : Owners, scope : {"ALL", "OWN"}, assign : BOOLEAN],
            owner : Owners, rows : Seq(Codes), made : SUBSET Codes, joined : SUBSET Codes,
            seen : [Codes -> Owners], target : SUBSET Codes, expected : Nat, before : Image]

Idle == [pc |-> "idle", op |-> "NONE", kind |-> "CUSTOMER",
         actor |-> [user |-> NoOwner, scope |-> "ALL", assign |-> FALSE], owner |-> NoOwner, rows |-> <<>>,
         made |-> {}, joined |-> {}, seen |-> [c \in Codes |-> NoOwner], target |-> {},
         expected |-> 0, before |-> NoImage]

Init ==
    /\ partner = [c \in Codes |-> [version |-> 0, owner |-> NoOwner]]
    /\ role = [c \in Codes |-> [k \in Kinds |-> "absent"]]
    /\ audit = [c \in Codes |-> <<>>]
    /\ req = [r \in Requests |-> Idle]
    /\ issued = 0

Exists(c) == partner[c].version > 0

Begin(r, handler) ==
    /\ req[r].pc = "idle"
    /\ issued < MaxRequests
    /\ issued' = issued + 1
    /\ req' = [req EXCEPT ![r] = handler]
    /\ UNCHANGED <<partner, role, audit>>

Goes(r, handler) ==
    /\ req' = [req EXCEPT ![r] = handler]
    /\ UNCHANGED <<partner, role, audit, issued>>

\* Rolled back: what the transaction has written, and the locks it holds, are no more.
Undo(r) == Goes(r, Idle)

-----------------------------------------------------------------------------
\* Mutant: the UPDATE has no condition on the version.
MatchesAny(r) == TRUE

\* The condition of the UPDATE of a partner.
Matches(r) == \A c \in req[r].target : partner[c].version = req[r].expected

\* An insert waits for an uncommitted row of the same key; an UPDATE that matches waits
\* for a transaction that has written the row.
Blocks(s, r) ==
    \/ req[r].pc = "inserting" /\ Head(req[r].rows) \in req[s].made
    \/ req[r].pc = "joining" /\ Head(req[r].rows) \in req[s].joined
    \/ /\ req[r].pc = "checked" /\ Matches(r)
       /\ req[s].pc = "written" /\ req[s].target \cap req[r].target # {}

Free(r) == \A s \in Requests : ~Blocks(s, r)

-----------------------------------------------------------------------------
\* create and import.

\* The owner of a creation that names none: the actor, or the owner of the partner that a
\* single new supplier role is for (find_existing_partner_owner).
DefaultOwner(kind, file, actor) ==
    IF kind = "SUPPLIER" /\ Len(file) = 1 /\ Exists(Head(file))
    THEN partner[Head(file)].owner ELSE actor.user

\* The stage that deals with the next row.
NextRow(kind, file) ==
    IF file = <<>> THEN "written" ELSE IF kind = "SUPPLIER" THEN "looking" ELSE "inserting"

\* The permission checks, and for an import of customers find_existing_codes.
CallCreate(r, kind, file, actor, owner) ==
    /\ owner \in {NoOwner, actor.user} \/ actor.assign
    /\ kind = "CUSTOMER" /\ Len(file) > 1 => \A i \in 1..Len(file) : ~Exists(file[i])
    /\ Begin(r, [Idle EXCEPT
                   !.pc = NextRow(kind, file), !.op = "CREATE", !.kind = kind,
                   !.actor = actor, !.rows = file,
                   !.owner = IF owner = NoOwner THEN DefaultOwner(kind, file, actor)
                             ELSE owner])

\* Mutant: a row is committed before the next is inserted.
InsertPartnerAtOnce(r) ==
    LET c == Head(req[r].rows) IN
    /\ req[r].pc = "inserting"
    /\ Free(r)
    /\ ~Exists(c)
    /\ Goes(r, [req[r] EXCEPT !.made = @ \cup {c}, !.rows = Tail(@), !.pc = "written"])

\* A new partner with its role.
InsertPartner(r) ==
    LET c == Head(req[r].rows)  rest == Tail(req[r].rows) IN
    /\ req[r].pc = "inserting"
    /\ Free(r)
    /\ ~Exists(c)
    /\ Goes(r, [req[r] EXCEPT !.made = @ \cup {c}, !.rows = rest,
                              !.pc = NextRow(req[r].kind, rest)])

\* IntegrityError on the code: EntityConflict, rolled back.
CodeConflict(r) ==
    /\ req[r].pc = "inserting"
    /\ Exists(Head(req[r].rows))
    /\ Undo(r)

\* Suppliers look for the partner first.
LookFindsNothing(r) ==
    /\ req[r].pc = "looking"
    /\ ~Exists(Head(req[r].rows))
    /\ Goes(r, [req[r] EXCEPT !.pc = "inserting"])

\* _assert_compatible: what the request names must be what the partner has.
Compatible(r, c) == req[r].owner \in {NoOwner, partner[c].owner}

LookFindsPartner(r) ==
    LET c == Head(req[r].rows) IN
    /\ req[r].pc = "looking"
    /\ Exists(c)
    /\ Compatible(r, c)
    /\ Goes(r, [req[r] EXCEPT !.pc = "joining", !.seen[c] = partner[c].owner])

LookFindsConflict(r) ==
    /\ req[r].pc = "looking"
    /\ Exists(Head(req[r].rows))
    /\ ~Compatible(r, Head(req[r].rows))
    /\ Undo(r)

\* A new role of a partner that exists.
InsertRole(r) ==
    LET c == Head(req[r].rows)  rest == Tail(req[r].rows) IN
    /\ req[r].pc = "joining"
    /\ Free(r)
    /\ role[c].SUPPLIER = "absent"
    /\ Goes(r, [req[r] EXCEPT !.joined = @ \cup {c}, !.rows = rest,
                              !.pc = NextRow("SUPPLIER", rest)])

\* The role is there, active or deleted; or IntegrityError on it.
RoleConflict(r) ==
    /\ req[r].pc = "joining"
    /\ role[Head(req[r].rows)].SUPPLIER # "absent"
    /\ Undo(r)

\* The rows of a creation become visible together.  What is audited of a partner joined is
\* the row as the lookup found it.
CommitCreate(r) ==
    LET k == req[r].kind  new == req[r].made \cup req[r].joined IN
    /\ req[r].pc = "written" /\ req[r].op = "CREATE"
    /\ partner' = [c \in Codes |->
                     IF c \in req[r].made THEN [version |-> 1, owner |-> req[r].owner]
                     ELSE partner[c]]
    /\ role' = [c \in Codes |->
                  IF c \in new THEN [role[c] EXCEPT ![k] = "active"] ELSE role[c]]
    /\ audit' = [c \in Codes |->
                   IF c \notin new THEN audit[c]
                   ELSE Append(audit[c],
                          IF c \in req[r].made
                          THEN [op |-> "CREATE", kind |-> k, before |-> NoImage,
                                after |-> [owner |-> req[r].owner, role |-> "active"]]
                          ELSE [op |-> "JOIN", kind |-> k, before |-> NoImage,
                                after |-> [owner |-> req[r].seen[c], role |-> "active"]])]
    /\ req' = [req EXCEPT ![r] = Idle]
    /\ UNCHANGED issued

-----------------------------------------------------------------------------
\* update, soft_delete, restore.

InScope(actor, owner) == actor.scope = "OWN" => owner = actor.user

\* The role states in which get_by_id of the use case, and that of the repository, let an
\* operation pass.
Loadable(op) == IF op = "RESTORE" THEN {"active", "deleted"} ELSE {"active"}
Changeable(op) == IF op = "RESTORE" THEN {"deleted"} ELSE {"active"}

\* Who may name another owner: customers let a request that names none pass.
MayName(kind, actor, named, current) ==
    actor.assign \/ named = current \/ (kind = "CUSTOMER" /\ named = NoOwner)

\* The use case reads the partner, in scope; the client has been told the version it
\* sends.
CallMutation(r, op, kind, c, actor, owner) ==
    /\ role[c][kind] \in Loadable(op)
    /\ InScope(actor, partner[c].owner)
    /\ IF op = "UPDATE" THEN MayName(kind, actor, owner, partner[c].owner) ELSE owner = NoOwner
    /\ \E v \in 1..partner[c].version :
          Begin(r, [Idle EXCEPT
                      !.pc = "loaded", !.op = op, !.kind = kind, !.actor = actor,
                      !.owner = owner, !.target = {c}, !.expected = v,
                      !.before = [owner |-> partner[c].owner, role |-> role[c][kind]]])

\* Mutant: the state of the role is not looked at again.
PassesAnyState(r) ==
    \A c \in req[r].target : InScope(req[r].actor, partner[c].owner)

\* The repository reads the partner again.
Passes(r) ==
    \A c \in req[r].target :
        /\ role[c][req[r].kind] \in Changeable(req[r].op)
        /\ InScope(req[r].actor, partner[c].owner)

Check(r) ==
    /\ req[r].pc = "loaded"
    /\ Passes(r)
    /\ Goes(r, [req[r] EXCEPT !.pc = "checked"])

\* EntityNotFound.
NotFound(r) == req[r].pc = "loaded" /\ ~Passes(r) /\ Undo(r)

\* UPDATE ... WHERE row_version = expected, and for a deletion or a restoration the UPDATE
\* of the role, which has no condition on its state.
Write(r) ==
    /\ req[r].pc = "checked"
    /\ Matches(r)
    /\ Free(r)
    /\ Goes(r, [req[r] EXCEPT !.pc = "written"])

VersionConflict(r) == req[r].pc = "checked" /\ ~Matches(r) /\ Undo(r)

\* The partner as the transaction sees it after its writes.
Owner(r, c) == IF req[r].op = "UPDATE" THEN req[r].owner ELSE partner[c].owner

\* Mutant: what was written is not read again.
StaysUnread(r) == TRUE

\* What was written is read again in the actor's scope: a partner that an update has taken
\* out of it is EntityNotFound, and the update is rolled back.
StaysVisible(r) ==
    \A c \in req[r].target :
        /\ InScope(req[r].actor, Owner(r, c))
        /\ req[r].op = "UPDATE" => role[c][req[r].kind] = "active"

OutOfScope(r) ==
    /\ req[r].pc = "written" /\ req[r].op # "CREATE"
    /\ ~StaysVisible(r)
    /\ Undo(r)

RoleAfter(r, c) ==
    IF req[r].op = "DELETE" THEN "deleted"
    ELSE IF req[r].op = "RESTORE" THEN "active" ELSE role[c][req[r].kind]

CommitMutation(r) ==
    /\ req[r].pc = "written" /\ req[r].op # "CREATE"
    /\ StaysVisible(r)
    /\ \E c \in req[r].target :
          /\ partner' = [partner EXCEPT ![c] = [version |-> @.version + 1,
                                                owner |-> Owner(r, c)]]
          /\ role' = [role EXCEPT ![c][req[r].kind] = RoleAfter(r, c)]
          /\ audit' = [audit EXCEPT ![c] =
                         Append(@, [op |-> req[r].op, kind |-> req[r].kind,
                                    before |-> req[r].before,
                                    after |-> [owner |-> Owner(r, c),
                                               role |-> RoleAfter(r, c)]])]
    /\ req' = [req EXCEPT ![r] = Idle]
    /\ UNCHANGED issued

-----------------------------------------------------------------------------
\* Any statement, the commit included, may fail, and the process may end: rolled back.
Fail(r) == req[r].pc # "idle" /\ Undo(r)

\* PostgreSQL ends one of the transactions that wait for each other.
DeadlockVictim(r) ==
    /\ \E S \in SUBSET Requests :
          r \in S /\ \A p \in S : \E q \in S : Blocks(q, p)
    /\ Undo(r)

\* What the event loop and the database run of a handler.
Step(r) ==
    \/ InsertPartner(r) \/ CodeConflict(r)
    \/ LookFindsNothing(r) \/ LookFindsPartner(r) \/ LookFindsConflict(r)
    \/ InsertRole(r) \/ RoleConflict(r)
    \/ CommitCreate(r)
    \/ Check(r) \/ NotFound(r)
    \/ Write(r) \/ VersionConflict(r)
    \/ OutOfScope(r) \/ CommitMutation(r)
    \/ DeadlockVictim(r)

Call(r) ==
    \E kind \in Kinds, actor \in Actors, owner \in Owners :
        \/ \E file \in Files : CallCreate(r, kind, file, actor, owner)
        \/ \E op \in {"UPDATE", "DELETE", "RESTORE"}, c \in Codes :
              CallMutation(r, op, kind, c, actor, owner)

Next == \E r \in Requests : Call(r) \/ Step(r) \/ Fail(r)

Spec == Init /\ [][Next]_vars

-----------------------------------------------------------------------------
\* Properties.

\* Every variable holds what the schema of its table, or the handler, lets it hold.
TypeOK ==
    /\ partner \in [Codes -> Partner]
    /\ role \in [Codes -> [Kinds -> RoleStates]]
    /\ audit \in [Codes -> Seq(AuditEvent)]
    /\ req \in [Requests -> Handler]
    /\ issued \in 0..MaxRequests

\* A change of an existing partner, and of a role that is there, replaces the version that
\* its client named (README.md, section 11), also when requests of the other role overlap.
Commits(r, c) == req[r].pc = "written" /\ c \in req[r].target /\ req'[r].pc = "idle"

VersionsCount ==
    [][\A c \in Codes :
          LET touched == \E k \in Kinds : role[c][k] # "absent" /\ role'[c][k] # role[c][k]
          IN  Exists(c) /\ (partner'[c] # partner[c] \/ touched) =>
                 /\ partner'[c].version = partner[c].version + 1
                 /\ \E r \in Requests : Commits(r, c) /\ req[r].expected = partner[c].version]_vars

\* The entries of a trail by their places: those that are about the columns of the partner,
\* and those about one of its roles.
Rewrites(trail) == {i \in 1..Len(trail) : trail[i].op # "JOIN"}
OfRole(trail, k) == {i \in 1..Len(trail) : trail[i].kind = k}

\* The partner is created once, then every mutation starts from the columns that the one
\* before it left, and the partner has those that the last one left.
ColumnsExplained(trail, row) ==
    LET all == Rewrites(trail) IN
    /\ all = {} <=> row.version = 0
    /\ \A i \in all : trail[i].op = "CREATE" <=> IsFirst(i, all)
    /\ \A i, j \in all : Follows(j, i, all) => trail[j].before.owner = trail[i].after.owner
    /\ \A i \in all : IsLast(i, all) => row.owner = trail[i].after.owner

\* The state of the role that an operation is for.
FoundBy(op) == CASE op \in {"CREATE", "JOIN"} -> "absent"
                 [] op = "RESTORE" -> "deleted"
                 [] OTHER -> "active"

\* A role is created once, then deleted and restored in turn, and is as its last entry says.
RoleExplained(trail, k, state) ==
    LET own == OfRole(trail, k) IN
    /\ own = {} <=> state = "absent"
    /\ \A i \in own :
          /\ trail[i].op \in {"CREATE", "JOIN"} <=> IsFirst(i, own)
          /\ trail[i].before.role = FoundBy(trail[i].op)
    /\ \A i, j \in own : Follows(j, i, own) => trail[j].before.role = trail[i].after.role
    /\ \A i \in own : IsLast(i, own) => state = trail[i].after.role

\* The audit trail explains the partner and its roles.  A role's UPDATE has no condition on
\* its state: what keeps two deletions apart is the version they share with everything else.
TrailExplainsPartner ==
    \A c \in Codes :
        /\ ColumnsExplained(audit[c], partner[c])
        /\ \A k \in Kinds : RoleExplained(audit[c], k, role[c][k])

\* Rights are not outrun: whatever happened between the checks and the commit, an actor
\* confined to its own partners changes one that is its own and stays so, and an owner is
\* replaced by another only by who may assign owners.  (That an update of a customer may
\* clear the owner without that right is not claimed.)
RightsHold ==
    [][\A r \in Requests, c \in Codes :
          Commits(r, c) /\ partner'[c] # partner[c] =>
             /\ InScope(req[r].actor, partner[c].owner)
             /\ InScope(req[r].actor, partner'[c].owner)
             /\ \/ req[r].actor.assign
                \/ partner'[c].owner \in {partner[c].owner, NoOwner}]_vars

\* An import is all or nothing: a role appears together with those of every other row of
\* the file, and never with an insert still to do.
Asked(r) == ToSet(req[r].rows) \cup req[r].made \cup req[r].joined

ImportIsAtomic ==
    [][\A c \in Codes, k \in Kinds :
          role[c][k] = "absent" /\ role'[c][k] # "absent" =>
             \E r \in Requests :
                /\ req[r].op = "CREATE" /\ req[r].kind = k /\ c \in Asked(r)
                /\ \A d \in Asked(r) : role[d][k] = "absent" /\ role'[d][k] = "active"]_vars

=============================================================================
