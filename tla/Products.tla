------------------------------ MODULE Products ------------------------------
(***************************************************************************)
(* Products (app/modules/products).  A product is one row with a           *)
(* row_version; every request names the version it was told.  A handler is *)
(* a transaction at READ COMMITTED, whose statements overlap those of      *)
(* others, and the tenant is bound to the transaction, not to the session: *)
(* row-level security hides every product from what runs after a commit.   *)
(* An import creates its rows one by one, each with a commit of its own.   *)
(***************************************************************************)
EXTENDS Scopes, AuditDiff, Trails, SequencesExt

CONSTANTS
    Codes,         \* what requests send as product codes, normalized, of one tenant
    Illegal,       \* those of them that are no product code
    Users,         \* active users of the tenant: they act, and own products
    Actors,        \* users with the permissions they act with:
    UserOf,        \* who an actor is,
    May,           \* the permissions of the actor, resolved,
    Assigners,     \* and whether the actor may assign owners
    Assigned,      \* product_user_assignments: pairs of a user and a code
    Team,          \* pairs of a user and a code that a group of the user is assigned
    Imports,       \* the files that are imported: sequences of codes; a creation is one of one row
    Requests,      \* handler slots: requests that may be in flight together
    MaxRequests,   \* bound: requests
    MaxFaults      \* bound: faults of the server or of the database

Ops == {"CREATE", "UPDATE", "DELETE", "RESTORE"}

ASSUME NoneAssumption == None \notin Users /\ None \notin Nat /\ None \notin Actors
ASSUME CodesAssumption == Illegal \subseteq Codes
ASSUME ImportsAssumption == Imports \subseteq Seq(Codes) \ {<<>>}
ASSUME ActorsAssumption ==
    /\ UserOf \in [Actors -> Users]
    /\ May \in [Actors -> [Ops -> Effective]]
    /\ Assigners \subseteq Actors
ASSUME AssignmentsAssumption ==
    Assigned \subseteq Users \X Codes /\ Team \subseteq Users \X Codes
ASSUME BoundsAssumption == MaxRequests \in Nat /\ MaxFaults \in Nat

VARIABLES
    product,       \* committed products rows
    audit,         \* committed audit events of each product
    req,           \* the handlers, and what their transactions have written
    issued,        \* requests so far
    faults         \* faults so far

vars == <<product, audit, req, issued, faults>>

-----------------------------------------------------------------------------
\* Data.

\* The columns are abstracted to those the handlers decide about; deleted_at is told by the
\* version that set it, and 0 stands for null.  A code without a row has version 0.
Row == [version : Nat, owner : Users \cup {None}, updated_by : Users \cup {None}, deleted : Nat]
NoRow == [version |-> 0, owner |-> None, updated_by |-> None, deleted |-> 0]

Exists(c) == product[c].version > 0

\* product_snapshot: the version is no part of it, the time of deletion and the last
\* writer are.
Fields == {"owner_user_id", "updated_by", "deleted_at"}
Image(row) ==
    [f \in Fields |->
       IF f = "owner_user_id" THEN row.owner
       ELSE IF f = "updated_by" THEN row.updated_by
       ELSE IF row.deleted = 0 THEN None ELSE row.deleted]

AuditEvent == [op : Ops, by : Users, changes : ChangeSets(Fields, Users \cup {None} \cup Nat)]

FactsOf(actor, c, row) ==
    [owner |-> row.owner = UserOf[actor], assigned |-> <<UserOf[actor], c>> \in Assigned,
     team |-> <<UserOf[actor], c>> \in Team]
NoFacts == [owner |-> FALSE, assigned |-> FALSE, team |-> FALSE]

\* get_by_id under the scope of an operation.
Visible(actor, op, c, row) ==
    /\ row.version > 0
    /\ Sees(May[actor][op].scope, FactsOf(actor, c, row))
    /\ op = "UPDATE" => row.deleted = 0

\* ProductCapabilityPolicy.evaluate: what an answer offers the actor.
Evaluate(actor, row, facts) ==
    {op \in Ops \ {"CREATE"} : /\ MasterAllows(May[actor][op], facts)
                               /\ op = "RESTORE" <=> row.deleted > 0}

\* A handler.  The rows of an import, or the product of a mutation; the row that its
\* transaction has written; whether the tenant is bound.  "idle" keeps how the last request
\* of the slot ended, the rows it had committed and what its answer offered.
Stages == {"idle", "row", "loaded", "checked", "written"}
Handler == [pc : Stages, op : Ops, actor : Actors \cup {None}, owner : Users \cup {None},
            rows : Seq(Codes), done : Nat, bound : BOOLEAN, row : Row,
            before : Row, expected : Nat, outcome : {"none", "ok", "failed"},
            offer : SUBSET Ops]

Idle == [pc |-> "idle", op |-> "CREATE", actor |-> None, owner |-> None, rows |-> <<>>,
         done |-> 0, bound |-> FALSE, row |-> NoRow, before |-> NoRow, expected |-> 0,
         outcome |-> "none", offer |-> {}]

Init ==
    /\ product = [c \in Codes |-> NoRow]
    /\ audit = [c \in Codes |-> <<>>]
    /\ req = [r \in Requests |-> Idle]
    /\ issued = 0
    /\ faults = 0

\* The product that a handler is at.
Target(r) == req[r].rows[req[r].done + 1]

Begin(r, handler) ==
    /\ issued' = issued + 1
    /\ req' = [req EXCEPT ![r] = handler]
    /\ UNCHANGED <<product, audit, faults>>

Goes(r, handler) ==
    /\ req' = [req EXCEPT ![r] = handler]
    /\ UNCHANGED <<product, audit, issued, faults>>

\* The request fails, and what it has not committed is undone.
Failed(r) == [Idle EXCEPT !.outcome = "failed", !.done = req[r].done]

\* A transaction that is not over has written the product: an INSERT of the key and an
\* UPDATE of the row wait for it.
Held(r) == \E s \in Requests \ {r} : req[s].pc = "written" /\ Target(s) = Target(r)

\* _validate: who may be named as the owner, and who is the owner if nobody is.
MayName(actor, owner) == owner \in {None, UserOf[actor]} \/ actor \in Assigners
OwnerOf(actor, owner) == IF owner = None THEN UserOf[actor] ELSE owner

-----------------------------------------------------------------------------
\* create, and import_products: create for each row.

CallCreate(r, actor, owner, file) ==
    /\ May[actor]["CREATE"].allowed
    /\ Begin(r, [Idle EXCEPT !.pc = "row", !.op = "CREATE", !.actor = actor, !.owner = owner,
                             !.rows = file, !.bound = TRUE])

\* DUPLICATE_IN_FILE is found when the loop comes to the row, as are an illegal code and an
\* owner whom the actor may not name.
Duplicate(r) == \E i \in 1..req[r].done : req[r].rows[i] = Target(r)
RowRefused(r) ==
    /\ req[r].pc = "row"
    /\ Duplicate(r) \/ Target(r) \in Illegal \/ ~MayName(req[r].actor, req[r].owner)
    /\ Goes(r, Failed(r))

RowPasses(r) ==
    /\ req[r].pc = "row"
    /\ ~Duplicate(r)
    /\ Target(r) \notin Illegal
    /\ MayName(req[r].actor, req[r].owner)

\* The INSERT, which row-level security lets pass in a transaction that the tenant is bound
\* to; and it is the first with its code.
InsertRow(r) ==
    LET h == req[r]  owner == OwnerOf(h.actor, h.owner) IN
    /\ RowPasses(r)
    /\ h.bound
    /\ ~Held(r)
    /\ ~Exists(Target(r))
    /\ Goes(r, [h EXCEPT !.pc = "written",
                         !.row = [version |-> 1, owner |-> owner,
                                  updated_by |-> UserOf[h.actor], deleted |-> 0]])

\* uq_products_tenant_code, deleted products included: EntityConflict.
CodeConflict(r) ==
    /\ RowPasses(r)
    /\ req[r].bound
    /\ ~Held(r)
    /\ Exists(Target(r))
    /\ Goes(r, Failed(r))

\* The policy of the table refuses the row: set_config was local to a transaction that is over.
RowUnbound(r) ==
    /\ RowPasses(r)
    /\ ~req[r].bound
    /\ Goes(r, Failed(r))

-----------------------------------------------------------------------------
\* update, soft_delete, restore.

\* The use case reads the product under the scope of the operation; the version is one that
\* clients have been told.
Load(r, op, actor, owner, c) ==
    /\ May[actor][op].allowed
    /\ Visible(actor, op, c, product[c])
    /\ \E v \in 1..product[c].version :
          Begin(r, [Idle EXCEPT !.pc = "loaded", !.op = op, !.actor = actor, !.owner = owner,
                                !.rows = <<c>>, !.bound = TRUE, !.before = product[c],
                                !.expected = v])

CallUpdate(r, actor, owner, c) == MayName(actor, owner) /\ Load(r, "UPDATE", actor, owner, c)

\* _lifecycle.
CallLifecycle(r, op, actor, c) == Load(r, op, actor, None, c)

\* The repository reads it again.
Check(r) ==
    /\ req[r].pc = "loaded"
    /\ Visible(req[r].actor, req[r].op, Target(r), product[Target(r)])
    /\ Goes(r, [req[r] EXCEPT !.pc = "checked"])

CheckFindsNothing(r) ==
    /\ req[r].pc = "loaded"
    /\ ~Visible(req[r].actor, req[r].op, Target(r), product[Target(r)])
    /\ Goes(r, Failed(r))

\* Mutant: the UPDATE has no condition on the version.
MatchesAny(r) == TRUE

\* The condition of the UPDATE, which has none on the scope or on the deletion.
Matches(r) == product[Target(r)].version = req[r].expected

\* What the UPDATE makes of the row.  An update that names no owner makes the actor the owner.
Changed(r) ==
    LET row == product[Target(r)]  h == req[r]  next == row.version + 1 IN
    [version |-> next, updated_by |-> UserOf[h.actor],
     owner |-> IF h.op = "UPDATE" THEN OwnerOf(h.actor, h.owner) ELSE row.owner,
     deleted |-> IF h.op = "DELETE" THEN next ELSE IF h.op = "RESTORE" THEN 0 ELSE row.deleted]

\* The UPDATE of the row, which is then read back under the same scope.
Write(r) ==
    /\ req[r].pc = "checked"
    /\ ~Held(r)
    /\ Matches(r)
    /\ Visible(req[r].actor, req[r].op, Target(r), Changed(r))
    /\ Goes(r, [req[r] EXCEPT !.pc = "written", !.row = Changed(r)])

\* An actor who gives the product out of the scope does not find it any more: EntityNotFound,
\* and the transaction is rolled back.
WriteUnseen(r) ==
    /\ req[r].pc = "checked"
    /\ ~Held(r)
    /\ Matches(r)
    /\ ~Visible(req[r].actor, req[r].op, Target(r), Changed(r))
    /\ Goes(r, Failed(r))

VersionConflict(r) ==
    /\ req[r].pc = "checked"
    /\ ~Matches(r)
    /\ Goes(r, Failed(r))

-----------------------------------------------------------------------------
\* The audit event and the commit.

\* Mutant: the diff of the event is taken from the row that the version was told of.
EventFromNothing(r) ==
    [op |-> req[r].op, by |-> UserOf[req[r].actor], changes |-> Diff(Image(NoRow), Image(req[r].row), {})]

\* _audit: the diff between what the use case has read and what it has written.
Event(r) ==
    [op |-> req[r].op, by |-> UserOf[req[r].actor],
     changes |-> Diff(Image(req[r].before), Image(req[r].row), {})]

\* Mutant: a creator is taken for the owner.
AnswerFactsOfCreator(r) == [NoFacts EXCEPT !.owner = req[r].op = "CREATE"]

\* The facts that the answer is made from: of a creation those that its command tells; those
\* of an update are read after the commit, when no tenant is bound and nothing is found, however
\* long after it that is.
AnswerFacts(r) ==
    [NoFacts EXCEPT !.owner = req[r].op = "CREATE" /\ req[r].row.owner = UserOf[req[r].actor]]

Persist(r) ==
    /\ req[r].pc = "written"
    /\ product' = [product EXCEPT ![Target(r)] = req[r].row]
    /\ audit' = [audit EXCEPT ![Target(r)] = Append(@, Event(r))]

\* The commit ends the transaction, and with it the setting of the tenant.
NextRow(r) ==
    [req[r] EXCEPT !.pc = "row", !.done = @ + 1, !.row = NoRow, !.bound = FALSE]

\* What a caller is answered; a deletion and a restoration answer nothing.
Answered(r) ==
    [Idle EXCEPT !.outcome = "ok", !.done = req[r].done + 1,
                 !.offer = IF req[r].op \in {"DELETE", "RESTORE"} THEN {}
                           ELSE Evaluate(req[r].actor, req[r].row, AnswerFacts(r))]

Commit(r) ==
    /\ Persist(r)
    /\ req' = [req EXCEPT ![r] = IF req[r].done + 1 < Len(req[r].rows) THEN NextRow(r)
                                 ELSE Answered(r)]
    /\ UNCHANGED <<issued, faults>>

\* The commit takes effect, and the connection is lost before it is acknowledged.
CommitUnacknowledged(r) ==
    /\ faults < MaxFaults
    /\ Persist(r)
    /\ req' = [req EXCEPT ![r] = [Failed(r) EXCEPT !.done = @ + 1]]
    /\ faults' = faults + 1
    /\ UNCHANGED issued

\* The server dies, or a statement fails.
Fail(r) ==
    /\ req[r].pc # "idle"
    /\ faults < MaxFaults
    /\ req' = [req EXCEPT ![r] = Failed(r)]
    /\ faults' = faults + 1
    /\ UNCHANGED <<product, audit, issued>>

-----------------------------------------------------------------------------
Call(r) ==
    /\ req[r].pc = "idle" /\ issued < MaxRequests
    /\ \E actor \in Actors :
          \/ \E owner \in Users \cup {None}, file \in Imports : CallCreate(r, actor, owner, file)
          \/ \E owner \in Users \cup {None}, c \in Codes : CallUpdate(r, actor, owner, c)
          \/ \E op \in {"DELETE", "RESTORE"}, c \in Codes : CallLifecycle(r, op, actor, c)

Step(r) ==
    \/ RowRefused(r) \/ InsertRow(r) \/ CodeConflict(r) \/ RowUnbound(r)
    \/ Check(r) \/ CheckFindsNothing(r)
    \/ Write(r) \/ WriteUnseen(r) \/ VersionConflict(r)
    \/ Commit(r) \/ CommitUnacknowledged(r) \/ Fail(r)

Next == \E r \in Requests : Call(r) \/ Step(r)

Spec == Init /\ [][Next]_vars

-----------------------------------------------------------------------------
\* Properties.

TypeOK ==
    /\ product \in [Codes -> Row]
    /\ audit \in [Codes -> Seq(AuditEvent)]
    /\ req \in [Requests -> Handler]
    /\ issued \in 0..MaxRequests
    /\ faults \in 0..MaxFaults

\* The entries of a trail, by their places, that tell a change of a field.
Telling(trail, f) == {i \in 1..Len(trail) : f \in DOMAIN trail[i].changes}

\* The changes of a field lead, each from what the one before it has left, from what it is of
\* a product that does not exist to a value.
LeadsTo(trail, f, value) ==
    LET own == Telling(trail, f) IN
    /\ own = {} => value = Image(NoRow)[f]
    /\ \A i \in own : IsFirst(i, own) => trail[i].changes[f].old = Image(NoRow)[f]
    /\ \A i, j \in own :
          Follows(j, i, own) => trail[j].changes[f].old = trail[i].changes[f].new
    /\ \A i \in own : IsLast(i, own) => value = trail[i].changes[f].new

\* The audit trail of a product, replayed change by change from nothing, gives the row as it
\* is: it begins with the creation, no commit is left out of it, and none is told twice
\* (use_cases.py _audit, which reads the row before the UPDATE that it describes).
TrailReplays ==
    \A c \in Codes :
        /\ Len(audit[c]) = product[c].version
        /\ \A i \in 1..Len(audit[c]) : audit[c][i].op = "CREATE" <=> i = 1
        /\ \A f \in Fields : LeadsTo(audit[c], f, Image(product[c])[f])

\* Whoever changes a product sees it under the scope of the operation, also at the moment of
\* the commit, however long ago the scope was checked; nobody updates a deleted product; and
\* a product gets another owner only by an actor who takes it or who may assign owners.
ChangesAreRightful ==
    [][\A r \in Requests, c \in Codes :
         product'[c] # product[c] /\ Exists(c) /\ req[r].pc = "written" /\ req'[r] # req[r] =>
           LET h == req[r] IN
           /\ Visible(h.actor, h.op, c, product[c])
           /\ product'[c].owner \in {product[c].owner, UserOf[h.actor]} \/ h.actor \in Assigners]_vars

\* What may be wrong with the row that an import is at.
RowIsWrong(r) ==
    \/ Duplicate(r) \/ Target(r) \in Illegal \/ Exists(Target(r))
    \/ ~MayName(req[r].actor, req[r].owner)

RefusedForItsRow(r) ==
    /\ req[r].pc # "idle" /\ req[r].op = "CREATE"
    /\ req'[r].pc = "idle" /\ req'[r].outcome = "failed" /\ faults' = faults
    => RowIsWrong(r)

\* A file of 1 to 500 rows is imported (use_cases.py:237, and 263 answers how many rows it
\* has): without a fault nothing but a wrong row should make an import fail.  This is not so:
\* the commit of the first row ends the tenant's binding, and RowUnbound refuses the second.
ImportsAreAccepted == [][\A r \in Requests : RefusedForItsRow(r)]_vars

\* What an answer offers, a search by the same actor at that moment offers too: facts that
\* are told from memory, or read without a tenant, never promise more than the database does.
OffersHold ==
    [][\A r \in Requests :
         req[r].pc = "written" /\ req'[r].pc = "idle" =>
           LET c == Target(r)  a == req[r].actor IN
           req'[r].offer \subseteq Evaluate(a, product'[c], FactsOf(a, c, product'[c]))]_vars
=============================================================================
