# Verification of the SCM demo backend

TLA+ models of the parts of this repository that keep state and run concurrently,
the TLC runs that check them on small instances, and TLAPS proofs of what matters
most for instances of any size. Paths below are relative to `src/app/modules/`
unless they start with another directory of the repository.

## 1. Inventory

The backend is a FastAPI service over PostgreSQL (SQLAlchemy, asyncpg) and S3. Every
HTTP request is one handler with one session. Transactions run at READ COMMITTED, so
each *statement* sees the commits made before it: two statements of one handler may
see different states. Handlers meet only in the database and in the bucket; there
are no queues, threads, background jobs or callbacks. What can interleave is
therefore the statements of different requests, and what can be lost is an answer,
a connection or the process, between any two statements.

| component | state | operations that change it | hard behaviour | what makes it correct |
|---|---|---|---|---|
| Customer PO aggregate (`customer_pos`) | PO row with `row_version`, its lines, status events, timeline events, audit events | create, update, change_status, soft_delete, restore | lost updates, rules checked on stale reads, lines loaded by a second statement, events stamped before the lock, failure between flushes | version discipline, workflow, agreement of the traces with the row |
| EDI inbound (`edi`) | message row, message events, the PO it creates, the RLS binding of the session | receive (12 commits at most), duplicate detection | a chain of transactions; crash, redelivery, lost acknowledgement of a commit, races on the unique index | one order per document, true receipts, outcomes that stay, an outcome for every message |
| Attachments (`attachments`) | attachment row, S3 object, timeline and audit | upload, delete | two stores that no transaction joins; compensation; delete before check | no acknowledged file is lost, no orphan without a fault, faithful trail |
| Refresh tokens (`auth`) | one row per token, with its family and replacement | login, refresh, logout | one token presented twice at once, logout against refresh, stale joined profile | one live token per login, linear chain, logout is final |
| Business partners (`customers`, `suppliers`) | partner row with `row_version`, one role row per role | create, update, soft_delete, restore, import | two roles share one version; a role is attached without it; inserts wait for each other's keys | every change replaces a named version, rights hold at the commit, all-or-nothing import |
| Products (`products`) | product row with `row_version` | create, update, soft_delete, restore, import | scope checked on reads that the UPDATE does not repeat; an import that commits row by row and loses the tenant binding; answers made after the commit | rights hold at the commit, the trail explains the row, which files are imported, what an answer offers |
| Tenant isolation (`src/app/api/dependencies/identity.py`, RLS policies) | transaction-local setting `app.tenant_id` | bound at the first statement of a request, ends with its transaction | code that goes on after commit or rollback | what a handler sees after its commit |
| Permission resolution (`iam`) | the permission tables | none of the program's: administrators | two statements read what may change between them; DENY against ALLOW; deleted roles, groups, policies | a request has rights that its user was entitled to |
| Audit (`audit`) | audit events and their field changes | written inside the mutations | images built from a stale entity; pages counted and listed at different moments | the trail explains the row; a walk through the pages misses nothing |
| Dashboard (`dashboard`) | none | reads: the overview's statements | panels that tell of different moments; scope, period and previous period | panels agree on what nobody changed |
| Schema (`src/alembic/versions`) | tables, references, rights, policies, permissions, and the data that revisions move | upgrade, downgrade | nineteen hand-written inverses; data moved between tables and back; runs that fail half way | a downgrade undoes its upgrade, no customer is lost, links resolve, the runtime role stays confined |
| Access tokens, password hashes, IAM management queries, HTTP wiring, configuration, seed scripts | none of their own | | | not modelled |

Interaction: `edi` calls `customer_pos` (create) and tracks it in its own
transactions; `attachments` calls `customer_pos` for access and writes its timeline;
every mutation writes `audit` in its own transaction; every request goes through
`auth`/`iam` for the actor and binds the tenant; the schema gives all of them the unique
indexes, references and policies that their models take for granted.

## 2. Modules

| module | models | state |
|---|---|---|
| `CustomerPoStatus` | the workflow of `domain/enums.py` | none |
| `VersionedRecord` | *abstract*: what an optimistically locked record promises (README.md of the repository, sections 10, 11) | status, version, deleted |
| `CustomerPo` | one PO and all handlers that mutate it, statement by statement | committed tables, row lock, write set of the open transaction, handlers |
| `EdiInbound` | deliveries, their messages, timelines and orders | `edi_messages`, events, POs, handlers with their RLS binding |
| `Attachments` | uploads and deletions over bucket and table | rows, objects, trail, handlers |
| `RefreshTokens` | logins, refreshes and logouts of one profile | token rows, row locks, clock, handlers |
| `BusinessPartner` (on `Trails`) | partners with their two roles, and all handlers that change them | committed rows, audit, handlers with what their transactions have written |
| `Scopes` | permission resolution, the rows a scope sees, the capabilities it allows | none |
| `AuditDiff` | the field-level diff of audit events, and what an event may hold | none |
| `Trails` | the order among some entries of an audit trail | none |
| `Products` (on `Scopes`, `AuditDiff`, `Trails`) | products and all handlers that change them | committed rows, audit with its changes, handlers |
| `Iam` (on `Scopes`) | the permission tables of one user and one permission | users, roles, groups, policies and what joins them |
| `Reports` (on `Iam`) | a request that loads its rights, then reads the overview or walks through the audit events, while others write | POs, events, the request and its answer, what was so since it began |
| `Migrations` | the Alembic revisions and the runs that apply them | committed and uncommitted database, the run, what the program wrote between runs |
| `MC*` | the instances TLC checks: symmetry sets, and the values of structured constants | |
| `*Proofs` | inductive invariants and theorems | |

`Reports` composes `Iam` and `Scopes` with the two readers; `Products` composes `Scopes` and
`AuditDiff` with the handlers. The other components meet in the database only and are
checked apart, each with what the others may do to it as an action of its environment
(`PoChanges` of `Attachments`, `PoRefused` and `PoTaken` of `EdiInbound`).

### CustomerPo

One PO suffices because no statement of these handlers touches two. `po`, `lines`,
`history` (`customer_po_status_events`), `timeline` (`customer_po_events`) and
`audit` are what is committed. The first write of a transaction locks the PO row;
until it ends only its owner has uncommitted changes, so one write set `tx` is
enough. A handler's `pc` is the statement it has reached:

    Call* -> loaded -> (update: selected -> fetched -> cleared ->) applied -> traced -> audited -> Commit

* `change_status`, `soft_delete`, `restore` are one `UPDATE ... WHERE row_version =
  expected` each (`ChangeStatus`, `SetDeleted`). A statement that matches a locked row
  waits for the lock (it is not enabled) and then compares again; one that matches
  nothing is a `VersionConflict` at once.
* `update` is three statements: a SELECT with the version (`SelectRow`; the identity map
  is weak, so the earlier load does not hide the new row), the `selectin` load of the lines
  (`SelectLines`), and a flush (`FlushHeader`) that writes the *changed* columns and the
  literal `row_version` read plus one, by primary key, and deletes the lines it loaded.
  The new lines are a second flush (`FlushLines`), which may collide with lines that
  another update has put there (`LineConflict`).
* `Fail` is any statement failing, the commit included, and the death of the process.

Abstractions: the columns of a PO are its status, deletion mark and total; a line is
its number and key, and its amount is its number, so that totals tell sets of lines
apart. Owner, scope and customer checks are left out: they only refuse a request before it
writes. `published` is the highest version a client can have been told; with
`Pipelined` clients may also send versions nobody told them.

### EdiInbound

A delivery is one POST. It names the message row and the PO that it creates. Every
step of the tracker is a transaction (`Transition`); `bound` says whether the
current transaction has `app.tenant_id`. The tracker's unit of work binds again
after *commit* and not after *rollback* (`edi/infrastructure/unit_of_work.py`), so
`FindDuplicate` in stage `refinding` sees nothing. `PoUnacknowledged` is a commit
that succeeds under a lost connection; `Fail` ends a handler between any two commits.
The PO's own statements are `CustomerPo`; here its creation is one step, guarded by the
unique index on (tenant, sender, external id).

The index and the look-up of *messages* have no sender. Two partners that use one
external id therefore share a message, and the second is answered with the first one's
order. Index, look-up and tests agree on this, so that it is modelled (`Other` of
`MCEdiInbound`) and listed as a hazard, not as a finding.

### Attachments

An upload puts the object, then commits row and trail in one transaction; a deletion
removes the object, then commits the versioned soft delete. The database part is one
step because its first statement takes the lock it needs. `PoChanges` is the
environment: the PO becomes writable or not at any moment.

### RefreshTokens

`SELECT ... FOR UPDATE OF refresh_tokens` waits for the lock and reads the token again
when it gets it, while the joined profile is of the statement's snapshot; `now` is
read at the start. Tokens of a login share a *family*, which the code does not
store: it is a history variable, as is `next`, the `replaced_by` column.

### BusinessPartner

A partner is one row with a version; its customer and supplier roles are rows without
one. A handler's `pc` is the statement it has reached:

    CallCreate -> (suppliers: looking ->) inserting | joining -> ... one row after the other -> written -> CommitCreate
    CallMutation -> loaded -> Check -> checked -> Write -> written -> CommitMutation | OutOfScope

* What a transaction has written is in its handler (`made`, `joined`, and `target` once
  `written`) and becomes visible at the commit. `Blocks` says who waits for whom: an insert
  for an uncommitted row of the same key, an UPDATE that matches for a transaction that has
  written the row. When the other commits, the insert is a conflict and the UPDATE
  matches no more; when it is rolled back, they go on. A cycle ends with a
  `DeadlockVictim`.
* `update` and the changes of a role consume the partner's version by a conditional
  UPDATE; joining a supplier role to a partner that exists does not.
* Scope and owner rights are checked on the first read (`CallMutation`), scope on the
  second (`Check`) and on the row as written (`StaysVisible`), the role's state on the
  first two, and on the third by an update.

Abstractions: the master data is the owner, the column that rights and the compatibility
check depend on; scopes are ALL and OWN; addresses are written with a new partner only
and are left out. A one-row import is a creation; IMPORT and CREATE are one audit
operation, and JOIN names the audit entry of a supplier role added to a partner that
exists.

### Products

    CallCreate -> row -> InsertRow -> written -> Commit -> (import: the next row, unbound -> RowUnbound)
    CallUpdate, CallLifecycle -> loaded -> Check -> checked -> Write -> written -> Commit

* The use case reads the product under its scope (`Load`), the repository reads it again
  (`Check`), writes it by id and version (`Matches`), and reads it once more
  (`Write`, or `WriteUnseen` when the actor has given it out of the scope). An UPDATE waits
  for a transaction that has written the row, and an INSERT for one that has written its
  key (`Held`).
* `import_products` calls `create` for each row, and `create` commits. The commit ends the
  transaction-local tenant, so that the second row is refused by the table's policy
  (`NextRow`, `RowUnbound`). Duplicates and illegal codes are found when the loop comes to
  the row. `CommitUnacknowledged` is a commit whose answer is lost.
* The answer's capabilities are computed from the command (create) or from a read after
  the commit (update), which finds nothing (`AnswerFacts`).

Of the columns, owner, last writer and time of deletion are kept, those that the handlers
decide about; an audit event holds the diff of two images (`AuditDiff`). Unlike those of
partners, all five scopes are modelled; assignments are constants, for the program writes
no assignment of a product.

### Iam and Reports

`Iam` keeps the tables as they are about one user and one permission: five sets and
functions that administrators change in transactions of their own. `Permission` is the
statement of three joins with `resolve` over it; `Entitled` is what docs/IAM_MODEL.md says
of a policy that a user has by any path, the reference against which it is held.

`Reports` is one request. It loads the profile, then the grants (`LoadProfile`,
`LoadGrants`), and then is an overview, a `Statement` per panel, or a walk, for each page a
`CountEvents` and a `ListEvents`, with its rights loaded anew. Between any two statements
POs are changed, audit events are appended (with a time that may lie before the newest) and
rights are changed. `since` is a history variable: what was so at some moment since the
request began.

Panels are sets of pairs of a key and a PO, from which counts and amounts follow; amounts,
percentages and limits are left out, as are the attention and country panels and the filters
on customer, owner, status, source and country, all of which narrow the same base query.
Dates are days numbered from a Monday; a month is a bucket of thirty days. A product panel
counts a PO once per currency of its lines (`dashboard/infrastructure/repository.py:277`,
summed at 295), which the model has.

### Migrations

A database is a record: tables with their references, tenant keys, row-level security, the
rights of `app_runtime`, named objects that a later statement names again, seeded
permissions and mappings, and the rows that revisions move. Each revision is two functions,
`Up0001`, `Down0001` and so on, composed of statements that fail where PostgreSQL would
(`schema`: a table that is there already, that is missing, or that another refers to;
`data`: rows that an index, a reference or a check of the revision refuses). A run is one
transaction (env.py): `Begin`, a `Step` per revision, `Commit` or `Rollback`. Between runs the
program writes customers, suppliers, orders and messages as the schema of the day allows,
and people register permissions by hand. `ledger` is what the program has written.

Columns, indexes and constraints that no later statement names come and go with their
table. Rights are given only if the role exists when the revision runs; the repository
creates it first, and so does the model.

## 3. Runs

All bounds are constants of the modules: `MaxRequests` (mutations, refused ones counted only
where the module says so), `MaxFaults` (crashes, lost acknowledgements, unexpected
failures), `MaxClock`, `MaxRows` (rows of an import; the code allows 500), `MaxEvents`,
`MaxChanges`, `MaxGrants`, `MaxWrites`. Deadlock is not checked since clients may stop, and
the bounds make them.

| run | instance | states | question |
|---|---|---|---|
| `po_atomic` | 3 slots, 5 requests, no update | 96 945 | is a PO written by conditional UPDATEs an optimistically locked record? Refinement of `VersionedRecord`, workflow, terminal statuses, order of the history, chain of the audit |
| `po_concurrent` | 2 slots, 4 requests, all operations, any version, 2 line numbers, 2 keys | 1 325 744 | what remains true with update: status = last event, traces, an update takes back nothing but lines and total |
| `po_overwrite` (violation) | 2 slots, 4 requests | | `NoOverwrite` with update |
| `edi` | 3 deliveries, 2 senders, 1 external id or none, 2 faults, fair | 163 300 | one order per document, receipts, links, outcomes; every delivery ends and every message settles unless something faults |
| `edi_duplicate` (violation) | 2 deliveries, no fault | | is the loser of a race a duplicate? |
| `attachments` | 2 uploads, 3 deletions, 2 faults | 51 924 | rows, objects and trail |
| `attachments_delete` (violation) | 1 upload, 1 deletion, no fault | | does a refused deletion keep the file? |
| `tokens` | 3 requests in flight, 3 tokens, clock to 2 | 229 856 | rotation, logout |
| `partners` | 2 slots, 4 requests, 2 codes, imports of up to 2 rows, a manager (ALL, may assign), a clerk (OWN), an editor (ALL, may not assign) | 532 886 | shared version, rights, atomicity |
| `products` | 2 slots, 4 requests, 1 fault, 2 codes and an illegal one; a manager (ALL), a clerk (OWN, may assign), the same person as member of a team (TEAM) | 749 718 | trail, rights at the commit, offers |
| `migrations` | revisions 1, 15 and 19 as targets, 3 writes, 2 ids, 2 tenants, 2 senders | 393 385 | each step of 19 revisions up and down; data moved there and back |
| `reports` | 2 POs of 5 contents, 4 periods, 1 change; 3 events on pages of one; 2 changes of rights among a role, two groups and three policies | 4 379 826 | rights while they change, panels, pages |

Why the bounds suffice for what is asked: two overlapping mutations plus the create and
one more to observe the damage are four requests; leaving a terminal state by a
repeated version number takes five (create, an update, two status changes, the stale
one). A race on the message index takes two deliveries; a third delivers again what
the race left. Two faults let a fault hit the recovery from a fault. One token that is
presented by two requests while a third logs out takes three slots; three tokens are a
login, its rotation, and a second rotation or a second login. On partners, two creations
(the second role) and two overlapping mutations are four requests; a deadlock takes two
imports of two rows. On products, a creation, a hand-over and two mutations that overlap it
are four requests, and files of one and two rows, a repeated and an illegal code are the ways an
import may go. A run to revision 15 and back to 1 or on to 19 passes every revision in both
directions, with customers, orders and messages in two tenants; three writes are a
customer and two orders that share an identity, or a customer, its deletion and a supplier.
Pages of one event make every position a page boundary. POs are dated in the period, on the first and
the last day of the one before it, and on the day before that, so that a previous period that is
empty, shorter, longer or shifted shows. A change of one PO of two leaves
one undisturbed for the panels to agree on; two changes of rights are a revocation and a
grant, which no moment held together.

Fairness (`edi`): weak fairness of each started handler's `Step`. The event loop
runs it, its statements wait for no other request (a held index entry is released by a
commit that is itself one statement), and nothing in it retries. `Receive` and the faults
are not fair: partners and crashes owe nothing. The other modules state safety only: their handlers wait
for each other's locks, and what ends the wait is PostgreSQL, not this code. Of a deadlock
`BusinessPartner` has the end (`DeadlockVictim`), and `ImportIsAtomic` says what it leaves.

Type invariants are not among the runs' properties: they are proved (section 5), except that
of `Migrations`, whose statements check their own arguments (`SchemaStepsFit`).

## 4. What the runs found

The three `violation` runs are disagreements of the code with what the repository says of
it; each is quoted in `PROJECT.json`.

1. `update` of a Customer PO overwrites a mutation committed between its SELECT and its
   flush, and issues the same version twice (`repository.py:240-289`; README.md:340, 345).
   As a consequence a version number returns: update reads v1; a status change makes v2,
   another reads v2 before CANCELLED makes v3; the flush writes 2; the waiting status change
   matches 2 and moves a CANCELLED order. The theorems under `AtomicOps` show that nothing
   but update is to blame.
2. The loser of a race to insert an EDI message looks for the winner's row in a
   transaction that is no longer bound to the tenant and raises the IntegrityError.
3. An attachment's file is removed from S3 before the version check that refuses the
   deletion.

Two more disagreements are stated as properties of their modules, which do not hold, and are not
runs of their own: TLC shows the behaviour when the property is checked with the configuration
named.

4. Two updates of a Customer PO that overlap leave the lines of one under the total of the other
   (`TotalIsOfLines`, `po_concurrent.cfg`): each replaces the lines, but the flush writes the
   total only if it differs from the one read (`repository.py:282-290`), while each update
   computes it from its lines (`use_cases.py:245`). What does hold is `UpdateKeepsToItsOwn`: an
   update that other mutations have overtaken, but no other update, leaves its lines and their
   total.
5. An import of several products is refused at its second row, and leaves the first
   (`ImportsAreAccepted`, `products.cfg`): the commit of a row ends the tenant's binding
   (`products/application/use_cases.py:262`), while line 237 says "1 to 500 rows required", 263
   answers how many rows there are, and `products/presentation/router.py:104` that all of them
   are imported.

Other things that the models show and that no document of the repository denies: the answer of a
product's update offers nothing to an actor whose scope depends on the row (`OffersHold` holds, for it
promises too little, never too much); a crash between two steps of a reception leaves its
message where it is for ever; two EDI partners may meet in one external id; a page of the
audit trail may push an event out of sight if one is committed between its count and its
list (`WalkMissesNothing` says exactly when); the downgrade of 0002 makes the table
`customers` without the rights that 0001 gave on it (`DowngradeUndoes`).

What some properties do not say. `NoOrphans` is of a run without faults and `LostOnlyByDelete` of
acknowledged uploads: an upload whose commit takes effect while its answer is lost is
compensated, and leaves a row without an object, of which the code promises nothing. In
`Products` and `BusinessPartner` clients send versions that they were told, the protocol that
section 11 of the repository's README.md describes; the API accepts any number from 1 on, and a
client that guesses a version that is yet to come may be lucky. `CustomerPo` has such clients
(`Pipelined`). `RightsWereHeld` says of the user's activity and of his scope that each was so at some
moment of the request, not at the same one: they are read by two statements.

## 5. Proofs

All constants are arbitrary: any number of handlers, lines, deliveries, tokens, products,
users and policies, and any bound.

* `CustomerPoProofs` (every operation): `LockedInv`, the types with `LockInv` and what
  the lock implies of the write set, is inductive. On it rest `StatusInv` (the write
  set's status is the target of its event, or the committed status, so a commit keeps
  `StatusIsLastEvent` although `update` ignores versions) and `LinesInv` (from
  `applied` on the write set has a line). `UpdatesAreTold` says that the write set of an
  update is what it was sent over the row and the lines that the lock keeps still, from which
  what one leaves that only other mutations have overtaken follows. Theorems `TypeCorrect`, `RowLock`,
  `StatusFollowsHistory`, `LinesKept`, `UpdatesKeepToTheirOwn`, and `TracesTellTheSame`: between
  `audited` and the commit the write set holds one event of each kind, about one move or
  none, so that every commit lengthens the three trails together.
* The second part of `CustomerPoProofs` assumes `AtomicOps`: `"UPDATE" \notin Ops` and
  `~Pipelined`. It is exactly what finding 1 shows to be needed. `AtomicInv` says
  that the version a client names has been issued, that a handler which loaded version v
  has the image that version had, as long as the row has that version, and that the write
  set is one version on. From it follow `WorkflowIsFollowed`, `NothingIsOverwritten`,
  `TerminalStatusIsFinal` and the refinement `ImplementsVersionedRecord`. `TraceInv` adds that
  a handler whose version is still the row's has the image of the row and was called after
  every status change that is committed (`ReadsAreCurrent`), and that the open transaction
  tells its change from there (`WritesAreTold`): hence `HistoryIsInOrder` and
  `AuditExplainsRow`.
* `EdiInboundProofs`: `Inv` says that message identities are unique and, of each delivery,
  that it `Fits`: a handler's copy of its message is the row, for nobody else writes it
  (`OwnMessage`); what a duplicate has read of the original stays true (`ReadsOriginal`); a
  receipt leads to a linked message of the same external id (`ReceiptLeads`); links are
  to the delivery's own order (`LinkFits`). A step changes one handler and its own message
  (`Moves`), so that `InvKept` leaves one delivery to look at. An event leaves from the status that the
  handler's copy has, which is the row's, so that the timelines stay explained. Theorems
  `TypeCorrect`, `IdempotentReception`, `ReceiptsAreTrustworthy`, `LinksAlwaysFit`,
  `OutcomesAreFinal`, `TimelinesExplain`.
* `AttachmentsProofs`: `Inv` joins where each handler is to what row and bucket then
  hold (a stored upload has its object; a handler that removed an object holds it removed).
  Theorems for all four properties of the run, and the types.
* `RefreshTokensProofs`: `Inv` adds to the properties that each handler is sound
  (`HandlersAreSound`: a rotation holds the lock of a live token) and that families
  are issued (`FamiliesAreIssued`). Theorems for all three properties of the run, for the
  types, the locks, and that a revoked token stays as it is.
* `BusinessPartnerProofs`: `Inv` says of each handler that it is `Sound` (what it has
  inserted nobody else can see; what it read is still so, or the version has moved past
  the one it names) and of any two that they are `Apart` (they have not written the same
  key). Versions only grow here, which is why the checks on stale reads are safe where those
  of a Customer PO are not. What a mutation tells as `before` was read before its conditional
  UPDATE, and is the row that it replaces since the version was still that one (`ReadIsFresh`);
  the other events of the transaction are of partners and roles that nobody else has. A new
  entry at the end of a trail is the next of its kind (`EntryAdded`), whence `TrailsExplain`.
  Theorems `PartnersTypeCorrect`, `VersionsAreCounted`, `RightsAreKept`, `ImportsAreAtomic`.
* `ProductsProofs`: `Inv` says that no two transactions have written one product
  (`WritesExclude`) and what each handler `Serves`: only the first row of an import finds the
  tenant bound, and its code has no row (`Creates`); as long as the version is the one read, so
  is the row (`Changes`), from which the rights at the commit follow. Theorems
  `TypeCorrect`, `OnlyRightfulChanges`, `OffersAreKept`, and `FirstRowsAreAccepted`, which says that
  finding 5 is about later rows only. For the same reason
  the diff that a commit leaves (`EventTells`) starts from the row that it replaces, and the
  trail grows by what makes the new row of the old: `TrailsReplay`.
* `ReportsProofs`: `ResolveIsFair` and `GrantsAreThoseHad` give `AllowedIsEntitled`: the
  statement of grants with `resolve` agrees with the documented rules, for any tables. With
  the invariant that `since` knows every scope the user was entitled to while the request
  loads its rights, `RightsAreHeld` follows. `ReportsTypeCorrect` is proved on top of it.
  `PanelsTell` says of every panel that is done that it has, of each PO unchanged since,
  what that PO alone tells; a panel is a union over POs (`PanelIsLocal`), so a change
  of one leaves the others' entries true. That the window of the previous panel has the days of
  docs/DASHBOARD.md:15-16 and no others is `PreviousPrecedes`. Hence `PanelsAgree`. `WalkGoesOn` says that a walk
  has shown all it began with that stands before its page; events that come in only push
  others on (`PlacesGrow`). Hence `WalksAreWhole`.
* `MigrationsProofs`: most revisions are `Quiet`, which is proved of each kind of statement
  once: they leave the rows alone, or the run has failed. The others `Move` the rows of
  people in a way that keeps what `KeptAt` says of each revision: the customers that the
  program wrote are rows of `customers` at revision 1 and, from 2 on, partners with their one
  CUSTOMER role that no seed has made, so that 0017's downgrade, which deletes by the seeds'
  ids, does not meet them. `KeptInv` says so of the database and of the run that has not
  failed, whence `CustomersAreKept`. `LinkInv`, whose steps are 0018 (it makes a message of
  every link) and 0019 (it is refused unless links stay in their tenant), gives
  `LinksAlwaysResolve`. Both hold for runs to any revision, in any environment, with any
  number of writes between them. `HomeAssumption`: the tenant that the seeds belong to is one
  of the tenants. `SeedsAssumption`: `WPG_PARTNER_ID` (0017:17) is a fixed id that the program,
  which draws its ids at random, does not draw.
* The second half of `MigrationsProofs` is about the schema. None of the three properties is
  inductive: that a statement fits says nothing of the next one. What carries them is that
  the schema is a function of the revision, on whatever way it was reached. A catalogue says
  so in closed form: which tables there are (`Since`, `Tables`), what each refers to
  (`Refers`), which have a tenant key and row-level security (`WithKey`, `Secured`), the
  objects that some statement names again (`Objects`) and the rights (`Rights`). It is
  written down a second time, independent of the statements, and the proof is that both
  agree. Each kind of statement takes one such schema to the next (`CreateIs`, `DropIs`,
  `GrantIs`, ...), if the tables come in an order that finds their parents (`Creatable`) and
  go in one that leaves no reference (`Droppable`). `Schema1` to `Schema19`, `Upgrade2Fits`
  and `Downgrade2Fits` chain them, one lemma for each revision; only 0002 and 0018 change
  what is between tables that stay. Of rights, permissions and mappings the
  revision decides less: 0002's downgrade makes `customers` again without its rights, and
  permissions may be there by hand. `InShape` has the bounds: the rights are those of the
  tables that are there, but for some of `Lost`; a permission was inserted by a revision up
  to this one, or by hand; a mapping has its permission. `ShapeInv` says so of the database
  and of the run, also of one that has failed, which has then failed for the data. (TLC
  found it true of the `migrations` instance with two writes, 51 303 states; with three it takes
  too long to be a run.) Theorems `RevisionsFitTheirSchema`, `RuntimeAlwaysConfined` and
  `DowngradesUndo`: for any set of permissions that people insert by hand, any rows, any targets.

What is said of whole trails (`TracesAgree`, `TimelineExplainsStatus`, `TrailExplainsPartner`,
`TrailReplays`) is said of the places of their entries, the first, the last and the next of a
kind, and not by a selection or a fold of the sequence: the proofs need no induction over data.

Model-checked only:

* the liveness of `edi` (`DeliveriesEnd`, `MessagesSettle`), which rests on fairness.

## 6. Not modelled

* Access tokens and password hashing: stateless wrappers of PyJWT and Argon2. The lockout
  columns `failed_attempts` and `locked_until` are read at login and written nowhere.
* IAM management queries, searches and single reads of master data, the dashboard's
  attention and country panels: statements that nothing else depends on.
* HTTP wiring, error mapping, configuration, logging: no state of the business.
* Seed scripts: a developer runs them alone on a database of their own.
* OUTBOUND EDI messages and the statuses DUPLICATE and CANCELLED are declared in the code and
  produced nowhere.
* Of business partners, the scopes ASSIGNED and TEAM, addresses and the capability flags of
  answers. Two things seen there are noted with the hazards: an update of a customer that
  names no owner clears the owner whoever sends it, and a supplier role may be added to a
  partner whose master data changes between the compatibility check and the insert.
