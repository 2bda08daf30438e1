----------------------------- MODULE CustomerPo -----------------------------
(***************************************************************************)
(* One Customer PO and the HTTP handlers that mutate it                    *)
(* (app/modules/customer_pos: application/use_cases.py and                 *)
(* infrastructure/repository.py).  Every handler is one database           *)
(* transaction at READ COMMITTED: it reads committed rows, its first write *)
(* takes the row lock of the PO, its writes stay invisible until commit.   *)
(*                                                                         *)
(* Two handler styles exist side by side.  change_status, soft_delete and *)
(* restore are one conditional UPDATE ... WHERE row_version = expected.    *)
(* update reads the row with that condition, and writes it later, by id.   *)
(***************************************************************************)
EXTENDS CustomerPoStatus, FiniteSetsExt, SequencesExt, Integers

CONSTANTS
    Requests,      \* handler slots: requests that may be in flight together
    Nobody,        \* holder of a free row lock
    LineNo,        \* line numbers, positive integers
    LineId,        \* line primary keys; a client may send any it likes
    Ops,           \* operations clients call, besides CREATE
    Pipelined,     \* TRUE: clients may send a version they have not been told
    MaxRequests    \* bound: requests that mutate the PO, refused ones not counted

AllOps == {"UPDATE", "STATUS_CHANGE", "SOFT_DELETE", "RESTORE"}

ASSUME RequestsAssumption == Nobody \notin Requests
ASSUME LinesAssumption == LineNo \subseteq Nat
ASSUME OpsAssumption == Ops \subseteq AllOps
ASSUME PipelinedAssumption == Pipelined \in BOOLEAN
ASSUME MaxRequestsAssumption == MaxRequests \in Nat

VARIABLES
    po,            \* committed customer_purchase_orders row
    lines,         \* committed customer_purchase_order_lines rows
    history,       \* committed customer_po_status_events, in commit order
    timeline,      \* committed customer_po_events
    audit,         \* committed audit events of the PO
    lock,          \* transaction that holds the row lock
    tx,            \* what that transaction has written
    req,           \* the handlers
    published,     \* highest version a client can have been told
    issued         \* requests so far; also the clock that stamps status events

database == <<po, lines, history, timeline, audit>>
vars == <<po, lines, history, timeline, audit, lock, tx, req, published, issued>>

-----------------------------------------------------------------------------
\* Data.

Line == [num : LineNo, id : LineId]

\* Line numbers and primary keys are unique (uq_customer_po_lines_number).
Unique(S) == \A k, l \in S : (k.num = l.num \/ k.id = l.id) => k = l

\* The lines a create or update may carry (_lines): at least one, no number twice.
Payloads == {S \in SUBSET Line : S # {} /\ Unique(S)}

\* total_amount: the sum of the line amounts.  A line's amount is its number.
TotalOf(S) == SumSet({l.num : l \in S})
Totals == {TotalOf(S) : S \in SUBSET Line}

Row == [status  : Statuses \cup {"NONE"},
        version : Nat,
        deleted : BOOLEAN,
        total   : Totals]

NoRow == [status |-> "NONE", version |-> 0, deleted |-> FALSE, total |-> TotalOf({})]

\* The audited fields of a row (_snapshot).
Image(row) == [status |-> row.status, deleted |-> row.deleted, total |-> row.total]
ImageSet == [status  : Statuses \cup {"NONE"}, deleted : BOOLEAN, total : Totals]

StatusEvent == [from : Statuses \cup {"NONE"}, to : Statuses \cup {"NONE"}, at : Nat]
NoEvent == [from |-> "NONE", to |-> "NONE", at |-> 0]

AuditEvent == [op : AllOps \cup {"CREATE", "NONE"}, before : ImageSet, after : ImageSet]
NoAudit == [op |-> "NONE", before |-> Image(NoRow), after |-> Image(NoRow)]

\* The write set of an open transaction.
WriteSet == [po : Row, lines : SUBSET Line, event : StatusEvent,
             trace : AllOps \cup {"CREATE", "NONE"}, audit : AuditEvent]
NoTx == [po |-> NoRow, lines |-> {}, event |-> NoEvent, trace |-> "NONE", audit |-> NoAudit]

\* A handler: the operation, how far it is, what it was sent and what it has read.
Stages == {"idle", "loaded", "selected", "fetched", "cleared", "applied", "traced",
           "audited"}

Handler == [op       : AllOps \cup {"CREATE", "NONE"}, pc : Stages,
            expected : Nat, target : Statuses \cup {"NONE"}, payload : SUBSET Line,
            before   : ImageSet, snap : Row, loaded : SUBSET Line, at : Nat]
Idle == [op |-> "NONE", pc |-> "idle", expected |-> 0, target |-> "NONE", payload |-> {},
         before |-> Image(NoRow), snap |-> NoRow, loaded |-> {}, at |-> 0]

Init ==
    /\ po = NoRow
    /\ lines = {}
    /\ history = <<>>
    /\ timeline = <<>>
    /\ audit = <<>>
    /\ lock = Nobody
    /\ tx = NoTx
    /\ req = [r \in Requests |-> Idle]
    /\ published = 0
    /\ issued = 0

-----------------------------------------------------------------------------
\* What the handlers have in common.

Exists == po.version > 0

\* expected_version is a body field with ge=1.  A client that follows README.md section
\* 11 sends one it has read.
Expectable == 1..(IF Pipelined THEN MaxRequests ELSE published)

\* _load_for: a visible PO is read, and the handler goes on with what it has read.
Load(r, op, target, payload) ==
    /\ req[r].pc = "idle"
    /\ issued < MaxRequests
    /\ op \in Ops
    /\ Exists
    /\ issued' = issued + 1
    /\ \E v \in Expectable :
          req' = [req EXCEPT ![r] =
                    [Idle EXCEPT !.op = op, !.pc = "loaded", !.expected = v,
                                 !.target = target, !.payload = payload,
                                 !.before = Image(po), !.at = issued + 1]]
    /\ UNCHANGED <<po, lines, history, timeline, audit, lock, tx, published>>

\* Mutant: the statements do not compare the version.
MatchesAnyVersion(r) == po.deleted = (req[r].op = "RESTORE")

\* The condition of every versioned statement.
Matches(r) ==
    /\ po.version = req[r].expected
    /\ po.deleted = (req[r].op = "RESTORE")

\* The handler is over, by commit, refusal or failure.
Finish(r) == req' = [req EXCEPT ![r] = Idle]

\* The first write of a transaction locks the row.
Write(r, row, rows, event, pc) ==
    /\ lock = Nobody
    /\ lock' = r
    /\ tx' = [NoTx EXCEPT !.po = row, !.lines = rows, !.event = event]
    /\ req' = [req EXCEPT ![r].pc = pc]
    /\ UNCHANGED <<po, lines, history, timeline, audit, published, issued>>

-----------------------------------------------------------------------------
\* create: the row, its lines and the first status event are one flush.

Create(r, source, payload) ==
    /\ req[r].pc = "idle"
    /\ ~Exists
    /\ lock = Nobody
    /\ issued < MaxRequests
    /\ issued' = issued + 1
    /\ lock' = r
    /\ tx' = [NoTx EXCEPT
                !.po = [status |-> InitialStatus(source), version |-> 1,
                        deleted |-> FALSE, total |-> TotalOf(payload)],
                !.lines = payload,
                !.event = [from |-> "NONE", to |-> InitialStatus(source), at |-> issued + 1]]
    /\ req' = [req EXCEPT ![r] = [Idle EXCEPT !.op = "CREATE", !.pc = "applied"]]
    /\ UNCHANGED <<po, lines, history, timeline, audit, published>>

-----------------------------------------------------------------------------
\* change_status: the workflow rule is checked on the row read first, the
\* write is one conditional statement.

CallChangeStatus(r, target) ==
    /\ Exists /\ ~po.deleted
    /\ target \in Allowed[po.status]
    /\ target # "DRAFT" => lines # {}
    /\ Load(r, "STATUS_CHANGE", target, {})

ChangeStatus(r) ==
    /\ req[r].pc = "loaded" /\ req[r].op = "STATUS_CHANGE"
    /\ Matches(r)
    /\ Write(r, [po EXCEPT !.status = req[r].target, !.version = @ + 1], lines,
             [from |-> req[r].before.status, to |-> req[r].target, at |-> req[r].at],
             "applied")

-----------------------------------------------------------------------------
\* soft_delete and restore: conditional statements on deleted_at.

CallSoftDelete(r) == ~po.deleted /\ Load(r, "SOFT_DELETE", "NONE", {})

CallRestore(r) == Load(r, "RESTORE", "NONE", {})

\* Mutant: the statement forgets to count the version.
SetDeletedUncounted(r) ==
    /\ req[r].pc = "loaded" /\ req[r].op \in {"SOFT_DELETE", "RESTORE"}
    /\ Matches(r)
    /\ Write(r, [po EXCEPT !.deleted = (req[r].op = "SOFT_DELETE")], lines, NoEvent,
             "applied")

SetDeleted(r) ==
    /\ req[r].pc = "loaded" /\ req[r].op \in {"SOFT_DELETE", "RESTORE"}
    /\ Matches(r)
    /\ Write(r, [po EXCEPT !.deleted = (req[r].op = "SOFT_DELETE"), !.version = @ + 1],
             lines, NoEvent, "applied")

-----------------------------------------------------------------------------
\* update: a versioned SELECT of the row, a second statement for its lines,
\* then a flush that writes by primary key and replaces the lines read.

CallUpdate(r, payload) == ~po.deleted /\ Load(r, "UPDATE", "NONE", payload)

SelectRow(r) ==
    /\ req[r].pc = "loaded" /\ req[r].op = "UPDATE"
    /\ Matches(r)
    /\ req' = [req EXCEPT ![r].pc = "selected", ![r].snap = po]
    /\ UNCHANGED <<po, lines, history, timeline, audit, lock, tx, published, issued>>

SelectLines(r) ==
    /\ req[r].pc = "selected"
    /\ req' = [req EXCEPT ![r].pc = "fetched", ![r].loaded = lines]
    /\ UNCHANGED <<po, lines, history, timeline, audit, lock, tx, published, issued>>

\* Mutant: the flush writes every column of the row read.
FlushHeaderWhole(r) ==
    /\ req[r].pc = "fetched"
    /\ Write(r,
             [req[r].snap EXCEPT !.version = @ + 1, !.total = TotalOf(req[r].payload)],
             {l \in lines : \A k \in req[r].loaded : k.id # l.id},
             NoEvent, "cleared")

\* First flush: UPDATE of the changed columns WHERE id, DELETE of the lines by id.  A
\* column whose value has not changed is not written; row_version is always the literal
\* one past the version read.
FlushHeader(r) ==
    LET total == TotalOf(req[r].payload) IN
    /\ req[r].pc = "fetched"
    /\ Write(r,
             [po EXCEPT !.version = req[r].snap.version + 1,
                        !.total = IF total = req[r].snap.total THEN @ ELSE total],
             {l \in lines : \A k \in req[r].loaded : k.id # l.id},
             NoEvent, "cleared")

\* A new line collides with one that another transaction has put there since.
Collides(r) ==
    \E k \in tx.lines, l \in req[r].payload : k.num = l.num \/ k.id = l.id

\* Second flush: INSERT of the new lines.
FlushLines(r) ==
    /\ req[r].pc = "cleared"
    /\ ~Collides(r)
    /\ tx' = [tx EXCEPT !.lines = @ \cup req[r].payload]
    /\ req' = [req EXCEPT ![r].pc = "applied"]
    /\ UNCHANGED <<po, lines, history, timeline, audit, lock, published, issued>>

-----------------------------------------------------------------------------
\* The end of every handler: timeline event, audit event, commit.

\* Mutant: the timeline event has a transaction of its own.
WriteTimelineAtOnce(r) ==
    /\ req[r].pc = "applied"
    /\ timeline' = Append(timeline, req[r].op)
    /\ req' = [req EXCEPT ![r].pc = "traced"]
    /\ UNCHANGED <<po, lines, history, audit, lock, tx, published, issued>>

\* event_writer.write flushes the timeline event.
WriteTimeline(r) ==
    /\ req[r].pc = "applied"
    /\ tx' = [tx EXCEPT !.trace = req[r].op]
    /\ req' = [req EXCEPT ![r].pc = "traced"]
    /\ UNCHANGED <<po, lines, history, timeline, audit, lock, published, issued>>

\* Mutant: the entity returned is the one loaded first.
ResultStale(r) == req[r].before

\* The entity a handler returns: update rebuilds it from the row in memory, the others
\* read the row again inside their transaction.
Result(r) ==
    IF req[r].op = "UPDATE"
    THEN [Image(req[r].snap) EXCEPT !.total = TotalOf(req[r].payload)]
    ELSE Image(tx.po)

WriteAudit(r) ==
    /\ req[r].pc = "traced"
    /\ tx' = [tx EXCEPT !.audit = [op |-> req[r].op, before |-> req[r].before,
                                   after |-> Result(r)]]
    /\ req' = [req EXCEPT ![r].pc = "audited"]
    /\ UNCHANGED <<po, lines, history, timeline, audit, lock, published, issued>>

Commit(r) ==
    /\ req[r].pc = "audited"
    /\ po' = tx.po
    /\ lines' = tx.lines
    /\ history' = IF tx.event = NoEvent THEN history ELSE Append(history, tx.event)
    /\ timeline' = Append(timeline, tx.trace)
    /\ audit' = Append(audit, tx.audit)
    /\ published' = IF tx.po.version > published THEN tx.po.version ELSE published
    /\ lock' = Nobody
    /\ tx' = NoTx
    /\ Finish(r)
    /\ UNCHANGED issued

\* The versioned statement matched no row: VersionConflict, HTTP 409.
VersionConflict(r) ==
    /\ req[r].pc = "loaded"
    /\ ~Matches(r)
    /\ Finish(r)
    /\ UNCHANGED <<po, lines, history, timeline, audit, lock, tx, published, issued>>

\* A rollback undoes the writes of the transaction and releases its lock.
Undo(r) ==
    /\ Finish(r)
    /\ IF lock = r THEN lock' = Nobody /\ tx' = NoTx ELSE UNCHANGED <<lock, tx>>
    /\ UNCHANGED <<po, lines, history, timeline, audit, published, issued>>

\* IntegrityError on the line numbers: EntityConflict.
LineConflict(r) == req[r].pc = "cleared" /\ Collides(r) /\ Undo(r)

\* Any statement, the commit included, may fail, and the process may end: rolled back.
Fail(r) == req[r].pc # "idle" /\ Undo(r)

Next ==
    \E r \in Requests :
        \/ \E source \in Sources, payload \in Payloads : Create(r, source, payload)
        \/ \E target \in Statuses : CallChangeStatus(r, target)
        \/ ChangeStatus(r)
        \/ CallSoftDelete(r)
        \/ CallRestore(r)
        \/ SetDeleted(r)
        \/ \E payload \in Payloads : CallUpdate(r, payload)
        \/ SelectRow(r)
        \/ SelectLines(r)
        \/ FlushHeader(r)
        \/ FlushLines(r)
        \/ WriteTimeline(r)
        \/ WriteAudit(r)
        \/ Commit(r)
        \/ VersionConflict(r)
        \/ LineConflict(r)
        \/ Fail(r)

Spec == Init /\ [][Next]_vars

-----------------------------------------------------------------------------
\* Properties.

\* Every variable holds what the schema of its table, or the handler, lets it hold.
TypeOK ==
    /\ po \in Row
    /\ lines \subseteq Line
    /\ history \in Seq(StatusEvent)
    /\ timeline \in Seq(AllOps \cup {"CREATE"})
    /\ audit \in Seq(AuditEvent)
    /\ lock \in Requests \cup {Nobody}
    /\ tx \in WriteSet
    /\ req \in [Requests -> Handler]
    /\ published \in Nat
    /\ issued \in Nat

\* Every handler that has written holds the row lock, and only such a handler does: no
\* two transactions have uncommitted changes of the PO, and none that is over keeps it
\* locked (the rollback in every except clause of use_cases.py).
Writing(r) == req[r].pc \in {"cleared", "applied", "traced", "audited"}

LockInv == \A r \in Requests : Writing(r) <=> lock = r

\* The status column agrees with the workflow history that docs/CUSTOMER_PO_EVENTS.md
\* calls authoritative, whatever handlers ran at the same time: update never writes a
\* status, and a status change is never committed without its event.
StatusIsLastEvent ==
    IF history = <<>> THEN po.status = "NONE" ELSE po.status = Last(history).to

\* The history is a path of the workflow: it starts where a PO may start, each event
\* leaves from the status the one before it reached, and along an allowed transition.
\* The rule is checked on a row read before the statement that changes the status.
WorkflowPath(events) ==
    \A i \in 1..Len(events) :
        IF i = 1
        THEN events[i].from = "NONE" /\ events[i].to \in InitialStatuses
        ELSE /\ events[i].from = events[i - 1].to
             /\ events[i].to \in Allowed[events[i].from]

HistoryIsWorkflowPath == WorkflowPath(history)

\* Status events are stamped before the row is locked, and the API orders them by that
\* stamp (status_history): the order it shows is the order they were committed in.
HistoryInTimeOrder ==
    \A i, j \in 1..Len(history) : i < j => history[i].at < history[j].at

\* The audit trail explains the row: each entry starts from the state that the entry
\* before it ended in, and the last one ends in the row as it is.
AuditIsChain ==
    /\ \A i \in 2..Len(audit) : audit[i].before = audit[i - 1].after
    /\ audit # <<>> => Last(audit).after = Image(po)

\* The audit events that tell of a move of the workflow; and that they tell, in this order,
\* exactly the moves that the status events tell.
MovesIn(trail) == {i \in 1..Len(trail) : trail[i].op \in {"CREATE", "STATUS_CHANGE"}}

TellsMoves(trail, events) ==
    \E at \in [1..Len(events) -> MovesIn(trail)] :
        /\ \A i, j \in 1..Len(events) : i < j => at[i] < at[j]
        /\ \A k \in MovesIn(trail) : \E i \in 1..Len(events) : at[i] = k
        /\ \A i \in 1..Len(events) :
              /\ trail[at[i]].before.status = events[i].from
              /\ trail[at[i]].after.status = events[i].to

\* A committed mutation has left all its traces: a timeline and an audit event of the
\* same operation, and the status history tells exactly the moves the audit tells
\* (docs/CUSTOMER_PO_EVENTS.md: failure of any write rolls the whole mutation back).
TracesAgree ==
    /\ Len(timeline) = Len(audit)
    /\ \A i \in 1..Len(audit) : timeline[i] = audit[i].op
    /\ TellsMoves(audit, history)

\* A PO never runs out of lines, however updates that replace them overlap.
LinesNeverEmpty == Exists => lines # {}

\* An update ignores the version of what was committed since it read the row, but must not take
\* it back: with whatever status changes, deletions and restorations have come in between, it
\* replaces the lines and the total by those it was sent, and leaves the rest as it finds it.
\* Of updates that overlap this is not so, see TotalIsOfLines.
LinesUntouched(r) == lines = req[r].loaded /\ po.total = req[r].snap.total

UpdateKeepsToItsOwn ==
    [][\A r \in Requests :
          (po' # po \/ lines' # lines) /\ lock = r /\ req[r].op = "UPDATE" /\ LinesUntouched(r) =>
             /\ po' = [po EXCEPT !.version = po'.version, !.total = TotalOf(req[r].payload)]
             /\ lines' = req[r].payload]_vars

\* The amount of a PO is the sum of the amounts of its lines (_total, and
\* tests/unit/test_customer_po.py:267-268 of the order that a creation leaves).  This is not so:
\* two updates that overlap may leave the lines of one under the total of the other, for each
\* writes the total only if it differs from the one that it read.
TotalIsOfLines == po.total = TotalOf(lines)

\* README.md section 11: "Never silently overwrite a newer database state".  A committed
\* mutation of an existing PO replaces the version its client named.
NoOverwrite ==
    [][Exists /\ po' # po => \E r \in Requests : lock = r /\ po.version = req[r].expected]_po

\* A converted, rejected or cancelled PO keeps its status for good.
TerminalIsFinal == [][po.status \in Terminal => po'.status = po.status]_po

\* With the conditional statements alone a PO is an optimistically locked record.
Record == INSTANCE VersionedRecord WITH
    Initial <- InitialStatuses, Edges <- Allowed, Absent <- "NONE",
    status <- po.status, version <- po.version, deleted <- po.deleted

RefinesVersionedRecord == Record!Spec

=============================================================================
