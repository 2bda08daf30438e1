------------------------- MODULE CustomerPoProofs --------------------------
(***************************************************************************)
(* What CustomerPo guarantees for any number of requests, lines and        *)
(* versions.                                                               *)
(***************************************************************************)
EXTENDS CustomerPo, SequenceTheorems, TLAPS

-----------------------------------------------------------------------------
\* The data the handlers are made of.

\* A total of some lines is a total; a payload is a set of lines.
LEMMA PayloadIsLines ==
    ASSUME NEW S \in Payloads
    PROVE  S \subseteq Line /\ S # {} /\ TotalOf(S) \in Totals
BY DEF Payloads, Totals

\* The null records have the types of what they stand for.
LEMMA NullsAreTyped ==
    /\ NoRow \in Row
    /\ NoEvent \in StatusEvent
    /\ NoAudit \in AuditEvent
    /\ NoTx \in WriteSet
    /\ Idle \in Handler
<1>1. TotalOf({}) \in Totals
  BY DEF Totals
<1>2. NoRow \in Row
  BY <1>1 DEF NoRow, Row
<1>3. Image(NoRow) \in ImageSet
  BY <1>1 DEF NoRow, Image, ImageSet
<1>4. NoEvent \in StatusEvent
  BY DEF NoEvent, StatusEvent
<1>5. NoAudit \in AuditEvent
  BY <1>3 DEF NoAudit, AuditEvent
<1>6. NoTx \in WriteSet
  BY <1>2, <1>4, <1>5 DEF NoTx, WriteSet
<1>7. Idle \in Handler
  BY <1>2, <1>3 DEF Idle, Handler, Stages
<1>. QED
  BY <1>2, <1>4, <1>5, <1>6, <1>7

\* The audited fields of a row.
LEMMA ImageIsTyped ==
    ASSUME NEW row \in Row
    PROVE  Image(row) \in ImageSet
BY DEF Image, ImageSet, Row

\* A PO is born with a status of the workflow, and an edge of the workflow leads to one.
LEMMA WorkflowIsTyped ==
    /\ \A source : InitialStatus(source) \in Statuses
    /\ \A s \in Statuses : Allowed[s] \subseteq Statuses
    /\ "NONE" \notin Statuses
<1>1. \A source : InitialStatus(source) \in Statuses
  BY DEF InitialStatus, Statuses
<1>2. \A s \in Statuses : Allowed[s] \subseteq Statuses
  BY DEF Allowed, Statuses
<1>3. "NONE" \notin Statuses
  BY DEF Statuses
<1>. QED
  BY <1>1, <1>2, <1>3

\* A statement replaces columns of the row by values of their types.
LEMMA RowUpdatesAreTyped ==
    ASSUME NEW row \in Row, NEW v \in Nat
    PROVE  /\ \A s \in Statuses \cup {"NONE"} : [row EXCEPT !.status = s, !.version = v] \in Row
           /\ \A d \in BOOLEAN : [row EXCEPT !.deleted = d, !.version = v] \in Row
           /\ \A t \in Totals : [row EXCEPT !.version = v, !.total = t] \in Row
<1>1. \A s \in Statuses \cup {"NONE"} : [row EXCEPT !.status = s, !.version = v] \in Row
  BY DEF Row
<1>2. \A d \in BOOLEAN : [row EXCEPT !.deleted = d, !.version = v] \in Row
  BY DEF Row
<1>3. \A t \in Totals : [row EXCEPT !.version = v, !.total = t] \in Row
  BY DEF Row
<1>. QED
  BY <1>1, <1>2, <1>3

\* A field of a handler is replaced by a value of its type.
LEMMA HandlerUpdatesAreTyped ==
    ASSUME NEW h \in Handler, NEW pc \in Stages
    PROVE  /\ [h EXCEPT !.pc = pc] \in Handler
           /\ \A row \in Row : [h EXCEPT !.pc = pc, !.snap = row] \in Handler
           /\ \A rows \in SUBSET Line : [h EXCEPT !.pc = pc, !.loaded = rows] \in Handler
<1>1. [h EXCEPT !.pc = pc] \in Handler
  BY DEF Handler
<1>2. \A row \in Row : [h EXCEPT !.pc = pc, !.snap = row] \in Handler
  BY DEF Handler
<1>3. \A rows \in SUBSET Line : [h EXCEPT !.pc = pc, !.loaded = rows] \in Handler
  BY DEF Handler
<1>. QED
  BY <1>1, <1>2, <1>3

\* A field of a write set is replaced by a value of its type.
LEMMA WriteSetUpdatesAreTyped ==
    ASSUME NEW t \in WriteSet
    PROVE  /\ \A rows \in SUBSET Line : [t EXCEPT !.lines = rows] \in WriteSet
           /\ \A op \in AllOps \cup {"CREATE", "NONE"} : [t EXCEPT !.trace = op] \in WriteSet
           /\ \A a \in AuditEvent : [t EXCEPT !.audit = a] \in WriteSet
<1>1. \A rows \in SUBSET Line : [t EXCEPT !.lines = rows] \in WriteSet
  BY DEF WriteSet
<1>2. \A op \in AllOps \cup {"CREATE", "NONE"} : [t EXCEPT !.trace = op] \in WriteSet
  BY DEF WriteSet
<1>3. \A a \in AuditEvent : [t EXCEPT !.audit = a] \in WriteSet
  BY DEF WriteSet
<1>. QED
  BY <1>1, <1>2, <1>3

\* What the first write of a transaction puts in its write set.
LEMMA FreshWriteSetIsTyped ==
    ASSUME NEW row \in Row, NEW rows \in SUBSET Line, NEW event \in StatusEvent
    PROVE  [NoTx EXCEPT !.po = row, !.lines = rows, !.event = event] \in WriteSet
BY NullsAreTyped DEF WriteSet

\* What a call puts in its handler.
LEMMA FreshHandlerIsTyped ==
    ASSUME NEW op \in AllOps \cup {"CREATE"}, NEW pc \in Stages
    PROVE  /\ [Idle EXCEPT !.op = op, !.pc = pc] \in Handler
           /\ \A v \in Nat, target \in Statuses \cup {"NONE"}, payload \in SUBSET Line,
                 before \in ImageSet, at \in Nat :
                 [Idle EXCEPT !.op = op, !.pc = pc, !.expected = v, !.target = target,
                              !.payload = payload, !.before = before, !.at = at] \in Handler
<1>1. [Idle EXCEPT !.op = op, !.pc = pc] \in Handler
  BY NullsAreTyped DEF Handler
<1>2. ASSUME NEW v \in Nat, NEW target \in Statuses \cup {"NONE"},
             NEW payload \in SUBSET Line, NEW before \in ImageSet, NEW at \in Nat
      PROVE  [Idle EXCEPT !.op = op, !.pc = pc, !.expected = v, !.target = target,
                          !.payload = payload, !.before = before, !.at = at] \in Handler
  BY NullsAreTyped DEF Handler
<1>. QED
  BY <1>1, <1>2

-----------------------------------------------------------------------------
\* Types and the row lock.

\* A handler that is under way knows its operation, and the timeline event it has
\* written names it.
Named ==
    \A r \in Requests :
        /\ req[r].pc # "idle" => req[r].op # "NONE"
        /\ req[r].pc \in {"traced", "audited"} => tx.trace = req[r].op

LockedInv == TypeOK /\ LockInv /\ Named

\* The invariant holds before the first step.
LEMMA LockedInit == Init => LockedInv
<1>. SUFFICES ASSUME Init PROVE LockedInv
  OBVIOUS
<1>1. TypeOK
  BY NullsAreTyped DEF Init, TypeOK
<1>2. LockInv /\ Named
  BY RequestsAssumption DEF Init, LockInv, Writing, Named, Idle
<1>. QED
  BY <1>1, <1>2 DEF LockedInv

\* The first write of a transaction keeps the types.
LEMMA WriteIsTyped ==
    ASSUME TypeOK, NEW r \in Requests, NEW row \in Row, NEW rows \in SUBSET Line,
           NEW event \in StatusEvent, NEW pc \in Stages, Write(r, row, rows, event, pc)
    PROVE  TypeOK'
<1>1. tx' \in WriteSet
  BY FreshWriteSetIsTyped DEF Write
<1>2. [req[r] EXCEPT !.pc = pc] \in Handler
  BY HandlerUpdatesAreTyped DEF TypeOK
<1>3. req' \in [Requests -> Handler]
  BY <1>2 DEF Write, TypeOK
<1>. QED
  BY <1>1, <1>3 DEF Write, TypeOK

\* One step of one handler, by what it does to the handler and to the lock.
LEMMA LockedStep == LockedInv /\ [Next]_vars => LockedInv'
<1>. SUFFICES ASSUME LockedInv, [Next]_vars PROVE LockedInv'
  OBVIOUS
<1>. USE DEF LockedInv
<1>1. ASSUME NEW r \in Requests, NEW source \in Sources, NEW payload \in Payloads,
             Create(r, source, payload)
      PROVE  LockedInv'
  <2>. DEFINE row == [status |-> InitialStatus(source), version |-> 1,
                      deleted |-> FALSE, total |-> TotalOf(payload)]
              event == [from |-> "NONE", to |-> InitialStatus(source), at |-> issued + 1]
  <2>1. row \in Row /\ event \in StatusEvent
    BY PayloadIsLines, WorkflowIsTyped DEF Row, StatusEvent, TypeOK
  <2>2. tx' \in WriteSet
    BY <1>1, <2>1, PayloadIsLines, FreshWriteSetIsTyped DEF Create
  <2>3. [Idle EXCEPT !.op = "CREATE", !.pc = "applied"] \in Handler
    BY FreshHandlerIsTyped DEF Stages
  <2>4. req' \in [Requests -> Handler]
    BY <1>1, <2>3 DEF Create, TypeOK
  <2>5. TypeOK'
    BY <1>1, <2>2, <2>4 DEF Create, TypeOK
  <2>6. LockInv' /\ Named'
    BY <1>1, RequestsAssumption, NullsAreTyped DEF Create, TypeOK, Handler, LockInv, Writing, Named, Idle
  <2>. QED
    BY <2>5, <2>6
<1>2. ASSUME NEW r \in Requests, NEW op \in AllOps, NEW target \in Statuses \cup {"NONE"}, NEW payload \in SUBSET Line,
             Load(r, op, target, payload)
      PROVE  LockedInv'
  <2>1. PICK v \in Expectable :
           req' = [req EXCEPT ![r] =
                     [Idle EXCEPT !.op = op, !.pc = "loaded", !.expected = v,
                                  !.target = target, !.payload = payload,
                                  !.before = Image(po), !.at = issued + 1]]
    BY <1>2 DEF Load
  <2>2. v \in Nat
    BY MaxRequestsAssumption DEF Expectable, TypeOK
  <2>2a. Image(po) \in ImageSet /\ issued + 1 \in Nat
    BY ImageIsTyped DEF TypeOK
  <2>3. [Idle EXCEPT !.op = op, !.pc = "loaded", !.expected = v, !.target = target,
                     !.payload = payload, !.before = Image(po), !.at = issued + 1] \in Handler
    BY <2>2, <2>2a, FreshHandlerIsTyped, ZenonT(30) DEF Stages
  <2>4. req' \in [Requests -> Handler]
    BY <2>1, <2>3 DEF TypeOK
  <2>5. TypeOK'
    BY <1>2, <2>4 DEF Load, TypeOK
  <2>6. LockInv' /\ Named'
    BY <1>2, RequestsAssumption, NullsAreTyped DEF Load, TypeOK, Handler, LockInv, Writing, Named, Idle, AllOps
  <2>. QED
    BY <2>5, <2>6
<1>3. ASSUME NEW r \in Requests, ChangeStatus(r)
      PROVE  LockedInv'
  <2>1. [po EXCEPT !.status = req[r].target, !.version = @ + 1] \in Row
    <3>1. req[r].target \in Statuses \cup {"NONE"}
      BY DEF TypeOK, Handler
    <3>2. po \in Row /\ po.version + 1 \in Nat
      BY DEF TypeOK, Row
    <3>. QED
      BY <3>1, <3>2, RowUpdatesAreTyped
  <2>2. [from |-> req[r].before.status, to |-> req[r].target, at |-> req[r].at] \in StatusEvent
    BY DEF TypeOK, Handler, ImageSet, StatusEvent
  <2>3. TypeOK'
    BY <1>3, <2>1, <2>2, WriteIsTyped DEF ChangeStatus, Stages, TypeOK
  <2>4. LockInv' /\ Named'
    BY <1>3, RequestsAssumption DEF ChangeStatus, Write, TypeOK, Handler, LockInv, Writing, Named
  <2>. QED
    BY <2>3, <2>4
<1>4. ASSUME NEW r \in Requests, SetDeleted(r)
      PROVE  LockedInv'
  <2>1. [po EXCEPT !.deleted = (req[r].op = "SOFT_DELETE"), !.version = @ + 1] \in Row
    <3>1. (req[r].op = "SOFT_DELETE") \in BOOLEAN
      OBVIOUS
    <3>2. po \in Row /\ po.version + 1 \in Nat
      BY DEF TypeOK, Row
    <3>. QED
      BY <3>1, <3>2, RowUpdatesAreTyped
  <2>2. TypeOK'
    BY <1>4, <2>1, NullsAreTyped, WriteIsTyped DEF SetDeleted, Stages, TypeOK
  <2>3. LockInv' /\ Named'
    BY <1>4, RequestsAssumption DEF SetDeleted, Write, TypeOK, Handler, LockInv, Writing, Named
  <2>. QED
    BY <2>2, <2>3
<1>5. ASSUME NEW r \in Requests, SelectRow(r)
      PROVE  LockedInv'
  <2>1. [req[r] EXCEPT !.pc = "selected", !.snap = po] \in Handler
    BY HandlerUpdatesAreTyped DEF TypeOK, Stages
  <2>2. req' \in [Requests -> Handler]
    BY <1>5, <2>1 DEF SelectRow, TypeOK
  <2>3. TypeOK'
    BY <1>5, <2>2 DEF SelectRow, TypeOK
  <2>4. LockInv' /\ Named'
    BY <1>5 DEF SelectRow, TypeOK, Handler, LockInv, Writing, Named
  <2>. QED
    BY <2>3, <2>4
<1>6. ASSUME NEW r \in Requests, SelectLines(r)
      PROVE  LockedInv'
  <2>1. [req[r] EXCEPT !.pc = "fetched", !.loaded = lines] \in Handler
    BY HandlerUpdatesAreTyped DEF TypeOK, Stages
  <2>2. req' \in [Requests -> Handler]
    BY <1>6, <2>1 DEF SelectLines, TypeOK
  <2>3. TypeOK'
    BY <1>6, <2>2 DEF SelectLines, TypeOK
  <2>4. \A q \in Requests :
           /\ req'[q].pc = IF q = r THEN "fetched" ELSE req[q].pc
           /\ req'[q].op = req[q].op
    BY <1>6 DEF SelectLines, TypeOK, Handler
  <2>4a. req[r].pc = "selected" /\ lock' = lock /\ tx' = tx
    BY <1>6 DEF SelectLines
  <2>5. LockInv'
    BY <2>4, <2>4a DEF LockInv, Writing
  <2>6. Named'
    BY <2>4, <2>4a DEF Named
  <2>. QED
    BY <2>3, <2>5, <2>6
<1>7. ASSUME NEW r \in Requests, FlushHeader(r)
      PROVE  LockedInv'
  <2>. DEFINE total == TotalOf(req[r].payload)
              row == [po EXCEPT !.version = req[r].snap.version + 1,
                                !.total = IF total = req[r].snap.total THEN @ ELSE total]
  <2>1. req[r].payload \subseteq Line /\ req[r].snap.version \in Nat
    BY DEF TypeOK, Handler, Row
  <2>2. total \in Totals
    BY <2>1 DEF Totals
  <2>3. (IF total = req[r].snap.total THEN po.total ELSE total) \in Totals
    BY <2>2 DEF TypeOK, Row
  <2>4. row \in Row
    <3>1. po \in Row /\ req[r].snap.version + 1 \in Nat
      BY <2>1 DEF TypeOK
    <3>. HIDE DEF total
    <3>. QED
      BY <2>3, <3>1, RowUpdatesAreTyped
  <2>5. TypeOK'
    BY <1>7, <2>4, NullsAreTyped, WriteIsTyped DEF FlushHeader, Stages, TypeOK
  <2>6. LockInv' /\ Named'
    BY <1>7, RequestsAssumption DEF FlushHeader, Write, TypeOK, Handler, LockInv, Writing, Named
  <2>. QED
    BY <2>5, <2>6
<1>8. ASSUME NEW r \in Requests, FlushLines(r)
      PROVE  LockedInv'
  <2>1. [req[r] EXCEPT !.pc = "applied"] \in Handler
    BY HandlerUpdatesAreTyped DEF TypeOK, Stages
  <2>2. req' \in [Requests -> Handler]
    BY <1>8, <2>1 DEF FlushLines, TypeOK
  <2>3. tx.lines \cup req[r].payload \in SUBSET Line
    BY DEF TypeOK, Handler, WriteSet
  <2>4. tx' \in WriteSet
    BY <1>8, <2>3, WriteSetUpdatesAreTyped DEF FlushLines, TypeOK
  <2>5. TypeOK'
    BY <1>8, <2>2, <2>4 DEF FlushLines, TypeOK
  <2>6. LockInv' /\ Named'
    BY <1>8 DEF FlushLines, TypeOK, WriteSet, Handler, LockInv, Writing, Named
  <2>. QED
    BY <2>5, <2>6
<1>9. ASSUME NEW r \in Requests, WriteTimeline(r)
      PROVE  LockedInv'
  <2>1. [req[r] EXCEPT !.pc = "traced"] \in Handler
    BY HandlerUpdatesAreTyped DEF TypeOK, Stages
  <2>2. req' \in [Requests -> Handler]
    BY <1>9, <2>1 DEF WriteTimeline, TypeOK
  <2>3. req[r].op \in AllOps \cup {"CREATE", "NONE"}
    BY DEF TypeOK, Handler
  <2>4. tx' \in WriteSet
    BY <1>9, <2>3, WriteSetUpdatesAreTyped DEF WriteTimeline, TypeOK
  <2>5. TypeOK'
    BY <1>9, <2>2, <2>4 DEF WriteTimeline, TypeOK
  <2>6. LockInv' /\ Named'
    BY <1>9 DEF WriteTimeline, TypeOK, WriteSet, Handler, LockInv, Writing, Named
  <2>. QED
    BY <2>5, <2>6
<1>10. ASSUME NEW r \in Requests, WriteAudit(r)
       PROVE  LockedInv'
  <2>1. [req[r] EXCEPT !.pc = "audited"] \in Handler
    BY HandlerUpdatesAreTyped DEF TypeOK, Stages
  <2>2. req' \in [Requests -> Handler]
    BY <1>10, <2>1 DEF WriteAudit, TypeOK
  <2>3. Result(r) \in ImageSet
    <3>1. tx.po \in Row /\ req[r].snap \in Row /\ req[r].payload \in SUBSET Line
      BY DEF TypeOK, Handler, WriteSet
    <3>2. Image(tx.po) \in ImageSet /\ Image(req[r].snap) \in ImageSet
      BY <3>1, ImageIsTyped
    <3>3. TotalOf(req[r].payload) \in Totals
      BY <3>1 DEF Totals
    <3>. QED
      BY <3>2, <3>3 DEF Result, ImageSet
  <2>4. [op |-> req[r].op, before |-> req[r].before, after |-> Result(r)] \in AuditEvent
    BY <2>3 DEF TypeOK, Handler, AuditEvent
  <2>5. tx' \in WriteSet
    BY <1>10, <2>4, WriteSetUpdatesAreTyped DEF WriteAudit, TypeOK
  <2>6. TypeOK'
    BY <1>10, <2>2, <2>5 DEF WriteAudit, TypeOK
  <2>7. LockInv' /\ Named'
    BY <1>10 DEF WriteAudit, TypeOK, WriteSet, Handler, LockInv, Writing, Named
  <2>. QED
    BY <2>6, <2>7
<1>11. ASSUME NEW r \in Requests, Commit(r)
       PROVE  LockedInv'
  <2>1. tx.trace \in AllOps \cup {"CREATE"}
    BY <1>11 DEF Commit, TypeOK, WriteSet, Handler, Named
  <2>2. TypeOK'
    BY <1>11, <2>1, NullsAreTyped DEF Commit, Finish, TypeOK, WriteSet, Row
  <2>3. LockInv' /\ Named'
    BY <1>11, RequestsAssumption DEF Commit, Finish, TypeOK, Handler, LockInv, Writing, Named, Idle
  <2>. QED
    BY <2>2, <2>3
<1>12. ASSUME NEW r \in Requests, VersionConflict(r)
       PROVE  LockedInv'
  <2>1. TypeOK'
    BY <1>12, NullsAreTyped DEF VersionConflict, Finish, TypeOK
  <2>2. LockInv' /\ Named'
    BY <1>12 DEF VersionConflict, Finish, TypeOK, Handler, LockInv, Writing, Named, Idle
  <2>. QED
    BY <2>1, <2>2
<1>13. ASSUME NEW r \in Requests, Undo(r)
       PROVE  LockedInv'
  <2>1. TypeOK'
    BY <1>13, NullsAreTyped DEF Undo, Finish, TypeOK
  <2>2. LockInv' /\ Named'
    BY <1>13, RequestsAssumption DEF Undo, Finish, TypeOK, Handler, LockInv, Writing, Named, Idle
  <2>. QED
    BY <2>1, <2>2
<1>14. CASE UNCHANGED vars
  BY <1>14 DEF vars, TypeOK, LockInv, Writing, Named
<1>. QED
  <2>1. \A r \in Requests, target \in Statuses : CallChangeStatus(r, target) => LockedInv'
    BY <1>2 DEF CallChangeStatus, AllOps
  <2>2. \A r \in Requests : CallSoftDelete(r) \/ CallRestore(r) => LockedInv'
    BY <1>2 DEF CallSoftDelete, CallRestore, AllOps
  <2>3. \A r \in Requests, payload \in Payloads : CallUpdate(r, payload) => LockedInv'
    BY <1>2, PayloadIsLines DEF CallUpdate, AllOps
  <2>4. \A r \in Requests : LineConflict(r) \/ Fail(r) => LockedInv'
    BY <1>13 DEF LineConflict, Fail
  <2>. QED
    BY <1>1, <1>3, <1>4, <1>5, <1>6, <1>7, <1>8, <1>9, <1>10, <1>11, <1>12, <1>14,
       <2>1, <2>2, <2>3, <2>4 DEF Next

\* Type correctness: every row, event and handler has its type in every state.
THEOREM TypeCorrect == Spec => []TypeOK
<1>1. LockedInv => TypeOK
  BY DEF LockedInv
<1>. QED
  BY <1>1, LockedInit, LockedStep, PTL DEF Spec

\* The row lock: at most one handler has uncommitted writes, and it holds the lock.
THEOREM RowLock == Spec => []LockInv
<1>1. LockedInv => LockInv
  BY DEF LockedInv
<1>. QED
  BY <1>1, LockedInit, LockedStep, PTL DEF Spec

-----------------------------------------------------------------------------
\* The status column, the workflow history and the lines, under all operations.

\* A write set that has an event moves the row to where the event says, and one that
\* has none leaves the status alone.
WritesAgree ==
    lock # Nobody =>
        tx.po.status = IF tx.event = NoEvent THEN po.status ELSE tx.event.to

\* A status change is on its way to a status of the workflow.
TargetsKnown ==
    \A r \in Requests :
        req[r].pc # "idle" /\ req[r].op = "STATUS_CHANGE" => req[r].target \in Statuses

StatusInv == StatusIsLastEvent /\ WritesAgree /\ TargetsKnown

\* A handler under way, a create apart, has found the PO; an update carries lines; a
\* write set that could be committed has lines and counts a version.
WritesHaveLines ==
    /\ \A r \in Requests :
          /\ req[r].pc # "idle" /\ req[r].op # "CREATE" => po.version > 0
          /\ req[r].pc = "loaded" => req[r].op # "CREATE"
          /\ req[r].pc \in {"selected", "fetched", "cleared"} => req[r].op = "UPDATE"
          /\ req[r].op = "UPDATE" => req[r].payload # {}
          /\ req[r].pc \in {"applied", "traced", "audited"} => tx.lines # {}
    /\ lock # Nobody => tx.po.version > 0

LinesInv == LinesNeverEmpty /\ WritesHaveLines

\* What a step does to the fields of the handlers.
LEMMA StageMoves ==
    ASSUME TypeOK, NEW r \in Requests, NEW pc \in Stages, req' = [req EXCEPT ![r].pc = pc]
    PROVE  /\ req'[r].pc = pc
           /\ \A q \in Requests :
                 /\ q # r => req'[q] = req[q]
                 /\ req'[q].op = req[q].op
                 /\ req'[q].expected = req[q].expected
                 /\ req'[q].target = req[q].target
                 /\ req'[q].payload = req[q].payload
BY DEF TypeOK, Handler

\* The SELECTs of an update change only how far it is.
LEMMA SelectMoves ==
    ASSUME TypeOK, NEW r \in Requests, SelectRow(r) \/ SelectLines(r)
    PROVE  /\ req[r].pc = "selected" \/ (req[r].pc = "loaded" /\ req[r].op = "UPDATE")
           /\ req'[r].pc \in {"selected", "fetched"}
           /\ \A q \in Requests :
                 /\ q # r => req'[q] = req[q]
                 /\ req'[q].op = req[q].op
                 /\ req'[q].target = req[q].target
                 /\ req'[q].payload = req[q].payload
           /\ UNCHANGED <<po, lines, history, lock, tx, published>>
<1>1. CASE SelectRow(r)
  <2>1. req'[r] = [req[r] EXCEPT !.pc = "selected", !.snap = po]
    BY <1>1 DEF SelectRow, TypeOK
  <2>2. \A q \in Requests : q # r => req'[q] = req[q]
    BY <1>1 DEF SelectRow, TypeOK
  <2>3. /\ req'[r].pc = "selected" /\ req'[r].op = req[r].op
        /\ req'[r].target = req[r].target /\ req'[r].payload = req[r].payload
    BY <2>1 DEF TypeOK, Handler
  <2>4. UNCHANGED <<po, lines, history, lock, tx, published>>
    BY <1>1 DEF SelectRow
  <2>5. req[r].pc = "loaded" /\ req[r].op = "UPDATE"
    BY <1>1 DEF SelectRow
  <2>6. \A q \in Requests :
           /\ req'[q].op = req[q].op
           /\ req'[q].target = req[q].target
           /\ req'[q].payload = req[q].payload
    BY <2>2, <2>3
  <2>7. req'[r].pc \in {"selected", "fetched"}
    BY <2>3
  <2>. QED
    BY <2>2, <2>4, <2>5, <2>6, <2>7
<1>2. CASE SelectLines(r)
  <2>1. req'[r] = [req[r] EXCEPT !.pc = "fetched", !.loaded = lines]
    BY <1>2 DEF SelectLines, TypeOK
  <2>2. \A q \in Requests : q # r => req'[q] = req[q]
    BY <1>2 DEF SelectLines, TypeOK
  <2>3. /\ req'[r].pc = "fetched" /\ req'[r].op = req[r].op
        /\ req'[r].target = req[r].target /\ req'[r].payload = req[r].payload
    BY <2>1 DEF TypeOK, Handler
  <2>4. UNCHANGED <<po, lines, history, lock, tx, published>>
    BY <1>2 DEF SelectLines
  <2>5. req[r].pc = "selected"
    BY <1>2 DEF SelectLines
  <2>6. \A q \in Requests :
           /\ req'[q].op = req[q].op
           /\ req'[q].target = req[q].target
           /\ req'[q].payload = req[q].payload
    BY <2>2, <2>3
  <2>7. req'[r].pc \in {"selected", "fetched"}
    BY <2>3
  <2>. QED
    BY <2>2, <2>4, <2>5, <2>6, <2>7
<1>. QED
  BY <1>1, <1>2

\* A handler that finishes leaves its slot idle and the others alone.
LEMMA FinishEmpties ==
    ASSUME TypeOK, NEW r \in Requests, Finish(r)
    PROVE  /\ req'[r].pc = "idle" /\ req'[r].op = "NONE"
           /\ \A q \in Requests : q # r => req'[q] = req[q]
BY DEF TypeOK, Finish, Idle

\* A load notes the request and the image of the row as committed.
LEMMA LoadFills ==
    ASSUME TypeOK, NEW r \in Requests, NEW op, NEW target, NEW payload,
           Load(r, op, target, payload)
    PROVE  /\ req'[r].pc = "loaded" /\ req'[r].op = op
           /\ req'[r].target = target /\ req'[r].payload = payload
           /\ req'[r].before = Image(po) /\ req'[r].expected \in Expectable
           /\ \A q \in Requests : q # r => req'[q] = req[q]
           /\ UNCHANGED <<po, lines, history, lock, tx, published>>
           /\ po.version > 0
<1>1. PICK v \in Expectable :
         req' = [req EXCEPT ![r] =
                   [Idle EXCEPT !.op = op, !.pc = "loaded", !.expected = v,
                                !.target = target, !.payload = payload,
                                !.before = Image(po), !.at = issued + 1]]
  BY DEF Load
<1>2. req'[r] = [Idle EXCEPT !.op = op, !.pc = "loaded", !.expected = v, !.target = target,
                             !.payload = payload, !.before = Image(po), !.at = issued + 1]
  BY <1>1 DEF TypeOK
<1>3. \A q \in Requests : q # r => req'[q] = req[q]
  BY <1>1 DEF TypeOK
<1>4. UNCHANGED <<po, lines, history, lock, tx, published>> /\ po.version > 0
  BY DEF Load, Exists
<1>. QED
  BY <1>2, <1>3, <1>4 DEF Idle

\* The calls are loads of their operation.
LEMMA CallsLoad ==
    ASSUME NEW r \in Requests
    PROVE  /\ \A target : CallChangeStatus(r, target) =>
                 /\ Load(r, "STATUS_CHANGE", target, {})
                 /\ target \in Allowed[po.status]
           /\ CallSoftDelete(r) => Load(r, "SOFT_DELETE", "NONE", {})
           /\ CallRestore(r) => Load(r, "RESTORE", "NONE", {})
           /\ \A payload : CallUpdate(r, payload) => Load(r, "UPDATE", "NONE", payload)
BY DEF CallChangeStatus, CallSoftDelete, CallRestore, CallUpdate

\* The write set that a first write leaves.
LEMMA WriteFills ==
    ASSUME TypeOK, NEW r \in Requests, NEW row, NEW rows, NEW event, NEW pc,
           Write(r, row, rows, event, pc)
    PROVE  /\ tx'.po = row /\ tx'.lines = rows /\ tx'.event = event
           /\ lock = Nobody /\ lock' = r
           /\ UNCHANGED <<po, lines, history, published>>
BY NullsAreTyped DEF Write, WriteSet, NoTx

\* The invariant holds before the first step.
LEMMA StatusInit == Init => StatusInv
BY DEF Init, StatusInv, StatusIsLastEvent, WritesAgree, TargetsKnown, NoRow, Idle

\* Every step of every handler keeps it.
LEMMA StatusStep == LockedInv /\ StatusInv /\ [Next]_vars => StatusInv'
<1>. SUFFICES ASSUME LockedInv, StatusInv, [Next]_vars PROVE StatusInv'
  OBVIOUS
<1>. USE DEF LockedInv, StatusInv
<1>1. ASSUME NEW r \in Requests, NEW source \in Sources, NEW payload \in Payloads,
             Create(r, source, payload)
      PROVE  StatusInv'
  <2>1. /\ tx'.po.status = InitialStatus(source) /\ tx'.event.to = InitialStatus(source)
        /\ tx'.event # NoEvent
    BY <1>1, WorkflowIsTyped DEF Create, NoTx, NoEvent
  <2>2. req'[r].op = "CREATE" /\ \A q \in Requests : q # r => req'[q] = req[q]
    BY <1>1 DEF Create, TypeOK, Idle
  <2>3. UNCHANGED <<po, history>>
    BY <1>1 DEF Create
  <2>. QED
    BY <2>1, <2>2, <2>3 DEF StatusIsLastEvent, WritesAgree, TargetsKnown
<1>2. ASSUME NEW r \in Requests, NEW op, NEW target, NEW payload,
             Load(r, op, target, payload), op = "STATUS_CHANGE" => target \in Statuses
      PROVE  StatusInv'
  BY <1>2, LoadFills DEF StatusIsLastEvent, WritesAgree, TargetsKnown
<1>3. ASSUME NEW r \in Requests, ChangeStatus(r)
      PROVE  StatusInv'
  <2>. DEFINE event == [from |-> req[r].before.status, to |-> req[r].target, at |-> req[r].at]
              row == [po EXCEPT !.status = req[r].target, !.version = @ + 1]
  <2>0. Write(r, row, lines, event, "applied")
    BY <1>3 DEF ChangeStatus
  <2>1. /\ tx'.po.status = req[r].target /\ tx'.event = event /\ lock = Nobody
        /\ UNCHANGED <<po, history>>
    <3>1. row.status = req[r].target
      BY DEF TypeOK, Row
    <3>. QED
      BY <2>0, <3>1, WriteFills, ZenonT(30)
  <2>2. event # NoEvent /\ event.to = req[r].target
    BY <1>3, WorkflowIsTyped DEF ChangeStatus, TargetsKnown, NoEvent
  <2>3. TargetsKnown'
    BY <1>3, StageMoves DEF ChangeStatus, Write, TargetsKnown, Stages
  <2>. QED
    BY <2>1, <2>2, <2>3 DEF StatusIsLastEvent, WritesAgree
<1>4. ASSUME NEW r \in Requests, SetDeleted(r) \/ FlushHeader(r)
      PROVE  StatusInv'
  <2>1. PICK row, rows, pc : Write(r, row, rows, NoEvent, pc) /\ row.status = po.status /\ pc \in Stages
    BY <1>4 DEF SetDeleted, FlushHeader, TypeOK, Row, Stages
  <2>1a. /\ tx'.po.status = po.status /\ tx'.event = NoEvent /\ lock = Nobody
         /\ UNCHANGED <<po, history>>
    BY <2>1, WriteFills
  <2>2. TargetsKnown'
    <3>1. req[r].pc # "idle"
      BY <1>4 DEF SetDeleted, FlushHeader
    <3>2. req' = [req EXCEPT ![r].pc = pc]
      BY <2>1 DEF Write
    <3>3. \A q \in Requests :
             /\ q # r => req'[q] = req[q]
             /\ req'[q].op = req[q].op /\ req'[q].target = req[q].target
      BY <2>1, <3>2, StageMoves
    <3>. QED
      BY <3>1, <3>3 DEF TargetsKnown
  <2>. QED
    BY <2>1a, <2>2 DEF StatusIsLastEvent, WritesAgree
<1>5. ASSUME NEW r \in Requests, SelectRow(r) \/ SelectLines(r)
      PROVE  StatusInv'
  BY <1>5, SelectMoves DEF StatusIsLastEvent, WritesAgree, TargetsKnown
<1>6. ASSUME NEW r \in Requests, FlushLines(r) \/ WriteTimeline(r) \/ WriteAudit(r)
      PROVE  StatusInv'
  <2>1. tx'.po = tx.po /\ tx'.event = tx.event /\ UNCHANGED <<po, history, lock>>
    BY <1>6 DEF FlushLines, WriteTimeline, WriteAudit, TypeOK, WriteSet
  <2>2. TargetsKnown'
    BY <1>6, StageMoves DEF FlushLines, WriteTimeline, WriteAudit, TargetsKnown, Stages
  <2>. QED
    BY <2>1, <2>2 DEF StatusIsLastEvent, WritesAgree
<1>7. ASSUME NEW r \in Requests, Commit(r)
      PROVE  StatusInv'
  <2>1. lock = r /\ lock # Nobody
    BY <1>7, RequestsAssumption DEF Commit, LockInv, Writing
  <2>2. po'.status = IF tx.event = NoEvent THEN po.status ELSE tx.event.to
    BY <1>7, <2>1 DEF Commit, WritesAgree
  <2>3. StatusIsLastEvent'
    <3>1. CASE tx.event = NoEvent
      BY <1>7, <2>2, <3>1 DEF Commit, StatusIsLastEvent
    <3>2. CASE tx.event # NoEvent
      <4>1. history' = Append(history, tx.event) /\ history \in Seq(StatusEvent)
            /\ tx.event \in StatusEvent
        BY <1>7, <3>2 DEF Commit, TypeOK, WriteSet
      <4>2. history' # <<>> /\ Last(history') = tx.event
        BY <4>1 DEF Last
      <4>. QED
        BY <2>2, <3>2, <4>2 DEF StatusIsLastEvent
    <3>. QED
      BY <3>1, <3>2
  <2>4. WritesAgree'
    BY <1>7 DEF Commit, WritesAgree
  <2>5. TargetsKnown'
    BY <1>7, FinishEmpties DEF Commit, TargetsKnown
  <2>. QED
    BY <2>3, <2>4, <2>5
<1>8. ASSUME NEW r \in Requests, VersionConflict(r) \/ Undo(r)
      PROVE  StatusInv'
  <2>1. WritesAgree' /\ StatusIsLastEvent'
    BY <1>8 DEF VersionConflict, Undo, WritesAgree, StatusIsLastEvent
  <2>2. TargetsKnown'
    BY <1>8, FinishEmpties DEF VersionConflict, Undo, TargetsKnown
  <2>. QED
    BY <2>1, <2>2
<1>9. CASE UNCHANGED vars
  BY <1>9 DEF vars, StatusIsLastEvent, WritesAgree, TargetsKnown
<1>. QED
  <2>1. \A r \in Requests, target \in Statuses : CallChangeStatus(r, target) => StatusInv'
    BY <1>2, CallsLoad
  <2>2. \A r \in Requests : CallSoftDelete(r) \/ CallRestore(r) => StatusInv'
    BY <1>2, CallsLoad
  <2>3. \A r \in Requests, payload \in Payloads : CallUpdate(r, payload) => StatusInv'
    BY <1>2, CallsLoad
  <2>4. \A r \in Requests : LineConflict(r) \/ Fail(r) => StatusInv'
    BY <1>8 DEF LineConflict, Fail
  <2>. QED
    BY <1>1, <1>3, <1>4, <1>5, <1>6, <1>7, <1>8, <1>9, <2>1, <2>2, <2>3, <2>4 DEF Next

\* The status column never disagrees with the workflow history, whatever operations
\* overlap and whatever fails.
THEOREM StatusFollowsHistory == Spec => []StatusIsLastEvent
<1>1. StatusInv => StatusIsLastEvent
  BY DEF StatusInv
<1>. QED
  BY <1>1, LockedInit, LockedStep, StatusInit, StatusStep, PTL DEF Spec

\* The invariant holds before the first step.
LEMMA LinesInit == Init => LinesInv
BY RequestsAssumption DEF Init, LinesInv, LinesNeverEmpty, WritesHaveLines, Exists, NoRow, Idle

\* Every step of every handler keeps it.
LEMMA LinesStep == LockedInv /\ LinesInv /\ [Next]_vars => LinesInv'
<1>. SUFFICES ASSUME LockedInv, LinesInv, [Next]_vars PROVE LinesInv'
  OBVIOUS
<1>. USE DEF LockedInv, LinesInv
<1>1. ASSUME NEW r \in Requests, NEW source \in Sources, NEW payload \in Payloads,
             Create(r, source, payload)
      PROVE  LinesInv'
  <2>1. tx'.po.version = 1 /\ tx'.lines = payload /\ UNCHANGED <<po, lines>>
    BY <1>1 DEF Create, NoTx
  <2>2. /\ req'[r].op = "CREATE" /\ req'[r].pc = "applied"
        /\ \A q \in Requests : q # r => req'[q] = req[q]
    BY <1>1 DEF Create, TypeOK, Idle
  <2>3. payload # {}
    BY PayloadIsLines
  <2>4. lock = Nobody
    BY <1>1 DEF Create
  <2>. QED
    BY <2>1, <2>2, <2>3, <2>4, RequestsAssumption
    DEF LinesNeverEmpty, WritesHaveLines, Exists, LockInv, Writing
<1>2. ASSUME NEW r \in Requests, NEW op \in AllOps, NEW target, NEW payload,
             Load(r, op, target, payload), op = "UPDATE" => payload # {}
      PROVE  LinesInv'
  BY <1>2, LoadFills DEF LinesNeverEmpty, WritesHaveLines, Exists, AllOps
<1>3. ASSUME NEW r \in Requests, NEW row \in Row, NEW rows, NEW event, NEW pc \in Stages,
             Write(r, row, rows, event, pc), req[r].pc \in {"loaded", "fetched"}, row.version > 0,
             (pc = "applied" /\ rows # {}) \/ (pc = "cleared" /\ req[r].op = "UPDATE")
      PROVE  LinesInv'
  <2>1. /\ tx'.po = row /\ tx'.lines = rows /\ lock = Nobody /\ UNCHANGED <<po, lines>>
    BY <1>3, WriteFills
  <2>2. req' = [req EXCEPT ![r].pc = pc]
    BY <1>3 DEF Write
  <2>3. /\ req'[r].pc = pc
        /\ \A q \in Requests : q # r => req'[q] = req[q]
        /\ \A q \in Requests : req'[q].op = req[q].op /\ req'[q].payload = req[q].payload
    BY <2>2, StageMoves
  <2>4. LinesNeverEmpty'
    BY <2>1 DEF LinesNeverEmpty, Exists
  <2>5. WritesHaveLines'
    BY <1>3, <2>1, <2>3, RequestsAssumption DEF WritesHaveLines, LockInv, Writing
  <2>. QED
    BY <2>4, <2>5
<1>4. ASSUME NEW r \in Requests, ChangeStatus(r)
      PROVE  LinesInv'
  <2>. DEFINE row == [po EXCEPT !.status = req[r].target, !.version = @ + 1]
  <2>1. po.version > 0 /\ lines # {}
    BY <1>4 DEF ChangeStatus, WritesHaveLines, LinesNeverEmpty, Exists
  <2>2. row \in Row /\ row.version > 0
    <3>1. req[r].target \in Statuses \cup {"NONE"} /\ po \in Row /\ po.version \in Nat
      BY DEF TypeOK, Handler, Row
    <3>2. po.version + 1 \in Nat /\ po.version + 1 > 0
      BY <3>1
    <3>3. row \in Row
      BY <3>1, <3>2, RowUpdatesAreTyped
    <3>4. row.version = po.version + 1
      BY <3>1 DEF Row
    <3>. QED
      BY <3>2, <3>3, <3>4
  <2>3. PICK event : Write(r, row, lines, event, "applied")
    BY <1>4 DEF ChangeStatus
  <2>. QED
    BY <1>3, <1>4, <2>1, <2>2, <2>3 DEF ChangeStatus, Stages
<1>5. ASSUME NEW r \in Requests, SetDeleted(r)
      PROVE  LinesInv'
  <2>. DEFINE row == [po EXCEPT !.deleted = (req[r].op = "SOFT_DELETE"), !.version = @ + 1]
  <2>1. po.version > 0 /\ lines # {}
    BY <1>5 DEF SetDeleted, WritesHaveLines, LinesNeverEmpty, Exists
  <2>2. row \in Row /\ row.version > 0
    <3>1. (req[r].op = "SOFT_DELETE") \in BOOLEAN /\ po \in Row /\ po.version \in Nat
      BY DEF TypeOK, Row
    <3>2. po.version + 1 \in Nat /\ po.version + 1 > 0
      BY <3>1
    <3>3. row \in Row
      BY <3>1, <3>2, RowUpdatesAreTyped
    <3>4. row.version = po.version + 1
      BY <3>1 DEF Row
    <3>. QED
      BY <3>2, <3>3, <3>4
  <2>3. Write(r, row, lines, NoEvent, "applied")
    BY <1>5 DEF SetDeleted
  <2>. QED
    BY <1>3, <1>5, <2>1, <2>2, <2>3 DEF SetDeleted, Stages
<1>6. ASSUME NEW r \in Requests, FlushHeader(r)
      PROVE  LinesInv'
  <2>. DEFINE total == TotalOf(req[r].payload)
              row == [po EXCEPT !.version = req[r].snap.version + 1,
                                !.total = IF total = req[r].snap.total THEN @ ELSE total]
  <2>1. req[r].op = "UPDATE" /\ req[r].pc = "fetched"
    BY <1>6 DEF FlushHeader, WritesHaveLines
  <2>2. row \in Row /\ row.version > 0
    <3>1. /\ po \in Row /\ req[r].snap.version \in Nat /\ req[r].payload \in SUBSET Line
          /\ po.total \in Totals
      BY DEF TypeOK, Handler, Row
    <3>2. (IF total = req[r].snap.total THEN po.total ELSE total) \in Totals
      BY <3>1 DEF Totals
    <3>3. req[r].snap.version + 1 \in Nat /\ req[r].snap.version + 1 > 0
      BY <3>1
    <3>. HIDE DEF total
    <3>4. row \in Row
      BY <3>1, <3>2, <3>3, RowUpdatesAreTyped
    <3>5. row.version = req[r].snap.version + 1
      BY <3>1 DEF Row
    <3>. QED
      BY <3>3, <3>4, <3>5
  <2>3. PICK rows : Write(r, row, rows, NoEvent, "cleared")
    BY <1>6 DEF FlushHeader
  <2>. QED
    BY <1>3, <2>1, <2>2, <2>3 DEF Stages
<1>7. ASSUME NEW r \in Requests, SelectRow(r) \/ SelectLines(r)
      PROVE  LinesInv'
  BY <1>7, SelectMoves DEF LinesNeverEmpty, WritesHaveLines, Exists
<1>8. ASSUME NEW r \in Requests, FlushLines(r)
      PROVE  LinesInv'
  <2>1. tx'.po = tx.po /\ tx'.lines # {} /\ UNCHANGED <<po, lines, lock>>
    <3>1. req[r].payload # {}
      BY <1>8 DEF FlushLines, WritesHaveLines
    <3>. QED
      BY <1>8, <3>1 DEF FlushLines, TypeOK, WriteSet
  <2>2. /\ req'[r].pc = "applied"
        /\ \A q \in Requests : q # r => req'[q] = req[q]
        /\ \A q \in Requests : req'[q].op = req[q].op /\ req'[q].payload = req[q].payload
    BY <1>8, StageMoves, ZenonT(30) DEF FlushLines, Stages
  <2>3. lock = r /\ req[r].pc = "cleared"
    BY <1>8 DEF FlushLines, LockInv, Writing
  <2>. QED
    BY <2>1, <2>2, <2>3 DEF LinesNeverEmpty, WritesHaveLines, Exists, LockInv, Writing
<1>9. ASSUME NEW r \in Requests, WriteTimeline(r) \/ WriteAudit(r)
      PROVE  LinesInv'
  <2>1. tx'.po = tx.po /\ tx'.lines = tx.lines /\ UNCHANGED <<po, lines, lock>>
    BY <1>9 DEF WriteTimeline, WriteAudit, TypeOK, WriteSet
  <2>2. PICK pc \in {"traced", "audited"} : req' = [req EXCEPT ![r].pc = pc]
    BY <1>9 DEF WriteTimeline, WriteAudit
  <2>3. /\ req'[r].pc = pc
        /\ \A q \in Requests : q # r => req'[q] = req[q]
        /\ \A q \in Requests : req'[q].op = req[q].op /\ req'[q].payload = req[q].payload
    BY <2>2, StageMoves DEF Stages
  <2>4. req[r].pc \in {"applied", "traced"}
    BY <1>9 DEF WriteTimeline, WriteAudit
  <2>. QED
    BY <2>1, <2>3, <2>4 DEF LinesNeverEmpty, WritesHaveLines, Exists
<1>10. ASSUME NEW r \in Requests, Commit(r)
       PROVE  LinesInv'
  <2>1. lock = r /\ lock # Nobody /\ req[r].pc = "audited"
    BY <1>10, RequestsAssumption DEF Commit, LockInv, Writing
  <2>2. po'.version > 0 /\ lines' # {} /\ lock' = Nobody
    BY <1>10, <2>1 DEF Commit, WritesHaveLines
  <2>3. /\ req'[r].pc = "idle" /\ req'[r].op = "NONE"
        /\ \A q \in Requests : q # r => req'[q] = req[q]
    BY <1>10, FinishEmpties DEF Commit
  <2>4. \A q \in Requests : q # r => req[q].pc \notin {"applied", "traced", "audited"}
    BY <2>1 DEF LockInv, Writing
  <2>. QED
    BY <2>2, <2>3, <2>4 DEF LinesNeverEmpty, WritesHaveLines, Exists
<1>11. ASSUME NEW r \in Requests, VersionConflict(r) \/ Undo(r)
       PROVE  LinesInv'
  <2>1. /\ req'[r].pc = "idle" /\ req'[r].op = "NONE"
        /\ \A q \in Requests : q # r => req'[q] = req[q]
    BY <1>11, FinishEmpties DEF VersionConflict, Undo
  <2>2. UNCHANGED <<po, lines>>
    BY <1>11 DEF VersionConflict, Undo
  <2>3. UNCHANGED <<lock, tx>> \/ (lock = r /\ lock' = Nobody)
    BY <1>11 DEF VersionConflict, Undo
  <2>4. lock = r => \A q \in Requests : q # r => req[q].pc \notin {"applied", "traced", "audited"}
    BY DEF LockInv, Writing
  <2>. QED
    BY <2>1, <2>2, <2>3, <2>4 DEF LinesNeverEmpty, WritesHaveLines, Exists
<1>12. CASE UNCHANGED vars
  BY <1>12 DEF vars, LinesNeverEmpty, WritesHaveLines, Exists
<1>. QED
  <2>1. \A r \in Requests, target \in Statuses : CallChangeStatus(r, target) => LinesInv'
    BY <1>2, CallsLoad DEF AllOps
  <2>2. \A r \in Requests : CallSoftDelete(r) \/ CallRestore(r) => LinesInv'
    BY <1>2, CallsLoad DEF AllOps
  <2>3. \A r \in Requests, payload \in Payloads : CallUpdate(r, payload) => LinesInv'
    BY <1>2, CallsLoad, PayloadIsLines DEF AllOps
  <2>4. \A r \in Requests : LineConflict(r) \/ Fail(r) => LinesInv'
    BY <1>11 DEF LineConflict, Fail
  <2>. QED
    BY <1>1, <1>4, <1>5, <1>6, <1>7, <1>8, <1>9, <1>10, <1>11, <1>12,
       <2>1, <2>2, <2>3, <2>4 DEF Next

\* A PO that exists has lines, although updates clear and insert them in two flushes and
\* may overlap.
THEOREM LinesKept == Spec => []LinesNeverEmpty
<1>1. LinesInv => LinesNeverEmpty
  BY DEF LinesInv
<1>. QED
  BY <1>1, LockedInit, LockedStep, LinesInit, LinesStep, PTL DEF Spec

-----------------------------------------------------------------------------
\* update by itself: what it writes, whatever it overwrites.

\* The columns an update writes over the committed row.
UpdatedRow(r) ==
    LET total == TotalOf(req[r].payload) IN
    [po EXCEPT !.version = req[r].snap.version + 1,
               !.total = IF total = req[r].snap.total THEN @ ELSE total]

\* The committed lines that an update does not delete.
LinesLeft(r) == {l \in lines : \A k \in req[r].loaded : k.id # l.id}

\* The write set of an update is what it was sent, over the row and the lines that the
\* lock keeps as they are.
UpdatesAreTold ==
    \A r \in Requests :
        lock = r /\ req[r].op = "UPDATE" =>
            /\ tx.po = UpdatedRow(r)
            /\ tx.lines = LinesLeft(r) \cup (IF req[r].pc = "cleared" THEN {} ELSE req[r].payload)

\* A handler that goes on keeps what it was sent and what it has read.
LEMMA ReadsAreKept ==
    ASSUME TypeOK, NEW r \in Requests, NEW pc \in Stages, req' = [req EXCEPT ![r].pc = pc]
    PROVE  \A q \in Requests :
              /\ req'[q].snap = req[q].snap
              /\ req'[q].loaded = req[q].loaded
              /\ req'[q].payload = req[q].payload
              /\ req'[q].op = req[q].op
BY DEF TypeOK, Handler

\* While the row and the lines stay, so does what a handler with the same reads writes.
LEMMA TellingIsStable ==
    ASSUME NEW r \in Requests, UNCHANGED <<po, lines>>, req'[r].snap = req[r].snap,
           req'[r].loaded = req[r].loaded, req'[r].payload = req[r].payload
    PROVE  UpdatedRow(r)' = UpdatedRow(r) /\ LinesLeft(r)' = LinesLeft(r)
BY DEF UpdatedRow, LinesLeft

\* A step of a handler that has not the lock before or after it.
LEMMA OthersWritesStay ==
    ASSUME LockedInv, UpdatesAreTold, NEW r \in Requests, lock # r, lock' = lock,
           \A q \in Requests : q # r => req'[q] = req[q],
           UNCHANGED <<po, lines, tx>>
    PROVE  UpdatesAreTold'
<1>. SUFFICES ASSUME NEW q \in Requests, lock' = q, req'[q].op = "UPDATE"
              PROVE  /\ tx'.po = UpdatedRow(q)'
                     /\ tx'.lines = LinesLeft(q)' \cup
                                    (IF req'[q].pc = "cleared" THEN {} ELSE req'[q].payload)
  BY DEF UpdatesAreTold
<1>1. q # r /\ lock = q /\ req'[q] = req[q]
  OBVIOUS
<1>. QED
  BY <1>1, TellingIsStable DEF UpdatesAreTold

\* Every step of every handler keeps it.
LEMMA UpdateStep ==
    LockedInv /\ LinesInv /\ UpdatesAreTold /\ [Next]_vars => UpdatesAreTold'
<1>. SUFFICES ASSUME LockedInv, LinesInv, UpdatesAreTold, [Next]_vars PROVE UpdatesAreTold'
  OBVIOUS
<1>. USE DEF LockedInv
<1>1. ASSUME NEW r \in Requests, NEW source \in Sources, NEW payload \in Payloads,
             Create(r, source, payload)
      PROVE  UpdatesAreTold'
  <2>1. req'[r].op = "CREATE" /\ lock' = r
    BY <1>1 DEF Create, TypeOK, Idle
  <2>. QED
    BY <2>1 DEF UpdatesAreTold
<1>2. ASSUME NEW r \in Requests, NEW op, NEW target, NEW payload,
             Load(r, op, target, payload)
      PROVE  UpdatesAreTold'
  <2>1. lock # r
    BY <1>2 DEF Load, LockInv, Writing
  <2>. QED
    BY <1>2, <2>1, LoadFills, OthersWritesStay
<1>3. ASSUME NEW r \in Requests, ChangeStatus(r) \/ SetDeleted(r)
      PROVE  UpdatesAreTold'
  <2>1. req[r].op # "UPDATE" /\ lock' = r
    BY <1>3 DEF ChangeStatus, SetDeleted, Write
  <2>2. req' = [req EXCEPT ![r].pc = "applied"]
    BY <1>3 DEF ChangeStatus, SetDeleted, Write
  <2>3. req'[r].op = req[r].op
    BY <2>2, StageMoves DEF Stages
  <2>. QED
    BY <2>1, <2>3 DEF UpdatesAreTold
<1>4. ASSUME NEW r \in Requests, SelectRow(r) \/ SelectLines(r)
      PROVE  UpdatesAreTold'
  <2>1. lock # r
    BY <1>4 DEF SelectRow, SelectLines, LockInv, Writing
  <2>. QED
    BY <1>4, <2>1, SelectMoves, OthersWritesStay
<1>5. ASSUME NEW r \in Requests, FlushHeader(r)
      PROVE  UpdatesAreTold'
  <2>1. Write(r, UpdatedRow(r), LinesLeft(r), NoEvent, "cleared")
    BY <1>5 DEF FlushHeader, UpdatedRow, LinesLeft
  <2>2. /\ tx'.po = UpdatedRow(r) /\ tx'.lines = LinesLeft(r) /\ lock' = r
        /\ UNCHANGED <<po, lines>>
    BY <2>1, WriteFills
  <2>3. req' = [req EXCEPT ![r].pc = "cleared"]
    BY <2>1 DEF Write
  <2>4. /\ req'[r].pc = "cleared" /\ req'[r].snap = req[r].snap
        /\ req'[r].loaded = req[r].loaded /\ req'[r].payload = req[r].payload
    BY <2>3, StageMoves, ReadsAreKept DEF Stages
  <2>. QED
    BY <2>2, <2>4, TellingIsStable DEF UpdatesAreTold
<1>6. ASSUME NEW r \in Requests, FlushLines(r)
      PROVE  UpdatesAreTold'
  <2>1. lock = r /\ lock' = r /\ UNCHANGED <<po, lines>>
    BY <1>6 DEF FlushLines, LockInv, Writing
  <2>2. tx'.po = tx.po /\ tx'.lines = tx.lines \cup req[r].payload
    BY <1>6 DEF FlushLines, TypeOK, WriteSet
  <2>3. tx.po = UpdatedRow(r) /\ tx.lines = LinesLeft(r)
    BY <1>6, <2>1 DEF FlushLines, UpdatesAreTold, LinesInv, WritesHaveLines
  <2>4. req' = [req EXCEPT ![r].pc = "applied"]
    BY <1>6 DEF FlushLines
  <2>5. /\ req'[r].pc = "applied" /\ req'[r].snap = req[r].snap
        /\ req'[r].loaded = req[r].loaded /\ req'[r].payload = req[r].payload
    BY <2>4, StageMoves, ReadsAreKept DEF Stages
  <2>. QED
    BY <2>1, <2>2, <2>3, <2>5, TellingIsStable DEF UpdatesAreTold
<1>7. ASSUME NEW r \in Requests, WriteTimeline(r) \/ WriteAudit(r)
      PROVE  UpdatesAreTold'
  <2>1. lock = r /\ lock' = r /\ UNCHANGED <<po, lines>> /\ req[r].pc \in {"applied", "traced"}
    BY <1>7 DEF WriteTimeline, WriteAudit, LockInv, Writing
  <2>2. tx'.po = tx.po /\ tx'.lines = tx.lines
    BY <1>7 DEF WriteTimeline, WriteAudit, TypeOK, WriteSet
  <2>3. PICK pc \in {"traced", "audited"} : req' = [req EXCEPT ![r].pc = pc]
    BY <1>7 DEF WriteTimeline, WriteAudit
  <2>4. /\ req'[r].pc = pc /\ req'[r].snap = req[r].snap /\ req'[r].op = req[r].op
        /\ req'[r].loaded = req[r].loaded /\ req'[r].payload = req[r].payload
    BY <2>3, StageMoves, ReadsAreKept DEF Stages
  <2>5. UpdatedRow(r)' = UpdatedRow(r) /\ LinesLeft(r)' = LinesLeft(r)
    BY <2>1, <2>4, TellingIsStable
  <2>. QED
    BY <2>1, <2>2, <2>4, <2>5 DEF UpdatesAreTold
<1>8. ASSUME NEW r \in Requests, Commit(r)
      PROVE  UpdatesAreTold'
  BY <1>8, RequestsAssumption DEF Commit, UpdatesAreTold
<1>9. ASSUME NEW r \in Requests, VersionConflict(r) \/ Undo(r)
      PROVE  UpdatesAreTold'
  <2>1. /\ \A q \in Requests : q # r => req'[q] = req[q]
        /\ UNCHANGED <<po, lines>>
    BY <1>9, FinishEmpties DEF VersionConflict, Undo
  <2>2. CASE lock = r
    <3>1. lock' = Nobody
      BY <1>9, <2>2 DEF VersionConflict, Undo, LockInv, Writing
    <3>. QED
      BY <3>1, RequestsAssumption DEF UpdatesAreTold
  <2>3. CASE lock # r
    <3>1. UNCHANGED <<lock, tx>>
      BY <1>9, <2>3 DEF VersionConflict, Undo
    <3>. QED
      BY <2>1, <2>3, <3>1, OthersWritesStay
  <2>. QED
    BY <2>2, <2>3
<1>10. CASE UNCHANGED vars
  BY <1>10 DEF vars, UpdatesAreTold, UpdatedRow, LinesLeft
<1>. QED
  <2>1. \A r \in Requests, target \in Statuses : CallChangeStatus(r, target) => UpdatesAreTold'
    BY <1>2, CallsLoad
  <2>2. \A r \in Requests : CallSoftDelete(r) \/ CallRestore(r) => UpdatesAreTold'
    BY <1>2, CallsLoad
  <2>3. \A r \in Requests, payload \in Payloads : CallUpdate(r, payload) => UpdatesAreTold'
    BY <1>2, CallsLoad
  <2>4. \A r \in Requests : LineConflict(r) \/ Fail(r) => UpdatesAreTold'
    BY <1>9 DEF LineConflict, Fail
  <2>. QED
    BY <1>1, <1>3, <1>4, <1>5, <1>6, <1>7, <1>8, <1>9, <1>10, <2>1, <2>2, <2>3, <2>4 DEF Next

\* Only a commit changes the row and its lines.
LEMMA CommitsChange ==
    ASSUME LockInv, [Next]_vars, po' # po \/ lines' # lines
    PROVE  \E r \in Requests : Commit(r) /\ lock = r
<1>1. PICK r \in Requests : Commit(r)
  BY DEF Next, vars, Create, Load, CallChangeStatus, ChangeStatus, CallSoftDelete, CallRestore,
         SetDeleted, CallUpdate, SelectRow, SelectLines, FlushHeader, FlushLines, Write,
         WriteTimeline, WriteAudit, VersionConflict, LineConflict, Fail, Undo
<1>. QED
  BY <1>1 DEF Commit, LockInv, Writing

\* An update whose lines nobody else has replaced leaves the lines and the total that it was
\* sent, and takes back nothing that was committed since it read the row, with every operation
\* in play and whatever versions clients send.
THEOREM UpdatesKeepToTheirOwn == Spec => UpdateKeepsToItsOwn
<1>1. Init => UpdatesAreTold
  BY RequestsAssumption DEF Init, UpdatesAreTold
<1>2. ASSUME LockedInv, LinesInv, UpdatesAreTold, [Next]_vars,
             NEW r \in Requests, po' # po \/ lines' # lines, lock = r, req[r].op = "UPDATE",
             LinesUntouched(r)
      PROVE  /\ po' = [po EXCEPT !.version = po'.version, !.total = TotalOf(req[r].payload)]
             /\ lines' = req[r].payload
  <2>1. Commit(r)
    BY <1>2, CommitsChange DEF LockedInv
  <2>2. /\ po' = UpdatedRow(r) /\ lines' = LinesLeft(r) \cup req[r].payload
    BY <1>2, <2>1 DEF Commit, UpdatesAreTold
  <2>3. LinesLeft(r) = {}
    BY <1>2 DEF LinesUntouched, LinesLeft
  <2>4. UpdatedRow(r) = [po EXCEPT !.version = UpdatedRow(r).version,
                                   !.total = TotalOf(req[r].payload)]
    <3> DEFINE total == TotalOf(req[r].payload)
    <3> DEFINE version == req[r].snap.version + 1
    <3>1. (IF total = req[r].snap.total THEN po.total ELSE total) = total
      BY <1>2 DEF LinesUntouched
    <3>2. UpdatedRow(r) = [po EXCEPT !.version = version, !.total = total]
      BY <3>1 DEF UpdatedRow
    <3>3. po \in Row
      BY <1>2 DEF LockedInv, TypeOK
    <3> HIDE DEF total, version
    <3>4. UpdatedRow(r).version = version
      BY <3>2, <3>3 DEF Row
    <3>. QED
      BY <3>2, <3>4 DEF total
  <2>. QED
    BY <2>2, <2>3, <2>4
<1>3. LockedInv /\ LinesInv /\ UpdatesAreTold /\ [Next]_vars =>
         [\A r \in Requests :
            (po' # po \/ lines' # lines) /\ lock = r /\ req[r].op = "UPDATE" /\ LinesUntouched(r) =>
               /\ po' = [po EXCEPT !.version = po'.version, !.total = TotalOf(req[r].payload)]
               /\ lines' = req[r].payload]_vars
  BY <1>2
<1>. QED
  BY <1>1, <1>3, LockedInit, LockedStep, LinesInit, LinesStep, UpdateStep, PTL
  DEF Spec, UpdateKeepsToItsOwn

-----------------------------------------------------------------------------
\* The traces of a mutation, under all operations.

Moving == {"CREATE", "STATUS_CHANGE"}

\* A write set has a status event exactly if its operation moves the PO; the event leaves
\* from what the handler has read and leads to what it writes; and the audit event tells the
\* same move.
MovesAreTraced ==
    \A r \in Requests :
        lock = r =>
            /\ tx.event # NoEvent <=> req[r].op \in Moving
            /\ tx.event # NoEvent =>
                  tx.event.from = req[r].before.status /\ tx.event.to = tx.po.status
            /\ req[r].pc = "audited" =>
                  /\ tx.audit.op = req[r].op
                  /\ tx.audit.before = req[r].before
                  /\ req[r].op # "UPDATE" => tx.audit.after = Image(tx.po)

\* A handler that goes on keeps what it has read of the row.
LEMMA BeforeIsKept ==
    ASSUME TypeOK, NEW r \in Requests, NEW pc \in Stages, req' = [req EXCEPT ![r].pc = pc]
    PROVE  \A q \in Requests : req'[q].before = req[q].before
BY DEF TypeOK, Handler

\* An audit event that tells of no move leaves the moves as they were told.
LEMMA OtherIsTold ==
    ASSUME NEW trail \in Seq(AuditEvent), NEW events \in Seq(StatusEvent),
           TellsMoves(trail, events), NEW a \in AuditEvent, a.op \notin Moving
    PROVE  TellsMoves(Append(trail, a), events)
<1>. DEFINE more == Append(trail, a)  m == Len(trail)
<1>1. /\ m \in Nat /\ Len(more) = m + 1 /\ more[m + 1] = a
      /\ \A i \in 1..m : more[i] = trail[i]
  OBVIOUS
<1>2. MovesIn(trail) = {i \in 1..m : trail[i].op \in Moving}
  BY DEF MovesIn, Moving
<1>3. MovesIn(more) = {i \in 1..m + 1 : more[i].op \in Moving}
  BY <1>1 DEF MovesIn, Moving
<1>. HIDE DEF more, m
<1>4. MovesIn(more) = MovesIn(trail)
  <2>1. \A i : i \in 1..m + 1 <=> i \in 1..m \/ i = m + 1
    BY <1>1
  <2>. QED
    BY <1>1, <1>2, <1>3, <2>1
<1>5. \A i \in MovesIn(trail) : more[i] = trail[i]
  BY <1>1, <1>2
<1>6. TellsMoves(more, events)
  <2>1. PICK at \in [1..Len(events) -> MovesIn(trail)] :
           /\ \A i, j \in 1..Len(events) : i < j => at[i] < at[j]
           /\ \A k \in MovesIn(trail) : \E i \in 1..Len(events) : at[i] = k
           /\ \A i \in 1..Len(events) : /\ trail[at[i]].before.status = events[i].from
                                       /\ trail[at[i]].after.status = events[i].to
    BY DEF TellsMoves
  <2>2. \A i \in 1..Len(events) : more[at[i]] = trail[at[i]]
    BY <1>5, <2>1
  <2>3. at \in [1..Len(events) -> MovesIn(more)]
    BY <1>4, <2>1
  <2>4. \A k \in MovesIn(more) : \E i \in 1..Len(events) : at[i] = k
    BY <1>4, <2>1
  <2>. SUFFICES \E f \in [1..Len(events) -> MovesIn(more)] :
                   /\ \A i, j \in 1..Len(events) : i < j => f[i] < f[j]
                   /\ \A k \in MovesIn(more) : \E i \in 1..Len(events) : f[i] = k
                   /\ \A i \in 1..Len(events) : /\ more[f[i]].before.status = events[i].from
                                               /\ more[f[i]].after.status = events[i].to
    BY Zenon DEF TellsMoves
  <2>. WITNESS at \in [1..Len(events) -> MovesIn(more)]
  <2>. QED
    BY <2>1, <2>2, <2>3, <2>4
<1>. QED
  BY <1>6 DEF more

\* A status event and the audit event of the same move tell one move more.
LEMMA MoveIsTold ==
    ASSUME NEW trail \in Seq(AuditEvent), NEW events \in Seq(StatusEvent),
           TellsMoves(trail, events), NEW a \in AuditEvent, NEW e \in StatusEvent,
           a.op \in Moving, a.before.status = e.from, a.after.status = e.to
    PROVE  TellsMoves(Append(trail, a), Append(events, e))
<1>. DEFINE more == Append(trail, a)  m == Len(trail)
            longer == Append(events, e)  n == Len(events)
<1>1. /\ m \in Nat /\ Len(more) = m + 1 /\ more[m + 1] = a
      /\ \A i \in 1..m : more[i] = trail[i]
      /\ n \in Nat /\ Len(longer) = n + 1 /\ longer[n + 1] = e
      /\ \A i \in 1..n : longer[i] = events[i]
  OBVIOUS
<1>2. MovesIn(trail) = {i \in 1..m : trail[i].op \in Moving}
  BY DEF MovesIn, Moving
<1>3. MovesIn(more) = {i \in 1..m + 1 : more[i].op \in Moving}
  BY <1>1 DEF MovesIn, Moving
<1>4. PICK at \in [1..n -> MovesIn(trail)] :
         /\ \A i, j \in 1..n : i < j => at[i] < at[j]
         /\ \A k \in MovesIn(trail) : \E i \in 1..n : at[i] = k
         /\ \A i \in 1..n : /\ trail[at[i]].before.status = events[i].from
                            /\ trail[at[i]].after.status = events[i].to
  BY DEF TellsMoves
<1>. HIDE DEF more, m, longer, n
<1>5. /\ \A i : i \in 1..m + 1 <=> i \in 1..m \/ i = m + 1
      /\ \A i : i \in 1..n + 1 <=> i \in 1..n \/ i = n + 1
      /\ \A i \in 1..m : i \in Int /\ i < m + 1
      /\ \A i \in 1..n : i \in Int /\ i < n + 1
  BY <1>1
<1>6. \A i : i \in MovesIn(more) <=> i \in MovesIn(trail) \/ i = m + 1
  BY <1>1, <1>2, <1>3, <1>5
<1>. DEFINE now == [i \in 1..n + 1 |-> IF i = n + 1 THEN m + 1 ELSE at[i]]
<1>7. /\ now \in [1..n + 1 -> MovesIn(more)]
      /\ now[n + 1] = m + 1
      /\ \A i \in 1..n : now[i] = at[i] /\ at[i] \in MovesIn(trail) /\ at[i] \in 1..m
  <2>1. \A i \in 1..n : at[i] \in MovesIn(trail) /\ at[i] \in 1..m /\ i # n + 1
    BY <1>2, <1>4, <1>5
  <2>2. \A i \in 1..n + 1 : (IF i = n + 1 THEN m + 1 ELSE at[i]) \in MovesIn(more)
    BY <1>5, <1>6, <2>1
  <2>. QED
    BY <1>5, <2>1, <2>2
<1>. HIDE DEF now
<1>8. ASSUME NEW i \in 1..n + 1, NEW j \in 1..n + 1, i < j
      PROVE  now[i] < now[j]
  <2>1. i \in 1..n
    BY <1>1, <1>8
  <2>2. CASE j \in 1..n
    BY <1>4, <1>7, <1>8, <2>1, <2>2
  <2>3. CASE j = n + 1
    BY <1>5, <1>7, <2>1, <2>3
  <2>. QED
    BY <1>5, <2>2, <2>3
<1>9. ASSUME NEW k \in MovesIn(more)
      PROVE  \E i \in 1..n + 1 : now[i] = k
  <2>1. CASE k = m + 1
    BY <1>5, <1>7, <2>1
  <2>2. CASE k \in MovesIn(trail)
    <3>1. PICK i \in 1..n : at[i] = k
      BY <1>4, <2>2
    <3>. QED
      BY <1>5, <1>7, <3>1
  <2>. QED
    BY <1>6, <2>1, <2>2
<1>10. ASSUME NEW i \in 1..n + 1
       PROVE  /\ more[now[i]].before.status = longer[i].from
              /\ more[now[i]].after.status = longer[i].to
  <2>1. CASE i = n + 1
    BY <1>1, <1>7, <2>1
  <2>2. CASE i \in 1..n
    <3>1. more[now[i]] = trail[at[i]] /\ longer[i] = events[i]
      BY <1>1, <1>7, <2>2
    <3>. QED
      BY <1>4, <2>2, <3>1
  <2>. QED
    BY <1>5, <2>1, <2>2
<1>11. n + 1 = Len(longer)
  BY <1>1
<1>12. TellsMoves(more, longer)
  <2>1. now \in [1..Len(longer) -> MovesIn(more)]
    BY <1>7, <1>11
  <2>. SUFFICES \E f \in [1..Len(longer) -> MovesIn(more)] :
                   /\ \A i, j \in 1..Len(longer) : i < j => f[i] < f[j]
                   /\ \A k \in MovesIn(more) : \E i \in 1..Len(longer) : f[i] = k
                   /\ \A i \in 1..Len(longer) :
                         /\ more[f[i]].before.status = longer[i].from
                         /\ more[f[i]].after.status = longer[i].to
    BY Zenon DEF TellsMoves
  <2>. WITNESS now \in [1..Len(longer) -> MovesIn(more)]
  <2>. QED
    BY <1>8, <1>9, <1>10, <1>11
<1>. QED
  BY <1>12 DEF more, longer

\* A first write that moves nothing, or moves the row along with its event.
LEMMA FirstWriteIsTraced ==
    ASSUME LockedInv, NEW r \in Requests, NEW row, NEW rows, NEW event, NEW pc \in Stages,
           Write(r, row, rows, event, pc), pc # "audited",
           event # NoEvent <=> req[r].op \in Moving,
           event # NoEvent => event.from = req[r].before.status /\ event.to = row.status
    PROVE  MovesAreTraced'
<1>1. tx'.po = row /\ tx'.event = event /\ lock' = r
  BY WriteFills DEF LockedInv
<1>2. req' = [req EXCEPT ![r].pc = pc]
  BY DEF Write
<1>3. req'[r].pc = pc /\ req'[r].op = req[r].op /\ req'[r].before = req[r].before
  BY <1>2, StageMoves, BeforeIsKept DEF LockedInv
<1>. QED
  BY <1>1, <1>3 DEF MovesAreTraced

\* Every step of every handler keeps it.
LEMMA MoveStep ==
    LockedInv /\ StatusInv /\ LinesInv /\ MovesAreTraced /\ [Next]_vars => MovesAreTraced'
<1>. SUFFICES ASSUME LockedInv, StatusInv, LinesInv, MovesAreTraced, [Next]_vars
              PROVE  MovesAreTraced'
  OBVIOUS
<1>. USE DEF LockedInv
<1>1. ASSUME NEW r \in Requests, NEW source \in Sources, NEW payload \in Payloads,
             Create(r, source, payload)
      PROVE  MovesAreTraced'
  <2>1. /\ req'[r].op = "CREATE" /\ req'[r].pc = "applied"
        /\ req'[r].before.status = "NONE" /\ lock' = r
    BY <1>1 DEF Create, TypeOK, Idle, Image, NoRow
  <2>2. /\ tx'.event.from = "NONE" /\ tx'.event.to = InitialStatus(source)
        /\ tx'.po.status = InitialStatus(source)
    BY <1>1 DEF Create, NoTx
  <2>3. tx'.event # NoEvent
    BY <2>2, WorkflowIsTyped DEF NoEvent
  <2>. QED
    BY <2>1, <2>2, <2>3 DEF MovesAreTraced, Moving
<1>2. ASSUME NEW r \in Requests, lock # r, lock' = lock, tx' = tx,
             \A q \in Requests : q # r => req'[q] = req[q]
      PROVE  MovesAreTraced'
  BY <1>2 DEF MovesAreTraced
<1>3. ASSUME NEW r \in Requests, NEW op, NEW target, NEW payload,
             Load(r, op, target, payload)
      PROVE  MovesAreTraced'
  <2>1. lock # r
    BY <1>3 DEF Load, LockInv, Writing
  <2>. QED
    BY <1>2, <1>3, <2>1, LoadFills
<1>4. ASSUME NEW r \in Requests, ChangeStatus(r)
      PROVE  MovesAreTraced'
  <2>. DEFINE event == [from |-> req[r].before.status, to |-> req[r].target, at |-> req[r].at]
              row == [po EXCEPT !.status = req[r].target, !.version = @ + 1]
  <2>1. Write(r, row, lines, event, "applied") /\ req[r].op = "STATUS_CHANGE"
    BY <1>4 DEF ChangeStatus
  <2>2. row.status = req[r].target
    BY DEF TypeOK, Row
  <2>3. event # NoEvent /\ event.to = req[r].target /\ event.from = req[r].before.status
    BY <1>4, WorkflowIsTyped DEF ChangeStatus, StatusInv, TargetsKnown, NoEvent
  <2>. HIDE DEF event, row
  <2>. QED
    BY <2>1, <2>2, <2>3, FirstWriteIsTraced DEF Moving, Stages
<1>5. ASSUME NEW r \in Requests, SetDeleted(r) \/ FlushHeader(r)
      PROVE  MovesAreTraced'
  <2>1. PICK row, rows, pc :
           Write(r, row, rows, NoEvent, pc) /\ pc \in {"applied", "cleared"}
    BY <1>5 DEF SetDeleted, FlushHeader
  <2>2. req[r].op \notin Moving
    BY <1>5 DEF SetDeleted, FlushHeader, LinesInv, WritesHaveLines, Moving
  <2>. QED
    BY <2>1, <2>2, FirstWriteIsTraced DEF Stages
<1>6. ASSUME NEW r \in Requests, SelectRow(r) \/ SelectLines(r)
      PROVE  MovesAreTraced'
  <2>1. lock # r
    BY <1>6 DEF SelectRow, SelectLines, LockInv, Writing
  <2>. QED
    BY <1>2, <1>6, <2>1, SelectMoves
<1>7. ASSUME NEW r \in Requests, FlushLines(r) \/ WriteTimeline(r)
      PROVE  MovesAreTraced'
  <2>1. tx'.po = tx.po /\ tx'.event = tx.event /\ lock' = lock /\ lock = r
    BY <1>7 DEF FlushLines, WriteTimeline, TypeOK, WriteSet, LockInv, Writing
  <2>2. PICK pc \in {"applied", "traced"} : req' = [req EXCEPT ![r].pc = pc]
    BY <1>7 DEF FlushLines, WriteTimeline
  <2>3. req'[r].pc = pc /\ req'[r].op = req[r].op /\ req'[r].before = req[r].before
    BY <2>2, StageMoves, BeforeIsKept DEF Stages
  <2>. QED
    BY <2>1, <2>3 DEF MovesAreTraced
<1>8. ASSUME NEW r \in Requests, WriteAudit(r)
      PROVE  MovesAreTraced'
  <2>1. /\ tx'.po = tx.po /\ tx'.event = tx.event /\ lock' = lock /\ lock = r
        /\ tx'.audit = [op |-> req[r].op, before |-> req[r].before, after |-> Result(r)]
    BY <1>8 DEF WriteAudit, TypeOK, WriteSet, LockInv, Writing
  <2>2. req'[r].op = req[r].op /\ req'[r].before = req[r].before
    BY <1>8, StageMoves, BeforeIsKept DEF WriteAudit, Stages
  <2>3. req[r].op # "UPDATE" => Result(r) = Image(tx.po)
    BY DEF Result
  <2>. QED
    BY <2>1, <2>2, <2>3 DEF MovesAreTraced
<1>9. ASSUME NEW r \in Requests, Commit(r)
      PROVE  MovesAreTraced'
  BY <1>9, RequestsAssumption DEF Commit, MovesAreTraced
<1>10. ASSUME NEW r \in Requests, VersionConflict(r) \/ Undo(r)
       PROVE  MovesAreTraced'
  <2>1. CASE lock = r
    <3>1. lock' = Nobody
      BY <1>10, <2>1 DEF VersionConflict, Undo, LockInv, Writing
    <3>. QED
      BY <3>1, RequestsAssumption DEF MovesAreTraced
  <2>2. CASE lock # r
    BY <1>2, <1>10, <2>2, FinishEmpties DEF VersionConflict, Undo
  <2>. QED
    BY <2>1, <2>2
<1>11. CASE UNCHANGED vars
  BY <1>11 DEF vars, MovesAreTraced
<1>. QED
  <2>1. \A r \in Requests, target \in Statuses : CallChangeStatus(r, target) => MovesAreTraced'
    BY <1>3, CallsLoad
  <2>2. \A r \in Requests : CallSoftDelete(r) \/ CallRestore(r) => MovesAreTraced'
    BY <1>3, CallsLoad
  <2>3. \A r \in Requests, payload \in Payloads : CallUpdate(r, payload) => MovesAreTraced'
    BY <1>3, CallsLoad
  <2>4. \A r \in Requests : LineConflict(r) \/ Fail(r) => MovesAreTraced'
    BY <1>10 DEF LineConflict, Fail
  <2>. QED
    BY <1>1, <1>4, <1>5, <1>6, <1>7, <1>8, <1>9, <1>10, <1>11, <2>1, <2>2, <2>3, <2>4 DEF Next

\* Only a commit writes the traces.
LEMMA CommitsTrace ==
    ASSUME [Next]_vars
    PROVE  UNCHANGED <<history, timeline, audit>> \/ \E r \in Requests : Commit(r)
<1>. SUFFICES ASSUME NEW r \in Requests,
                     \/ \E source \in Sources, payload \in Payloads : Create(r, source, payload)
                     \/ \E target \in Statuses : CallChangeStatus(r, target)
                     \/ ChangeStatus(r) \/ CallSoftDelete(r) \/ CallRestore(r) \/ SetDeleted(r)
                     \/ \E payload \in Payloads : CallUpdate(r, payload)
                     \/ SelectRow(r) \/ SelectLines(r) \/ FlushHeader(r) \/ FlushLines(r)
                     \/ WriteTimeline(r) \/ WriteAudit(r)
                     \/ VersionConflict(r) \/ LineConflict(r) \/ Fail(r)
              PROVE  UNCHANGED <<history, timeline, audit>>
  BY DEF Next, vars
<1>. QED
  BY DEF Create, Load, CallChangeStatus, ChangeStatus, CallSoftDelete, CallRestore,
         SetDeleted, CallUpdate, SelectRow, SelectLines, FlushHeader, FlushLines, Write,
         WriteTimeline, WriteAudit, VersionConflict, LineConflict, Fail, Undo

\* A commit adds to each of the traces what its write set tells.
LEMMA TracesStep ==
    LockedInv /\ MovesAreTraced /\ TracesAgree /\ [Next]_vars => TracesAgree'
<1>. SUFFICES ASSUME LockedInv, MovesAreTraced, TracesAgree, [Next]_vars PROVE TracesAgree'
  OBVIOUS
<1>1. CASE UNCHANGED <<history, timeline, audit>>
  BY <1>1 DEF TracesAgree
<1>2. ASSUME NEW r \in Requests, Commit(r)
      PROVE  TracesAgree'
  <2>1. /\ lock = r /\ req[r].pc = "audited"
        /\ timeline' = Append(timeline, tx.trace) /\ audit' = Append(audit, tx.audit)
        /\ history' = IF tx.event = NoEvent THEN history ELSE Append(history, tx.event)
    BY <1>2 DEF Commit, LockedInv, LockInv, Writing
  <2>2. /\ history \in Seq(StatusEvent) /\ audit \in Seq(AuditEvent)
        /\ timeline \in Seq(AllOps \cup {"CREATE"}) /\ tx \in WriteSet /\ tx.po \in Row
    BY DEF LockedInv, TypeOK, WriteSet
  <2>3. tx.event \in StatusEvent /\ tx.audit \in AuditEvent
    BY <2>2 DEF WriteSet
  <2>4. tx.trace = tx.audit.op
    BY <2>1 DEF LockedInv, Named, MovesAreTraced
  <2>5. /\ Len(timeline') = Len(audit')
        /\ \A i \in 1..Len(audit') : timeline'[i] = audit'[i].op
    BY <2>1, <2>2, <2>3, <2>4 DEF TracesAgree
  <2>6. TellsMoves(audit', history')
    <3>1. TellsMoves(audit, history)
      BY DEF TracesAgree
    <3>2. /\ tx.event # NoEvent <=> tx.audit.op \in Moving
          /\ tx.event # NoEvent =>
                /\ tx.audit.before.status = tx.event.from
                /\ tx.audit.after.status = tx.event.to
      <4>1. Image(tx.po).status = tx.po.status
        BY DEF Image
      <4>. QED
        BY <2>1, <4>1 DEF MovesAreTraced, Moving
    <3>3. CASE tx.event = NoEvent
      BY <2>1, <2>2, <2>3, <3>1, <3>2, <3>3, OtherIsTold
    <3>4. CASE tx.event # NoEvent
      BY <2>1, <2>2, <2>3, <3>1, <3>2, <3>4, MoveIsTold
    <3>. QED
      BY <3>3, <3>4
  <2>. QED
    BY <2>5, <2>6 DEF TracesAgree
<1>. QED
  BY <1>1, <1>2, CommitsTrace

\* However mutations overlap and wherever they fail, the timeline, the audit trail and the
\* workflow history tell the same story.
THEOREM TracesTellTheSame == Spec => []TracesAgree
<1>1. Init => MovesAreTraced /\ TracesAgree
  <2>. SUFFICES ASSUME Init PROVE MovesAreTraced /\ TracesAgree
    OBVIOUS
  <2>1. lock = Nobody /\ history = <<>> /\ timeline = <<>> /\ audit = <<>>
    BY DEF Init
  <2>2. MovesAreTraced
    BY <2>1, RequestsAssumption DEF MovesAreTraced
  <2>3. MovesIn(<<>>) = {}
    BY DEF MovesIn
  <2>4. TellsMoves(<<>>, <<>>)
    <3>1. [i \in 1..0 |-> i] \in [1..0 -> {}]
      OBVIOUS
    <3>. QED
      BY <2>3, <3>1 DEF TellsMoves
  <2>. QED
    BY <2>1, <2>2, <2>4 DEF TracesAgree
<1>. QED
  BY <1>1, LockedInit, LockedStep, StatusInit, StatusStep, LinesInit, LinesStep, MoveStep,
     TracesStep, PTL DEF Spec

-----------------------------------------------------------------------------
(***************************************************************************)
(* What CustomerPo guarantees when clients use only the operations whose   *)
(* condition and write are one statement (create, change_status,           *)
(* soft_delete, restore) and send versions they have been told.            *)
(***************************************************************************)

AtomicOps == "UPDATE" \notin Ops /\ ~Pipelined

\* The row after a mutation, by what the row before it was.
Successor(old, new) ==
    \/ /\ old.version = 0 /\ new.version = 1
       /\ new.status \in InitialStatuses /\ new.deleted = old.deleted
    \/ /\ old.version > 0 /\ new.version = old.version + 1
       /\ \/ ~old.deleted /\ new.status \in Allowed[old.status] /\ new.deleted = old.deleted
          \/ new.deleted # old.deleted /\ new.status = old.status

\* A handler that has read the row and not written it: if the version it was sent is
\* still the row's, so is the status it has checked its target against.
ChecksAreFresh ==
    \A r \in Requests :
        req[r].pc = "loaded" =>
            /\ req[r].expected <= po.version
            /\ req[r].op = "STATUS_CHANGE" /\ req[r].expected = po.version =>
                  req[r].before.status = po.status /\ req[r].target \in Allowed[po.status]

\* The open transaction replaces the version its client named by its successor, with
\* the event of the move it makes.
WritesAreSteps ==
    \A r \in Requests :
        lock = r =>
            /\ Successor(po, tx.po)
            /\ po.version > 0 => po.version = req[r].expected
            /\ \/ tx.event = NoEvent /\ po.version > 0
               \/ /\ po.version = 0 /\ tx.event.from = "NONE"
                  /\ tx.event.to \in InitialStatuses
               \/ /\ po.version > 0 /\ tx.event.from = po.status
                  /\ tx.event.to \in Allowed[po.status]

AtomicInv ==
    /\ \A r \in Requests : req[r].op # "UPDATE"
    /\ published = po.version
    /\ po.version = 0 => po = NoRow
    /\ history = <<>> <=> po.version = 0
    /\ ChecksAreFresh
    /\ WritesAreSteps
    /\ HistoryIsWorkflowPath

-----------------------------------------------------------------------------

\* The invariant holds before the first step.
LEMMA AtomicInit == Init => AtomicInv
<1>. SUFFICES ASSUME Init PROVE AtomicInv
  OBVIOUS
<1>1. \A r \in Requests : req[r].op = "NONE" /\ req[r].pc = "idle" /\ lock # r
  BY RequestsAssumption DEF Init, Idle
<1>2. HistoryIsWorkflowPath
  BY DEF Init, HistoryIsWorkflowPath, WorkflowPath
<1>3. published = po.version /\ po = NoRow /\ history = <<>> /\ po.version = 0
  BY DEF Init, NoRow
<1>. QED
  BY <1>1, <1>2, <1>3 DEF AtomicInv, ChecksAreFresh, WritesAreSteps

\* A path of the workflow goes on with an event that leaves from where it ended.
LEMMA PathExtends ==
    ASSUME NEW h \in Seq(StatusEvent), NEW e \in StatusEvent, WorkflowPath(h),
           h = <<>> => e.from = "NONE" /\ e.to \in InitialStatuses,
           h # <<>> => e.from = Last(h).to /\ e.to \in Allowed[e.from]
    PROVE  WorkflowPath(Append(h, e))
<1>. DEFINE g == Append(h, e)
<1>1. Len(g) = Len(h) + 1 /\ Len(h) \in Nat /\ g[Len(h) + 1] = e
  OBVIOUS
<1>2. \A i \in 1..Len(h) : g[i] = h[i]
  OBVIOUS
<1>3. h = <<>> <=> Len(h) = 0
  OBVIOUS
<1>. SUFFICES ASSUME NEW i \in 1..Len(g)
              PROVE  IF i = 1
                     THEN g[i].from = "NONE" /\ g[i].to \in InitialStatuses
                     ELSE g[i].from = g[i - 1].to /\ g[i].to \in Allowed[g[i].from]
  BY DEF WorkflowPath
<1>4. CASE i <= Len(h)
  <2>1. i \in 1..Len(h) /\ (i # 1 => i - 1 \in 1..Len(h))
    BY <1>1, <1>4
  <2>. HIDE DEF g
  <2>. QED
    BY <1>2, <2>1 DEF WorkflowPath
<1>5. CASE i = Len(h) + 1
  <2>1. CASE h = <<>>
    BY <1>1, <1>3, <1>5, <2>1
  <2>2. CASE h # <<>>
    <3>1. i # 1 /\ i - 1 = Len(h) /\ i - 1 \in 1..Len(h) /\ Last(h) = h[Len(h)]
      BY <1>1, <1>3, <1>5, <2>2 DEF Last
    <3>. HIDE DEF g
    <3>. QED
      BY <1>1, <1>2, <1>5, <2>2, <3>1
  <2>. QED
    BY <2>1, <2>2
<1>. QED
  BY <1>1, <1>4, <1>5

\* A version that is still the row's was the row's when it was read.
LEMMA SuccessorGrows ==
    ASSUME NEW old \in Row, NEW new \in Row, Successor(old, new)
    PROVE  new.version = old.version + 1
BY DEF Successor, Row

\* The first write of a handler that passed the condition of its statement.
LEMMA FirstWriteIsStep ==
    ASSUME LockedInv, AtomicInv, LinesInv, NEW r \in Requests, NEW row, NEW rows, NEW event,
           Write(r, row, rows, event, "applied"), req[r].pc = "loaded",
           po.version > 0, po.version = req[r].expected, Successor(po, row),
           event = NoEvent \/ (event.from = po.status /\ event.to \in Allowed[po.status])
    PROVE  AtomicInv'
<1>. USE DEF LockedInv
<1>1. /\ tx'.po = row /\ tx'.event = event /\ lock' = r
      /\ UNCHANGED <<po, lines, history, published>>
  BY WriteFills
<1>2. req' = [req EXCEPT ![r].pc = "applied"]
  BY DEF Write
<1>3. /\ req'[r].pc = "applied"
      /\ \A q \in Requests : q # r => req'[q] = req[q]
      /\ \A q \in Requests : req'[q].op = req[q].op /\ req'[q].expected = req[q].expected
  <2>. HIDE DEF LockedInv
  <2>1. TypeOK /\ "applied" \in Stages
    BY DEF LockedInv, Stages
  <2>. QED
    BY ONLY <2>1, <1>2, r \in Requests, StageMoves
<1>4. ChecksAreFresh'
  BY <1>1, <1>3 DEF AtomicInv, ChecksAreFresh
<1>5. WritesAreSteps'
  BY <1>1, <1>3 DEF WritesAreSteps
<1>6. HistoryIsWorkflowPath'
  BY <1>1 DEF AtomicInv, HistoryIsWorkflowPath
<1>. QED
  BY <1>1, <1>3, <1>4, <1>5, <1>6 DEF AtomicInv

\* Without update every step of every handler keeps it.
LEMMA AtomicStep ==
    ASSUME AtomicOps, LockedInv, StatusInv, LinesInv, AtomicInv, [Next]_vars
    PROVE  AtomicInv'
<1>. USE DEF LockedInv
<1>1. ASSUME NEW r \in Requests, NEW source \in Sources, NEW payload \in Payloads,
             Create(r, source, payload)
      PROVE  AtomicInv'
  <2>1. po.version = 0 /\ po = NoRow /\ history = <<>>
    BY <1>1 DEF Create, Exists, TypeOK, Row, AtomicInv
  <2>2. /\ tx'.po.version = 1 /\ tx'.po.status = InitialStatus(source)
        /\ tx'.po.deleted = FALSE
        /\ tx'.event.from = "NONE" /\ tx'.event.to = InitialStatus(source)
        /\ lock' = r /\ UNCHANGED <<po, history, published>>
    BY <1>1 DEF Create, NoTx
  <2>3. /\ req'[r].op = "CREATE" /\ req'[r].pc = "applied"
        /\ \A q \in Requests : q # r => req'[q] = req[q]
    BY <1>1 DEF Create, TypeOK, Idle
  <2>4. ChecksAreFresh'
    BY <2>2, <2>3 DEF AtomicInv, ChecksAreFresh
  <2>5. WritesAreSteps'
    <3>1. InitialStatus(source) \in InitialStatuses
      BY DEF InitialStatuses
    <3>2. po.version = 0 /\ po.deleted = FALSE
      BY <2>1 DEF NoRow
    <3>3. Successor(po, tx.po)'
      BY <2>2, <3>1, <3>2 DEF Successor
    <3>. QED
      BY <2>2, <3>1, <3>2, <3>3 DEF WritesAreSteps
  <2>6. HistoryIsWorkflowPath'
    BY <2>2 DEF AtomicInv, HistoryIsWorkflowPath
  <2>. QED
    BY <2>2, <2>3, <2>4, <2>5, <2>6 DEF AtomicInv
<1>2. ASSUME NEW r \in Requests, NEW op \in AllOps, NEW target, NEW payload,
             Load(r, op, target, payload),
             op = "STATUS_CHANGE" => target \in Allowed[po.status]
      PROVE  AtomicInv'
  <2>1. /\ req'[r].pc = "loaded" /\ req'[r].op = op /\ req'[r].target = target
        /\ req'[r].before.status = po.status
        /\ \A q \in Requests : q # r => req'[q] = req[q]
        /\ UNCHANGED <<po, lines, history, lock, tx, published>>
    BY <1>2, LoadFills DEF Image
  <2>2. op # "UPDATE"
    BY <1>2 DEF Load, AtomicOps
  <2>3. req'[r].expected <= po.version
    <3>1. req'[r].expected \in 1..po.version
      BY <1>2, LoadFills DEF Expectable, AtomicOps, AtomicInv
    <3>. QED
      BY <3>1 DEF TypeOK, Row
  <2>4. lock # r
    BY <1>2 DEF Load, LockInv, Writing
  <2>5. ChecksAreFresh'
    BY <1>2, <2>1, <2>3 DEF AtomicInv, ChecksAreFresh
  <2>6. WritesAreSteps'
    BY <2>1, <2>4 DEF AtomicInv, WritesAreSteps
  <2>7. HistoryIsWorkflowPath'
    BY <2>1 DEF AtomicInv, HistoryIsWorkflowPath
  <2>. QED
    BY <2>1, <2>2, <2>5, <2>6, <2>7 DEF AtomicInv
<1>3. ASSUME NEW r \in Requests, ChangeStatus(r)
      PROVE  AtomicInv'
  <2>. DEFINE row == [po EXCEPT !.status = req[r].target, !.version = @ + 1]
              event == [from |-> req[r].before.status, to |-> req[r].target,
                        at |-> req[r].at]
  <2>1. /\ Write(r, row, lines, event, "applied") /\ req[r].pc = "loaded"
        /\ req[r].op = "STATUS_CHANGE" /\ po.version = req[r].expected /\ ~po.deleted
    BY <1>3 DEF ChangeStatus, Matches, TypeOK, Row
  <2>2. po.version > 0
    BY <2>1 DEF LinesInv, WritesHaveLines
  <2>3. req[r].before.status = po.status /\ req[r].target \in Allowed[po.status]
    BY <2>1 DEF AtomicInv, ChecksAreFresh
  <2>4. row.version = po.version + 1 /\ row.status = req[r].target /\ row.deleted = po.deleted
    BY DEF TypeOK, Row
  <2>5. Successor(po, row)
    BY <2>1, <2>2, <2>3, <2>4 DEF Successor
  <2>6. event.from = po.status /\ event.to \in Allowed[po.status]
    BY <2>3
  <2>. HIDE DEF row, event
  <2>. QED
    BY <2>1, <2>2, <2>5, <2>6, FirstWriteIsStep
<1>4. ASSUME NEW r \in Requests, SetDeleted(r)
      PROVE  AtomicInv'
  <2>. DEFINE row == [po EXCEPT !.deleted = (req[r].op = "SOFT_DELETE"), !.version = @ + 1]
  <2>1. /\ Write(r, row, lines, NoEvent, "applied") /\ req[r].pc = "loaded"
        /\ req[r].op \in {"SOFT_DELETE", "RESTORE"} /\ po.version = req[r].expected
        /\ po.deleted = (req[r].op = "RESTORE")
    BY <1>4 DEF SetDeleted, Matches
  <2>2. po.version > 0
    BY <2>1 DEF LinesInv, WritesHaveLines
  <2>3. /\ row.version = po.version + 1 /\ row.status = po.status
        /\ row.deleted = (req[r].op = "SOFT_DELETE")
    BY DEF TypeOK, Row
  <2>4. Successor(po, row)
    BY <2>1, <2>2, <2>3 DEF Successor
  <2>. HIDE DEF row
  <2>. QED
    BY <2>1, <2>2, <2>4, FirstWriteIsStep
<1>5. ASSUME NEW r \in Requests,
             SelectRow(r) \/ SelectLines(r) \/ FlushHeader(r) \/ FlushLines(r)
      PROVE  FALSE
  <2>1. req[r].op = "UPDATE"
    BY <1>5 DEF SelectRow, SelectLines, FlushHeader, FlushLines, LinesInv, WritesHaveLines
  <2>. QED
    BY <2>1 DEF AtomicInv
<1>6. ASSUME NEW r \in Requests, WriteTimeline(r) \/ WriteAudit(r)
      PROVE  AtomicInv'
  <2>1. /\ tx'.po = tx.po /\ tx'.event = tx.event
        /\ UNCHANGED <<po, history, lock, published>>
    BY <1>6 DEF WriteTimeline, WriteAudit, TypeOK, WriteSet
  <2>2. PICK pc \in {"traced", "audited"} : req' = [req EXCEPT ![r].pc = pc]
    BY <1>6 DEF WriteTimeline, WriteAudit
  <2>3. /\ req'[r].pc = pc
        /\ \A q \in Requests : q # r => req'[q] = req[q]
        /\ \A q \in Requests : req'[q].op = req[q].op /\ req'[q].expected = req[q].expected
    BY <2>2, StageMoves DEF Stages
  <2>4. ChecksAreFresh'
    BY <2>1, <2>2, <2>3 DEF AtomicInv, ChecksAreFresh
  <2>5. WritesAreSteps'
    BY <2>1, <2>3 DEF AtomicInv, WritesAreSteps
  <2>6. HistoryIsWorkflowPath'
    BY <2>1 DEF AtomicInv, HistoryIsWorkflowPath
  <2>. QED
    BY <2>1, <2>3, <2>4, <2>5, <2>6 DEF AtomicInv
<1>7. ASSUME NEW r \in Requests, Commit(r)
      PROVE  AtomicInv'
  <2>1. lock = r /\ lock # Nobody /\ req[r].pc = "audited"
    BY <1>7, RequestsAssumption DEF Commit, LockInv, Writing
  <2>2. Successor(po, tx.po)
    BY <2>1 DEF AtomicInv, WritesAreSteps
  <2>3. po' = tx.po /\ po \in Row /\ tx.po \in Row /\ lock' = Nobody
    BY <1>7 DEF Commit, TypeOK, WriteSet
  <2>4. po'.version = po.version + 1 /\ po.version \in Nat
    BY <2>2, <2>3, SuccessorGrows DEF Row
  <2>5. published' = po'.version
    BY <1>7, <2>3, <2>4 DEF Commit, AtomicInv
  <2>6. /\ req'[r].pc = "idle" /\ req'[r].op = "NONE"
        /\ \A q \in Requests : q # r => req'[q] = req[q]
    BY <1>7, FinishEmpties DEF Commit
  <2>7. \A q \in Requests : req[q].expected \in Nat
    BY DEF TypeOK, Handler
  <2>8. ChecksAreFresh'
    BY <2>4, <2>6, <2>7 DEF AtomicInv, ChecksAreFresh
  <2>9. WritesAreSteps'
    BY <2>3, RequestsAssumption DEF WritesAreSteps
  <2>10. HistoryIsWorkflowPath' /\ history' # <<>>
    <3>1. CASE tx.event = NoEvent
      <4>1. history' = history /\ po.version > 0
        BY <1>7, <2>1, <3>1, WorkflowIsTyped
        DEF Commit, AtomicInv, WritesAreSteps, NoEvent, InitialStatuses
      <4>. QED
        BY <4>1, <2>4 DEF AtomicInv, HistoryIsWorkflowPath
    <3>2. CASE tx.event # NoEvent
      <4>1. /\ history' = Append(history, tx.event) /\ history \in Seq(StatusEvent)
            /\ tx.event \in StatusEvent
        BY <1>7, <3>2 DEF Commit, TypeOK, WriteSet
      <4>2. history = <<>> => tx.event.from = "NONE" /\ tx.event.to \in InitialStatuses
        BY <2>1, <2>4, <3>2 DEF AtomicInv, WritesAreSteps
      <4>3. history # <<>> =>
               tx.event.from = Last(history).to /\ tx.event.to \in Allowed[tx.event.from]
        BY <2>1, <2>4, <3>2 DEF AtomicInv, WritesAreSteps, StatusInv, StatusIsLastEvent
      <4>4. WorkflowPath(history')
        BY <4>1, <4>2, <4>3, PathExtends DEF AtomicInv, HistoryIsWorkflowPath
      <4>5. history' # <<>>
        BY <4>1
      <4>. QED
        BY <4>4, <4>5 DEF HistoryIsWorkflowPath
    <3>. QED
      BY <3>1, <3>2
  <2>11. po'.version # 0
    BY <2>4
  <2>12. \A q \in Requests : req'[q].op # "UPDATE"
    BY <2>6 DEF AtomicInv
  <2>. QED
    BY <2>5, <2>8, <2>9, <2>10, <2>11, <2>12 DEF AtomicInv
<1>8. ASSUME NEW r \in Requests, VersionConflict(r) \/ Undo(r)
      PROVE  AtomicInv'
  <2>1. /\ req'[r].pc = "idle" /\ req'[r].op = "NONE"
        /\ \A q \in Requests : q # r => req'[q] = req[q]
    BY <1>8, FinishEmpties DEF VersionConflict, Undo
  <2>2. UNCHANGED <<po, history, published>>
    BY <1>8 DEF VersionConflict, Undo
  <2>3. UNCHANGED <<lock, tx>> \/ lock' = Nobody
    BY <1>8 DEF VersionConflict, Undo
  <2>4. lock = r => lock' = Nobody
    BY <1>8, RequestsAssumption DEF VersionConflict, Undo, LockInv, Writing
  <2>5. ChecksAreFresh'
    BY <2>1, <2>2 DEF AtomicInv, ChecksAreFresh
  <2>6. WritesAreSteps'
    BY <2>1, <2>2, <2>3, <2>4, RequestsAssumption DEF AtomicInv, WritesAreSteps
  <2>7. HistoryIsWorkflowPath'
    BY <2>2 DEF AtomicInv, HistoryIsWorkflowPath
  <2>. QED
    BY <2>1, <2>2, <2>5, <2>6, <2>7 DEF AtomicInv
<1>9. CASE UNCHANGED vars
  BY <1>9 DEF vars, AtomicInv, ChecksAreFresh, WritesAreSteps, HistoryIsWorkflowPath
<1>. QED
  <2>1. \A r \in Requests, target \in Statuses : CallChangeStatus(r, target) => AtomicInv'
    BY <1>2, CallsLoad DEF AllOps
  <2>2. \A r \in Requests : CallSoftDelete(r) \/ CallRestore(r) => AtomicInv'
    BY <1>2, CallsLoad DEF AllOps
  <2>3. \A r \in Requests, payload \in Payloads : CallUpdate(r, payload) => AtomicInv'
    BY <1>2, CallsLoad DEF AllOps
  <2>4. \A r \in Requests : LineConflict(r) \/ Fail(r) => AtomicInv'
    BY <1>8 DEF LineConflict, Fail
  <2>. QED
    BY <1>1, <1>3, <1>4, <1>5, <1>6, <1>7, <1>8, <1>9, <2>1, <2>2, <2>3, <2>4 DEF Next

\* The whole inductive invariant of the atomic operations.
FullInv == LockedInv /\ StatusInv /\ LinesInv /\ AtomicInv

\* All the invariants together hold at first.
LEMMA FullInit == Init => FullInv
BY LockedInit, StatusInit, LinesInit, AtomicInit DEF FullInv

\* All the invariants together are kept.
LEMMA FullStep == ASSUME AtomicOps PROVE FullInv /\ [Next]_vars => FullInv'
BY AtomicOps, LockedStep, StatusStep, LinesStep, AtomicStep DEF FullInv

\* Nothing but a commit changes the row, and it replaces the row by its successor.
LEMMA RowChanges ==
    ASSUME FullInv, [Next]_vars, po' # po
    PROVE  \E r \in Requests : Commit(r) /\ lock = r /\ Successor(po, po')
<1>1. PICK r \in Requests : Commit(r) /\ lock = r
  BY CommitsChange DEF FullInv, LockedInv
<1>2. Successor(po, po')
  BY <1>1 DEF Commit, FullInv, AtomicInv, WritesAreSteps
<1>. QED
  BY <1>1, <1>2

\* The history of a PO is a path of the workflow: the transition rule, checked on a row
\* read before the statement that changes the status, holds of the status it replaces.
THEOREM WorkflowIsFollowed == ASSUME AtomicOps PROVE Spec => []HistoryIsWorkflowPath
<1>1. FullInv => HistoryIsWorkflowPath
  BY DEF FullInv, AtomicInv
<1>. QED
  BY <1>1, FullInit, FullStep, PTL DEF Spec

\* A committed mutation replaces the version its client named.
THEOREM NothingIsOverwritten == ASSUME AtomicOps PROVE Spec => NoOverwrite
<1>1. FullInv /\ [Next]_vars =>
         [Exists /\ po' # po => \E r \in Requests : lock = r /\ po.version = req[r].expected]_po
  BY RowChanges DEF FullInv, AtomicInv, WritesAreSteps, Exists
<1>. QED
  BY <1>1, FullInit, FullStep, PTL DEF Spec, NoOverwrite

\* A converted, rejected or cancelled PO keeps its status.
THEOREM TerminalStatusIsFinal == ASSUME AtomicOps PROVE Spec => TerminalIsFinal
<1>1. FullInv /\ [Next]_vars => [po.status \in Terminal => po'.status = po.status]_po
  <2>. SUFFICES ASSUME FullInv, [Next]_vars, po' # po, po.status \in Terminal
                PROVE  po'.status = po.status
    OBVIOUS
  <2>1. Successor(po, po')
    BY RowChanges
  <2>2. po.version # 0
    BY WorkflowIsTyped DEF FullInv, AtomicInv, NoRow, Terminal
  <2>3. Allowed[po.status] = {}
    BY DEF Terminal
  <2>. QED
    BY <2>1, <2>2, <2>3 DEF Successor
<1>. QED
  BY <1>1, FullInit, FullStep, PTL DEF Spec, TerminalIsFinal

\* The PO implements the optimistically locked record.
THEOREM ImplementsVersionedRecord == ASSUME AtomicOps PROVE Spec => RefinesVersionedRecord
<1>1. Init => Record!Init
  BY DEF Init, Record!Init, NoRow
<1>2. FullInv /\ [Next]_vars => [Record!Next]_(Record!vars)
  <2>. SUFFICES ASSUME FullInv, [Next]_vars, po' # po
                PROVE  Record!Next
    BY DEF Record!vars
  <2>1. Successor(po, po')
    BY RowChanges
  <2>2. po.deleted \in BOOLEAN /\ po'.deleted \in BOOLEAN
    <3>1. po' \in Row /\ po \in Row
      BY RowChanges DEF FullInv, LockedInv, TypeOK, Commit, WriteSet
    <3>. QED
      BY <3>1 DEF Row
  <2>. QED
    BY <2>1, <2>2 DEF Successor, Record!Next, Record!Create, Record!Edit, Record!Move,
                      Record!SoftDelete, Record!Restore, Record!Bump
<1>. QED
  BY <1>1, <1>2, FullInit, FullStep, PTL DEF Spec, RefinesVersionedRecord, Record!Spec

-----------------------------------------------------------------------------
\* The traces: the audit trail and the times of the history.

Later(at) == \A i \in 1..Len(history) : history[i].at < at

\* A handler that has read the row and not written it: if the version it was sent is
\* still the row's, it has the image of the row, and was called after every status
\* change that is committed.
ReadsAreCurrent ==
    \A r \in Requests :
        req[r].pc = "loaded" =>
            /\ req[r].at <= issued
            /\ req[r].expected = po.version => req[r].before = Image(po) /\ Later(req[r].at)

\* The open transaction tells its change from the committed row to the one it has written.
WritesAreTold ==
    \A r \in Requests :
        lock = r =>
            /\ req[r].before = Image(po)
            /\ tx.event # NoEvent => tx.event.at <= issued /\ Later(tx.event.at)
            /\ req[r].pc = "audited" =>
                  tx.audit.before = Image(po) /\ tx.audit.after = Image(tx.po)

TraceInv ==
    /\ \A i \in 1..Len(history) : history[i].at <= issued
    /\ ReadsAreCurrent
    /\ WritesAreTold
    /\ HistoryInTimeOrder
    /\ AuditIsChain

\* The invariant holds before the first step.
LEMMA TraceInit == Init => TraceInv
<1>. SUFFICES ASSUME Init PROVE TraceInv
  OBVIOUS
<1>1. \A r \in Requests : req[r].pc = "idle" /\ lock # r
  BY RequestsAssumption DEF Init, Idle
<1>2. history = <<>> /\ audit = <<>> /\ Len(history) = 0 /\ Len(audit) = 0
  BY DEF Init
<1>. QED
  BY <1>1, <1>2 DEF TraceInv, ReadsAreCurrent, WritesAreTold, HistoryInTimeOrder, AuditIsChain

\* A handler that goes on keeps what it has read.
LEMMA StageKeeps ==
    ASSUME TypeOK, NEW r \in Requests, NEW pc \in Stages, req' = [req EXCEPT ![r].pc = pc]
    PROVE  \A q \in Requests : req'[q].before = req[q].before /\ req'[q].at = req[q].at
BY DEF TypeOK, Handler

\* The first write of a handler that passed the condition of its statement.
LEMMA FirstWriteIsTold ==
    ASSUME LockedInv, TraceInv, NEW r \in Requests, NEW row, NEW rows, NEW event,
           Write(r, row, rows, event, "applied"), req[r].pc = "loaded",
           po.version = req[r].expected, event = NoEvent \/ event.at = req[r].at
    PROVE  TraceInv'
<1>1. /\ tx'.event = event /\ lock' = r /\ UNCHANGED <<po, history, audit, issued>>
  BY WriteFills DEF LockedInv, Write
<1>2. req' = [req EXCEPT ![r].pc = "applied"] /\ TypeOK /\ "applied" \in Stages
  BY DEF Write, LockedInv, Stages
<1>3. /\ req'[r].pc = "applied"
      /\ \A q \in Requests : q # r => req'[q] = req[q]
      /\ \A q \in Requests : req'[q].before = req[q].before /\ req'[q].at = req[q].at
  BY <1>2, StageMoves, StageKeeps
<1>4. ReadsAreCurrent'
  BY <1>1, <1>3 DEF TraceInv, ReadsAreCurrent, Later
<1>5. WritesAreTold'
  <2>1. req[r].before = Image(po) /\ Later(req[r].at) /\ req[r].at <= issued
    BY DEF TraceInv, ReadsAreCurrent
  <2>. QED
    BY <1>1, <1>3, <2>1 DEF WritesAreTold, Later
<1>. QED
  BY <1>1, <1>4, <1>5 DEF TraceInv, HistoryInTimeOrder, AuditIsChain

\* The events of a history carry the time of the call they answer.
LEMMA EventsAreTimed ==
    ASSUME NEW h \in Seq(StatusEvent)
    PROVE  \A i \in 1..Len(h) : h[i] \in StatusEvent /\ h[i].at \in Nat
<1>1. \A i \in 1..Len(h) : h[i] \in StatusEvent
  OBVIOUS
<1>2. \A e \in StatusEvent : e.at \in Nat
  BY DEF StatusEvent
<1>. QED
  BY <1>1, <1>2

\* The history goes on with a later event.
LEMMA HistoryGrows ==
    ASSUME TypeOK, HistoryInTimeOrder, NEW e \in StatusEvent, Later(e.at),
           history' = Append(history, e)
    PROVE  /\ HistoryInTimeOrder'
           /\ \A i \in 1..Len(history') : history'[i].at <= e.at
<1>1. /\ Len(history') = Len(history) + 1 /\ Len(history) \in Nat
      /\ history'[Len(history) + 1] = e
      /\ \A i \in 1..Len(history) : history'[i] = history[i] /\ history[i].at \in Nat
  <2>1. history \in Seq(StatusEvent)
    BY DEF TypeOK
  <2>2. \A i \in 1..Len(history) : history[i].at \in Nat
    BY <2>1, EventsAreTimed
  <2>. QED
    BY <2>1, <2>2
<1>2. e.at \in Nat
  BY DEF StatusEvent
<1>3. ASSUME NEW i \in 1..Len(history'), NEW j \in 1..Len(history'), i < j
      PROVE  history'[i].at < history'[j].at
  <2>1. i \in 1..Len(history)
    BY <1>1, <1>3
  <2>2. CASE j \in 1..Len(history)
    BY <1>1, <1>3, <2>1, <2>2 DEF HistoryInTimeOrder
  <2>3. CASE j = Len(history) + 1
    BY <1>1, <2>1, <2>3 DEF Later
  <2>. QED
    BY <1>1, <2>2, <2>3
<1>4. ASSUME NEW i \in 1..Len(history')
      PROVE  history'[i].at <= e.at
  <2>1. CASE i \in 1..Len(history)
    BY <1>1, <1>2, <2>1 DEF Later
  <2>2. CASE i = Len(history) + 1
    BY <1>1, <1>2, <2>2
  <2>. QED
    BY <1>1, <2>1, <2>2
<1>. QED
  BY <1>3, <1>4 DEF HistoryInTimeOrder

\* The trail goes on with an entry that starts where it ended.
LEMMA TrailGrows ==
    ASSUME TypeOK, AuditIsChain, NEW a \in AuditEvent, a.before = Image(po),
           a.after = Image(po)', audit' = Append(audit, a)
    PROVE  AuditIsChain'
<1>1. /\ Len(audit') = Len(audit) + 1 /\ Len(audit) \in Nat /\ audit'[Len(audit) + 1] = a
      /\ \A i \in 1..Len(audit) : audit'[i] = audit[i]
      /\ audit # <<>> <=> Len(audit) > 0
  BY DEF TypeOK
<1>2. ASSUME NEW i \in 2..Len(audit')
      PROVE  audit'[i].before = audit'[i - 1].after
  <2>1. i - 1 \in 1..Len(audit)
    BY <1>1
  <2>2. CASE i \in 2..Len(audit)
    BY <1>1, <2>1, <2>2 DEF AuditIsChain
  <2>3. CASE i = Len(audit) + 1
    BY <1>1, <2>1, <2>3 DEF AuditIsChain, Last
  <2>. QED
    BY <1>1, <2>2, <2>3
<1>3. Last(audit').after = Image(po)'
  BY <1>1 DEF Last
<1>. QED
  BY <1>2, <1>3 DEF AuditIsChain

\* Without update every step of every handler keeps it.
LEMMA TraceStep ==
    ASSUME AtomicOps, FullInv, TraceInv, [Next]_vars
    PROVE  TraceInv'
<1>. USE DEF FullInv, LockedInv
<1>1. ASSUME NEW r \in Requests, NEW source \in Sources, NEW payload \in Payloads,
             Create(r, source, payload)
      PROVE  TraceInv'
  <2>1. po = NoRow /\ history = <<>>
    BY <1>1 DEF Create, Exists, TypeOK, Row, AtomicInv
  <2>2. /\ tx'.event.at = issued + 1 /\ issued' = issued + 1 /\ issued \in Nat
        /\ lock' = r /\ UNCHANGED <<po, history, audit>>
    BY <1>1 DEF Create, NoTx, TypeOK
  <2>3. /\ req'[r].before = Image(NoRow) /\ req'[r].pc = "applied"
        /\ \A q \in Requests : q # r => req'[q] = req[q]
    BY <1>1 DEF Create, TypeOK, Idle
  <2>4. \A q \in Requests : req[q].at \in Nat
    BY DEF TypeOK, Handler
  <2>5. ReadsAreCurrent'
    BY <2>2, <2>3, <2>4 DEF TraceInv, ReadsAreCurrent, Later
  <2>6. WritesAreTold'
    BY <2>1, <2>2, <2>3 DEF WritesAreTold, Later
  <2>7. HistoryInTimeOrder' /\ AuditIsChain' /\ \A i \in 1..Len(history') : history'[i].at <= issued'
    BY <2>1, <2>2 DEF TraceInv, HistoryInTimeOrder, AuditIsChain
  <2>. QED
    BY <2>5, <2>6, <2>7 DEF TraceInv
<1>2. ASSUME NEW r \in Requests, NEW op, NEW target, NEW payload,
             Load(r, op, target, payload)
      PROVE  TraceInv'
  <2>1. /\ req'[r].before = Image(po) /\ req'[r].pc = "loaded"
        /\ \A q \in Requests : q # r => req'[q] = req[q]
        /\ UNCHANGED <<po, lock, tx, history>>
    BY <1>2, LoadFills
  <2>2. req'[r].at = issued + 1
    BY <1>2 DEF Load, TypeOK, Idle
  <2>3. UNCHANGED audit /\ issued' = issued + 1 /\ issued \in Nat
    BY <1>2 DEF Load, TypeOK
  <2>4. lock # r
    BY <1>2 DEF Load, LockInv, Writing
  <2>5. /\ \A q \in Requests : req[q].at \in Nat
        /\ \A i \in 1..Len(history) : history[i].at \in Nat
        /\ tx.event.at \in Nat
    <3>1. \A q \in Requests : req[q].at \in Nat
      BY DEF TypeOK, Handler
    <3>2. history \in Seq(StatusEvent) /\ tx.event \in StatusEvent
      BY DEF TypeOK, WriteSet
    <3>3. tx.event.at \in Nat
      BY <3>2 DEF StatusEvent
    <3>. QED
      BY <3>1, <3>2, <3>3, EventsAreTimed
  <2>6. \A i \in 1..Len(history) : history[i].at <= issued' /\ history[i].at < issued + 1
    BY <2>3, <2>5 DEF TraceInv
  <2>7. ReadsAreCurrent'
    BY <2>1, <2>2, <2>3, <2>5, <2>6 DEF TraceInv, ReadsAreCurrent, Later
  <2>8. WritesAreTold'
    BY <2>1, <2>3, <2>4, <2>5 DEF TraceInv, WritesAreTold, Later
  <2>. QED
    BY <2>1, <2>3, <2>6, <2>7, <2>8 DEF TraceInv, HistoryInTimeOrder, AuditIsChain
<1>3. ASSUME NEW r \in Requests, ChangeStatus(r) \/ SetDeleted(r)
      PROVE  TraceInv'
  <2>1. CASE ChangeStatus(r)
    <3>. DEFINE event == [from |-> req[r].before.status, to |-> req[r].target,
                          at |-> req[r].at]
    <3>1. PICK row : Write(r, row, lines, event, "applied")
      BY <2>1 DEF ChangeStatus
    <3>2. req[r].pc = "loaded" /\ po.version = req[r].expected /\ event.at = req[r].at
      BY <2>1 DEF ChangeStatus, Matches
    <3>. HIDE DEF event
    <3>. QED
      BY <3>1, <3>2, FirstWriteIsTold
  <2>2. CASE SetDeleted(r)
    <3>1. PICK row : Write(r, row, lines, NoEvent, "applied")
      BY <2>2 DEF SetDeleted
    <3>2. req[r].pc = "loaded" /\ po.version = req[r].expected
      BY <2>2 DEF SetDeleted, Matches
    <3>. QED
      BY <3>1, <3>2, FirstWriteIsTold
  <2>. QED
    BY <1>3, <2>1, <2>2
<1>4. ASSUME NEW r \in Requests,
             SelectRow(r) \/ SelectLines(r) \/ FlushHeader(r) \/ FlushLines(r)
      PROVE  FALSE
  <2>1. req[r].op = "UPDATE"
    BY <1>4 DEF SelectRow, SelectLines, FlushHeader, FlushLines, LinesInv, WritesHaveLines
  <2>. QED
    BY <2>1 DEF AtomicInv
<1>5. ASSUME NEW r \in Requests, WriteTimeline(r) \/ WriteAudit(r)
      PROVE  TraceInv'
  <2>1. /\ tx'.po = tx.po /\ tx'.event = tx.event
        /\ UNCHANGED <<po, history, audit, lock, issued>>
    BY <1>5 DEF WriteTimeline, WriteAudit, TypeOK, WriteSet
  <2>2. PICK pc \in {"traced", "audited"} : req' = [req EXCEPT ![r].pc = pc]
    BY <1>5 DEF WriteTimeline, WriteAudit
  <2>3. pc = "audited" => WriteAudit(r)
    <3>1. CASE WriteTimeline(r)
      <4>1. req'[r].pc = "traced"
        BY <3>1, StageMoves DEF WriteTimeline, Stages
      <4>. QED
        BY <2>2, <4>1, StageMoves DEF Stages
    <3>. QED
      BY <1>5, <3>1
  <2>4. /\ req'[r].pc = pc
        /\ \A q \in Requests : q # r => req'[q] = req[q]
        /\ \A q \in Requests : req'[q].before = req[q].before /\ req'[q].at = req[q].at
    BY <2>2, StageMoves, StageKeeps DEF Stages
  <2>5. lock = r
    BY <1>5 DEF WriteTimeline, WriteAudit, LockInv, Writing
  <2>6. pc = "audited" => tx'.audit.before = req[r].before /\ tx'.audit.after = Image(tx.po)
    BY <2>3 DEF WriteAudit, Result, AtomicInv, TypeOK, WriteSet
  <2>7. ReadsAreCurrent'
    BY <2>1, <2>2, <2>4 DEF TraceInv, ReadsAreCurrent, Later
  <2>8. WritesAreTold'
    <3>1. Image(po)' = Image(po) /\ Image(tx.po)' = Image(tx.po)
      BY <2>1 DEF Image
    <3>. QED
      BY <2>1, <2>2, <2>4, <2>5, <2>6, <3>1 DEF TraceInv, WritesAreTold, Later
  <2>. QED
    BY <2>1, <2>7, <2>8 DEF TraceInv, HistoryInTimeOrder, AuditIsChain
<1>6. ASSUME NEW r \in Requests, Commit(r)
      PROVE  TraceInv'
  <2>1. lock = r /\ lock # Nobody /\ req[r].pc = "audited"
    BY <1>6, RequestsAssumption DEF Commit, LockInv, Writing
  <2>2. /\ po' = tx.po /\ lock' = Nobody /\ issued' = issued /\ issued \in Nat
        /\ audit' = Append(audit, tx.audit)
        /\ history' = IF tx.event = NoEvent THEN history ELSE Append(history, tx.event)
    BY <1>6 DEF Commit, TypeOK
  <2>3. po'.version = po.version + 1
    BY <2>1, <2>2, SuccessorGrows DEF AtomicInv, WritesAreSteps, TypeOK, WriteSet
  <2>4. /\ req'[r].pc = "idle"
        /\ \A q \in Requests : q # r => req'[q] = req[q]
    BY <1>6, FinishEmpties DEF Commit
  <2>5. po.version \in Nat /\ \A q \in Requests : req[q].expected \in Nat
    BY DEF TypeOK, Handler, Row
  <2>6. ReadsAreCurrent'
    BY <2>2, <2>3, <2>4, <2>5 DEF TraceInv, ReadsAreCurrent, AtomicInv, ChecksAreFresh
  <2>7. WritesAreTold'
    BY <2>2, RequestsAssumption DEF WritesAreTold
  <2>8. AuditIsChain'
    <3>1. tx.audit.before = Image(po) /\ tx.audit.after = Image(tx.po)
      BY <2>1 DEF TraceInv, WritesAreTold
    <3>2. tx.audit \in AuditEvent /\ Image(po)' = Image(tx.po)
      BY <2>2 DEF TypeOK, WriteSet, Image
    <3>. QED
      BY <2>2, <3>1, <3>2, TrailGrows DEF TraceInv
  <2>9. HistoryInTimeOrder' /\ \A i \in 1..Len(history') : history'[i].at <= issued'
    <3>1. CASE tx.event = NoEvent
      BY <2>2, <3>1 DEF TraceInv, HistoryInTimeOrder
    <3>2. CASE tx.event # NoEvent
      <4>1. /\ tx.event \in StatusEvent /\ Later(tx.event.at) /\ tx.event.at <= issued
            /\ history' = Append(history, tx.event)
        BY <2>1, <2>2, <3>2 DEF TraceInv, WritesAreTold, TypeOK, WriteSet
      <4>2. history' \in Seq(StatusEvent)
        BY <4>1 DEF TypeOK
      <4>3. tx.event.at \in Nat /\ \A i \in 1..Len(history') : history'[i].at \in Nat
        <5>1. tx.event.at \in Nat
          BY <4>1 DEF StatusEvent
        <5>. QED
          BY <4>2, <5>1, EventsAreTimed
      <4>. QED
        BY <2>2, <4>1, <4>2, <4>3, HistoryGrows DEF TraceInv
    <3>. QED
      BY <3>1, <3>2
  <2>. QED
    BY <2>6, <2>7, <2>8, <2>9 DEF TraceInv
<1>7. ASSUME NEW r \in Requests, VersionConflict(r) \/ Undo(r)
      PROVE  TraceInv'
  <2>1. /\ req'[r].pc = "idle"
        /\ \A q \in Requests : q # r => req'[q] = req[q]
    BY <1>7, FinishEmpties DEF VersionConflict, Undo
  <2>2. UNCHANGED <<po, history, audit, issued>>
    BY <1>7 DEF VersionConflict, Undo
  <2>3. UNCHANGED <<lock, tx>> \/ lock' = Nobody
    BY <1>7 DEF VersionConflict, Undo
  <2>4. lock = r => lock' = Nobody
    BY <1>7, RequestsAssumption DEF VersionConflict, Undo, LockInv, Writing
  <2>5. ReadsAreCurrent'
    BY <2>1, <2>2 DEF TraceInv, ReadsAreCurrent, Later
  <2>6. WritesAreTold'
    BY <2>1, <2>2, <2>3, <2>4, RequestsAssumption DEF TraceInv, WritesAreTold, Later
  <2>. QED
    BY <2>2, <2>5, <2>6 DEF TraceInv, HistoryInTimeOrder, AuditIsChain
<1>8. CASE UNCHANGED vars
  BY <1>8 DEF vars, TraceInv, ReadsAreCurrent, WritesAreTold, Later, HistoryInTimeOrder,
              AuditIsChain
<1>. QED
  <2>1. \A r \in Requests, target \in Statuses : CallChangeStatus(r, target) => TraceInv'
    BY <1>2, CallsLoad
  <2>2. \A r \in Requests : CallSoftDelete(r) \/ CallRestore(r) => TraceInv'
    BY <1>2, CallsLoad
  <2>3. \A r \in Requests, payload \in Payloads : CallUpdate(r, payload) => TraceInv'
    BY <1>2, CallsLoad
  <2>4. \A r \in Requests : LineConflict(r) \/ Fail(r) => TraceInv'
    BY <1>7 DEF LineConflict, Fail
  <2>. QED
    BY <1>1, <1>3, <1>4, <1>5, <1>6, <1>7, <1>8, <2>1, <2>2, <2>3, <2>4 DEF Next

\* The times of the status events, taken before the row is locked, are in the order in
\* which the events were committed.
THEOREM HistoryIsInOrder == ASSUME AtomicOps PROVE Spec => []HistoryInTimeOrder
<1>1. FullInv /\ TraceInv /\ [Next]_vars => FullInv' /\ TraceInv'
  BY AtomicOps, FullStep, TraceStep
<1>2. TraceInv => HistoryInTimeOrder
  BY DEF TraceInv
<1>. QED
  BY <1>1, <1>2, FullInit, TraceInit, PTL DEF Spec

\* The audit trail is a chain of images that ends in the row.
THEOREM AuditExplainsRow == ASSUME AtomicOps PROVE Spec => []AuditIsChain
<1>1. FullInv /\ TraceInv /\ [Next]_vars => FullInv' /\ TraceInv'
  BY AtomicOps, FullStep, TraceStep
<1>2. TraceInv => AuditIsChain
  BY DEF TraceInv
<1>. QED
  BY <1>1, <1>2, FullInit, TraceInit, PTL DEF Spec
=============================================================================
