--------------------------- MODULE ProductsProofs ---------------------------
(***************************************************************************)
(* What Products guarantees for any codes, users, permissions, files and   *)
(* number of requests and faults.                                          *)
(***************************************************************************)
EXTENDS Products, TLAPS

\* A creation or an import: only its first row finds the tenant bound, so that it has
\* committed one row at most; what it has written has a code that no row has.
Creates(r) ==
    LET h == req[r] IN
    h.pc # "idle" /\ h.op = "CREATE" =>
        /\ h.pc \in {"row", "written"}
        /\ h.done \in {0, 1}
        /\ h.bound = (h.done = 0)
        /\ h.done = 1 => Exists(h.rows[1])
        /\ h.before = NoRow
        /\ h.pc = "written" =>
              /\ h.bound
              /\ ~Exists(Target(r))
              /\ h.row.version = 1 /\ h.row.owner = OwnerOf(h.actor, h.owner)

\* A change of a product: as long as the version is the one that it was read with, so is the
\* row; a transaction that has written the row has kept everyone else from it.
Changes(r) ==
    LET h == req[r] IN
    h.pc # "idle" /\ h.op # "CREATE" =>
        /\ h.pc \in {"loaded", "checked", "written"}
        /\ h.done = 0 /\ Len(h.rows) = 1
        /\ Visible(h.actor, h.op, Target(r), h.before)
        /\ h.op = "UPDATE" => MayName(h.actor, h.owner)
        /\ h.pc # "written" =>
              /\ h.expected <= h.before.version
              /\ h.before.version <= product[Target(r)].version
              /\ h.before.version = product[Target(r)].version => h.before = product[Target(r)]
        /\ h.pc = "written" => product[Target(r)] = h.before /\ h.row = Changed(r)

Serves(r) ==
    /\ req[r].pc # "idle" => req[r].actor \in Actors /\ req[r].done < Len(req[r].rows)
    /\ Creates(r)
    /\ Changes(r)

\* The lock of the row, and of the key.
WritesExclude ==
    \A r, s \in Requests :
        req[r].pc = "written" /\ req[s].pc = "written" /\ Target(r) = Target(s) => r = s

Inv ==
    /\ TypeOK
    /\ WritesExclude
    /\ \A r \in Requests : Serves(r)

-----------------------------------------------------------------------------
\* Types.

\* What a handler holds is typed, and its target is a code.
LEMMA RowsHold ==
    ASSUME TypeOK, NEW r \in Requests
    PROVE  /\ req[r] \in Handler /\ req[r].rows \in Seq(Codes) /\ req[r].done \in Nat
           /\ req[r].row \in Row /\ req[r].before \in Row /\ req[r].expected \in Nat
           /\ req[r].done < Len(req[r].rows) => Target(r) \in Codes
<1>1. /\ req[r] \in Handler /\ req[r].rows \in Seq(Codes) /\ req[r].done \in Nat
      /\ req[r].row \in Row /\ req[r].before \in Row /\ req[r].expected \in Nat
  BY DEF TypeOK, Handler
<1>2. ASSUME req[r].done < Len(req[r].rows) PROVE Target(r) \in Codes
  <2>1. req[r].done + 1 \in 1..Len(req[r].rows)
    BY <1>1, <1>2
  <2> QED
    BY <1>1, <2>1 DEF Target
<1> QED
  BY <1>1, <1>2

\* An idle slot is a handler.
LEMMA IdleIsTyped == Idle \in Handler
<1>1. NoRow \in Row
  BY DEF NoRow, Row
<1>2. <<>> \in Seq(Codes)
  OBVIOUS
<1>3. "idle" \in Stages /\ "CREATE" \in Ops /\ FALSE \in BOOLEAN
  BY DEF Stages, Ops
<1> QED
  BY <1>1, <1>2, <1>3 DEF Idle, Handler

\* A request that fails leaves an idle slot that offers nothing.
LEMMA FailedIsIdle ==
    ASSUME TypeOK, NEW r \in Requests
    PROVE  /\ Failed(r) \in Handler /\ Failed(r).pc = "idle" /\ Failed(r).done = req[r].done
           /\ Failed(r).outcome = "failed" /\ Failed(r).offer = {}
<1>1. Idle \in Handler /\ Idle.pc = "idle" /\ Idle.offer = {} /\ req[r].done \in Nat
  BY IdleIsTyped, RowsHold DEF Idle
<1> HIDE DEF Idle
<1> QED
  BY <1>1 DEF Failed, Handler

\* What an UPDATE makes of a row is a row, one version later.
LEMMA ChangedIsRow ==
    ASSUME Inv, NEW r \in Requests, req[r].pc # "idle"
    PROVE  Changed(r) \in Row /\ Changed(r).version = product[Target(r)].version + 1
<1>1. /\ Target(r) \in Codes /\ req[r].actor \in Actors /\ req[r].owner \in Users \cup {None}
      /\ product[Target(r)] \in Row
  BY RowsHold DEF Inv, Serves, TypeOK, Handler
<1>2. UserOf[req[r].actor] \in Users
  BY <1>1, ActorsAssumption
<1>3. OwnerOf(req[r].actor, req[r].owner) \in Users
  BY <1>1, <1>2 DEF OwnerOf
<1>4. product[Target(r)].version + 1 \in Nat
  BY <1>1 DEF Row
<1> QED
  BY <1>1, <1>2, <1>3, <1>4 DEF Changed, Row

-----------------------------------------------------------------------------
\* The shape of a step.

\* A step is of one request; it writes no product, or the one that its request has written.
Persists(r) ==
    /\ req[r].pc = "written"
    /\ product' = [product EXCEPT ![Target(r)] = req[r].row]

Steps(r) ==
    /\ \A s \in Requests \ {r} : req'[s] = req[s]
    /\ product' = product \/ Persists(r)

\* A commit counts the version of its product.
LEMMA VersionsGrow ==
    ASSUME Inv, NEW r \in Requests, Steps(r), NEW c \in Codes
    PROVE  /\ product' \in [Codes -> Row]
           /\ \/ product'[c] = product[c]
              \/ /\ product'[c].version > product[c].version
                 /\ Persists(r) /\ c = Target(r) /\ product'[c] = req[r].row
<1>1. product \in [Codes -> Row]
  BY DEF Inv, TypeOK
<1>2. CASE product' = product
  BY <1>1, <1>2
<1>3. CASE Persists(r)
  <2>1. Target(r) \in Codes /\ req[r].row \in Row /\ product[Target(r)] \in Row
    BY <1>1, <1>3, RowsHold DEF Inv, Serves, Persists
  <2>2. req[r].row.version > product[Target(r)].version
    <3>1. CASE req[r].op = "CREATE"
      <4>1. ~Exists(Target(r)) /\ req[r].row.version = 1
        BY <1>3, <3>1 DEF Inv, Serves, Creates, Persists
      <4> QED
        BY <2>1, <4>1 DEF Exists, Row
    <3>2. CASE req[r].op # "CREATE"
      <4>1. req[r].row = Changed(r)
        BY <1>3, <3>2 DEF Inv, Serves, Changes, Persists
      <4>2. req[r].row.version = product[Target(r)].version + 1
        BY <1>3, <4>1, ChangedIsRow DEF Persists
      <4> QED
        BY <2>1, <4>2 DEF Row
    <3> QED
      BY <3>1, <3>2
  <2> QED
    BY <1>1, <1>3, <2>1, <2>2 DEF Persists
<1> QED
  BY <1>2, <1>3 DEF Steps

\* A step that serves its own request leaves the others served.
LEMMA OthersServed ==
    ASSUME Inv, NEW r \in Requests, Steps(r), NEW s \in Requests \ {r}
    PROVE  Serves(s)'
<1>1. req'[s] = req[s] /\ Serves(s)
  BY DEF Steps, Inv
<1> SUFFICES ASSUME req[s].pc # "idle" PROVE Serves(s)'
  BY <1>1 DEF Serves, Creates, Changes
<1>2. /\ Target(s) \in Codes /\ Target(s)' = Target(s) /\ req[s].rows[1] \in Codes
      /\ req[s].before \in Row /\ product \in [Codes -> Row]
  <2>1. /\ Target(s) \in Codes /\ req[s].rows \in Seq(Codes) /\ req[s].done \in Nat
        /\ req[s].done < Len(req[s].rows)
        /\ req[s].before \in Row /\ product \in [Codes -> Row]
    BY <1>1, RowsHold DEF Inv, Serves, TypeOK
  <2>2. 1 \in 1..Len(req[s].rows)
    BY <2>1
  <2> QED
    BY <1>1, <2>1, <2>2 DEF Target
<1>3. \A c \in Codes : /\ product'[c] \in Row
                       /\ \/ product'[c] = product[c]
                          \/ product'[c].version > product[c].version
  BY VersionsGrow
<1>4. \A c \in Codes : Exists(c) => Exists(c)'
  BY <1>2, <1>3 DEF Exists, Row
<1>5. req[s].pc = "written" => product'[Target(s)] = product[Target(s)]
  <2> SUFFICES ASSUME req[s].pc = "written", product'[Target(s)] # product[Target(s)]
               PROVE  FALSE
    OBVIOUS
  <2>1. Persists(r) /\ Target(s) = Target(r)
    BY <1>2, VersionsGrow
  <2> QED
    BY <2>1 DEF Inv, WritesExclude, Persists
<1>6. Creates(s)'
  BY <1>1, <1>2, <1>4, <1>5 DEF Serves, Creates, Exists
<1>7. Changes(s)'
  <2>1. req[s].pc = "written" => Changed(s)' = Changed(s)
    BY <1>1, <1>2, <1>5 DEF Changed
  <2>2. /\ req[s].before.version <= product[Target(s)].version
        => \/ product'[Target(s)] = product[Target(s)]
           \/ req[s].before.version < product'[Target(s)].version
    BY <1>2, <1>3 DEF Row
  <2>3. \A n, m \in Nat : n < m => n <= m /\ n # m
    OBVIOUS
  <2>4. req[s].before.version \in Nat /\ product'[Target(s)].version \in Nat
    BY <1>2, <1>3 DEF Row
  <2> QED
    BY <1>1, <1>2, <1>5, <2>1, <2>2, <2>3, <2>4 DEF Serves, Changes, Visible
<1> QED
  BY <1>1, <1>6, <1>7 DEF Serves

\* A step that begins no write, or none where another transaction has written.
LEMMA InvKept ==
    ASSUME Inv, NEW r \in Requests, Steps(r), TypeOK', Serves(r)',
           req'[r].pc = "written" => ~Held(r) /\ Target(r)' = Target(r)
    PROVE  Inv'
<1>1. \A s \in Requests : Serves(s)'
  BY OthersServed
<1>2. WritesExclude'
  <2>1. \A s \in Requests \ {r} : req'[s] = req[s] /\ Target(s)' = Target(s)
    BY DEF Steps, Target
  <2> QED
    BY <2>1 DEF Inv, WritesExclude, Held
<1> QED
  BY <1>1, <1>2 DEF Inv

-----------------------------------------------------------------------------
\* The steps.

\* The invariant holds before the first step.
LEMMA InvInit == Init => Inv
<1> SUFFICES ASSUME Init PROVE Inv
  OBVIOUS
<1>1. NoRow \in Row /\ Idle \in Handler /\ Idle.pc = "idle"
  BY IdleIsTyped DEF NoRow, Row, Idle
<1>2. TypeOK
  BY <1>1, BoundsAssumption DEF Init, TypeOK
<1>3. \A r \in Requests : req[r].pc = "idle"
  BY <1>1 DEF Init
<1> QED
  BY <1>2, <1>3 DEF Inv, WritesExclude, Serves, Creates, Changes

\* A step replaces one handler and leaves the others.
LEMMA HandlerReplaced ==
    ASSUME TypeOK, NEW r \in Requests, NEW handler \in Handler,
           req' = [req EXCEPT ![r] = handler]
    PROVE  /\ req' \in [Requests -> Handler] /\ req'[r] = handler
           /\ \A s \in Requests \ {r} : req'[s] = req[s]
  BY DEF TypeOK

\* The end of a request, whatever it leaves.
LEMMA EndStep ==
    ASSUME Inv, NEW r \in Requests, Steps(r), NEW handler \in Handler, handler.pc = "idle",
           req' = [req EXCEPT ![r] = handler],
           audit' \in [Codes -> Seq(AuditEvent)], issued' \in 0..MaxRequests, faults' \in 0..MaxFaults
    PROVE  Inv'
<1>1. req' \in [Requests -> Handler] /\ req'[r].pc = "idle"
  BY HandlerReplaced DEF Inv
<1>2. product' \in [Codes -> Row]
  <2>1. CASE product' = product
    BY <2>1 DEF Inv, TypeOK
  <2>2. CASE Persists(r)
    <3>1. req[r].row \in Row
      BY RowsHold DEF Inv
    <3> QED
      BY <2>2, <3>1 DEF Inv, TypeOK, Persists
  <2> QED
    BY <2>1, <2>2 DEF Steps
<1>3. TypeOK'
  BY <1>1, <1>2 DEF TypeOK
<1> QED
  BY <1>1, <1>3, InvKept DEF Serves, Creates, Changes

\* The steps by which a request fails before it has written anything.
FailsEarly(r) ==
    \/ RowRefused(r) \/ CodeConflict(r) \/ RowUnbound(r)
    \/ CheckFindsNothing(r) \/ WriteUnseen(r) \/ VersionConflict(r)

\* A fault is counted within the bound.
LEMMA FaultCounts ==
    ASSUME TypeOK, faults < MaxFaults, faults' = faults + 1
    PROVE  faults' \in 0..MaxFaults
  BY BoundsAssumption DEF TypeOK

\* A request that fails before its commit keeps it.
LEMMA FailStep ==
    ASSUME Inv, NEW r \in Requests, FailsEarly(r) \/ Fail(r)
    PROVE  Inv'
<1>1. /\ req' = [req EXCEPT ![r] = Failed(r)] /\ UNCHANGED <<product, audit, issued>>
      /\ faults' = faults \/ (faults < MaxFaults /\ faults' = faults + 1)
  BY DEF FailsEarly, RowRefused, CodeConflict, RowUnbound, CheckFindsNothing, WriteUnseen,
     VersionConflict, Goes, Fail
<1>2. Failed(r) \in Handler /\ Failed(r).pc = "idle" /\ TypeOK
  BY FailedIsIdle DEF Inv
<1>3. Steps(r)
  BY <1>1, <1>2, HandlerReplaced DEF Steps
<1>4. faults' \in 0..MaxFaults
  BY <1>1, <1>2, FaultCounts DEF TypeOK
<1> QED
  BY <1>1, <1>2, <1>3, <1>4, EndStep DEF TypeOK

\* A request begins.
LEMMA BeginStep ==
    ASSUME Inv, NEW r \in Requests, req[r].pc = "idle", issued < MaxRequests,
           NEW handler \in Handler, Begin(r, handler), handler.pc # "written",
           req'[r] = handler => Serves(r)'
    PROVE  Inv'
<1>1. /\ issued' = issued + 1 /\ req' = [req EXCEPT ![r] = handler]
      /\ UNCHANGED <<product, audit, faults>>
  BY DEF Begin
<1>2. /\ req' \in [Requests -> Handler] /\ req'[r] = handler
      /\ \A s \in Requests \ {r} : req'[s] = req[s]
  BY <1>1, HandlerReplaced DEF Inv
<1>3. issued' \in 0..MaxRequests
  BY <1>1, BoundsAssumption DEF Inv, TypeOK
<1>4. TypeOK' /\ Steps(r)
  BY <1>1, <1>2, <1>3 DEF Inv, TypeOK, Steps
<1> QED
  BY <1>2, <1>4, InvKept

\* The call of a creation or an import keeps it.
LEMMA CallCreateStep ==
    ASSUME Inv, NEW r \in Requests, req[r].pc = "idle", issued < MaxRequests,
           NEW actor \in Actors, NEW owner \in Users \cup {None}, NEW file \in Imports,
           CallCreate(r, actor, owner, file)
    PROVE  Inv'
<1> DEFINE handler == [Idle EXCEPT !.pc = "row", !.op = "CREATE", !.actor = actor,
                                   !.owner = owner, !.rows = file, !.bound = TRUE]
<1>1. Begin(r, handler)
  BY DEF CallCreate
<1>2. file \in Seq(Codes) /\ file # <<>>
  BY ImportsAssumption
<1>3. /\ handler \in Handler /\ handler.pc = "row" /\ handler.op = "CREATE"
      /\ handler.actor = actor /\ handler.rows = file /\ handler.bound = TRUE
      /\ handler.done = 0 /\ handler.before = NoRow
  <2>1. "row" \in Stages /\ "CREATE" \in Ops /\ TRUE \in BOOLEAN
    BY DEF Stages, Ops
  <2>2. Idle \in Handler /\ Idle.done = 0 /\ Idle.before = NoRow
    BY IdleIsTyped DEF Idle
  <2> QED
    BY <1>2, <2>1, <2>2 DEF Handler
<1> HIDE DEF handler
<1>4. Len(file) > 0
  BY <1>2
<1>5. ASSUME req'[r] = handler PROVE Serves(r)'
  <2>1. /\ req'[r].pc = "row" /\ req'[r].op = "CREATE" /\ req'[r].actor = actor
        /\ req'[r].rows = file /\ req'[r].bound = TRUE /\ req'[r].done = 0
        /\ req'[r].before = NoRow
    BY <1>3, <1>5
  <2>2. req'[r].bound = (req'[r].done = 0)
    BY <2>1
  <2>3. Creates(r)'
    BY <2>1, <2>2 DEF Creates
  <2>4. Changes(r)'
    BY <2>1 DEF Changes
  <2> QED
    BY <1>4, <2>1, <2>3, <2>4 DEF Serves
<1> QED
  BY <1>1, <1>3, <1>5, BeginStep

\* The call of a mutation, with its first read, keeps it.
LEMMA LoadStep ==
    ASSUME Inv, NEW r \in Requests, req[r].pc = "idle", issued < MaxRequests,
           NEW op \in Ops \ {"CREATE"}, NEW actor \in Actors, NEW owner \in Users \cup {None},
           NEW c \in Codes, Load(r, op, actor, owner, c), op = "UPDATE" => MayName(actor, owner)
    PROVE  Inv'
<1>1. PICK v \in 1..product[c].version :
         Begin(r, [Idle EXCEPT !.pc = "loaded", !.op = op, !.actor = actor, !.owner = owner,
                               !.rows = <<c>>, !.bound = TRUE, !.before = product[c],
                               !.expected = v])
  BY DEF Load
<1> DEFINE handler == [Idle EXCEPT !.pc = "loaded", !.op = op, !.actor = actor,
                                   !.owner = owner, !.rows = <<c>>, !.bound = TRUE,
                                   !.before = product[c], !.expected = v]
<1>2. Begin(r, handler)
  BY <1>1
<1>3. product[c] \in Row /\ product[c].version \in Nat
  BY DEF Inv, TypeOK, Row
<1>4. v \in Nat /\ v <= product[c].version
  BY <1>3
<1>5. <<c>> \in Seq(Codes) /\ Len(<<c>>) = 1 /\ <<c>>[0 + 1] = c
  OBVIOUS
<1>6. /\ handler \in Handler /\ handler.pc = "loaded" /\ handler.op = op
      /\ handler.actor = actor /\ handler.owner = owner /\ handler.rows = <<c>>
      /\ handler.done = 0 /\ handler.before = product[c] /\ handler.expected = v
  <2>1. "loaded" \in Stages /\ op \in Ops /\ TRUE \in BOOLEAN
    BY DEF Stages
  <2>2. Idle \in Handler /\ Idle.done = 0
    BY IdleIsTyped DEF Idle
  <2> QED
    BY <1>3, <1>4, <1>5, <2>1, <2>2 DEF Handler
<1> HIDE DEF handler
<1>7. ASSUME req'[r] = handler PROVE Serves(r)'
  <2>1. Target(r)' = c
    BY <1>5, <1>6, <1>7 DEF Target
  <2>2. Visible(actor, op, c, product[c])
    BY DEF Load
  <2>3. product' = product
    BY <1>2 DEF Begin
  <2> QED
    <3>1. /\ req'[r].pc = "loaded" /\ req'[r].op = op /\ req'[r].actor = actor
          /\ req'[r].owner = owner /\ Len(req'[r].rows) = 1 /\ req'[r].done = 0
          /\ req'[r].before = product[c] /\ req'[r].expected = v
      BY <1>5, <1>6, <1>7
    <3>2. Creates(r)'
      BY <3>1 DEF Creates
    <3>3. Changes(r)'
      BY <1>3, <1>4, <2>1, <2>2, <2>3, <3>1 DEF Changes, Visible
    <3> QED
      BY <3>1, <3>2, <3>3 DEF Serves
<1> QED
  BY <1>2, <1>6, <1>7, BeginStep

\* The INSERT of a row keeps it.
LEMMA InsertStep ==
    ASSUME Inv, NEW r \in Requests, InsertRow(r)
    PROVE  Inv'
<1> DEFINE h == req[r]
           owner == OwnerOf(h.actor, h.owner)
           row == [version |-> 1, owner |-> owner, updated_by |-> UserOf[h.actor], deleted |-> 0]
           handler == [h EXCEPT !.pc = "written", !.row = row]
<1>1. /\ h.pc = "row" /\ h.bound /\ ~Held(r) /\ ~Exists(Target(r))
      /\ req' = [req EXCEPT ![r] = handler] /\ UNCHANGED <<product, audit, issued, faults>>
  BY DEF InsertRow, RowPasses, Goes
<1>2. /\ h \in Handler /\ h.actor \in Actors /\ h.owner \in Users \cup {None} /\ h.op = "CREATE"
      /\ h.done < Len(h.rows) /\ Creates(r)
  BY <1>1 DEF Inv, TypeOK, Handler, Serves, Changes
<1>3. UserOf[h.actor] \in Users
  BY <1>2, ActorsAssumption
<1>4. owner \in Users
  BY <1>2, <1>3 DEF OwnerOf
<1>5. row \in Row /\ row.version = 1 /\ row.owner = owner
  BY <1>3, <1>4 DEF Row
<1> HIDE DEF row
<1>6. /\ handler \in Handler /\ handler.pc = "written" /\ handler.row = row
      /\ handler.op = h.op /\ handler.actor = h.actor /\ handler.owner = h.owner
      /\ handler.rows = h.rows /\ handler.done = h.done /\ handler.bound = h.bound
      /\ handler.before = h.before
  <2>1. "written" \in Stages
    BY DEF Stages
  <2> QED
    BY <1>2, <1>5, <2>1 DEF Handler
<1> HIDE DEF handler
<1>7. /\ req' \in [Requests -> Handler] /\ req'[r] = handler
      /\ \A s \in Requests \ {r} : req'[s] = req[s]
  BY <1>1, <1>6, HandlerReplaced DEF Inv
<1>8. TypeOK' /\ Steps(r)
  BY <1>1, <1>7 DEF Inv, TypeOK, Steps
<1>9. Target(r)' = Target(r)
  BY <1>6, <1>7 DEF Target
<1>10. Creates(r)'
  BY <1>1, <1>2, <1>5, <1>6, <1>7, <1>9 DEF Creates, Exists
<1>11. Serves(r)'
  BY <1>2, <1>6, <1>7, <1>10 DEF Serves, Changes
<1> QED
  BY <1>1, <1>8, <1>9, <1>11, InvKept

\* The second read of a mutation keeps it.
LEMMA CheckStep ==
    ASSUME Inv, NEW r \in Requests, Check(r)
    PROVE  Inv'
<1> DEFINE h == req[r]
           handler == [h EXCEPT !.pc = "checked"]
<1>1. /\ h.pc = "loaded" /\ req' = [req EXCEPT ![r] = handler]
      /\ UNCHANGED <<product, audit, issued, faults>>
  BY DEF Check, Goes
<1>2. h \in Handler /\ h.op # "CREATE" /\ Serves(r)
  BY <1>1 DEF Inv, TypeOK, Serves, Creates
<1>3. /\ handler \in Handler /\ handler.pc = "checked"
      /\ handler.op = h.op /\ handler.actor = h.actor /\ handler.owner = h.owner
      /\ handler.rows = h.rows /\ handler.done = h.done /\ handler.before = h.before
      /\ handler.expected = h.expected
  <2>1. "checked" \in Stages
    BY DEF Stages
  <2> QED
    BY <1>2, <2>1 DEF Handler
<1> HIDE DEF handler
<1>4. /\ req' \in [Requests -> Handler] /\ req'[r] = handler
      /\ \A s \in Requests \ {r} : req'[s] = req[s]
  BY <1>1, <1>3, HandlerReplaced DEF Inv
<1>5. TypeOK' /\ Steps(r)
  BY <1>1, <1>4 DEF Inv, TypeOK, Steps
<1>6. Target(r)' = Target(r)
  BY <1>3, <1>4 DEF Target
<1>7. Serves(r)'
  BY <1>1, <1>2, <1>3, <1>4, <1>6 DEF Serves, Creates, Changes, Visible
<1> QED
  BY <1>3, <1>4, <1>5, <1>7, InvKept

\* An UPDATE that matches finds the row as the use case has read it.
LEMMA WriteStep ==
    ASSUME Inv, NEW r \in Requests, Write(r)
    PROVE  Inv'
<1> DEFINE h == req[r]
           handler == [h EXCEPT !.pc = "written", !.row = Changed(r)]
<1>1. /\ h.pc = "checked" /\ ~Held(r) /\ product[Target(r)].version = h.expected
      /\ req' = [req EXCEPT ![r] = handler] /\ UNCHANGED <<product, audit, issued, faults>>
  BY DEF Write, Goes, Matches
<1>2. h \in Handler /\ h.op # "CREATE" /\ Serves(r)
  BY <1>1 DEF Inv, TypeOK, Serves, Creates
<1>3. Changed(r) \in Row
  BY <1>1, ChangedIsRow
<1>4. /\ handler \in Handler /\ handler.pc = "written" /\ handler.row = Changed(r)
      /\ handler.op = h.op /\ handler.actor = h.actor /\ handler.owner = h.owner
      /\ handler.rows = h.rows /\ handler.done = h.done /\ handler.before = h.before
      /\ handler.expected = h.expected
  <2>1. "written" \in Stages
    BY DEF Stages
  <2> QED
    BY <1>2, <1>3, <2>1 DEF Handler
<1> HIDE DEF handler
<1>5. /\ req' \in [Requests -> Handler] /\ req'[r] = handler
      /\ \A s \in Requests \ {r} : req'[s] = req[s]
  BY <1>1, <1>4, HandlerReplaced DEF Inv
<1>6. TypeOK' /\ Steps(r)
  BY <1>1, <1>5 DEF Inv, TypeOK, Steps
<1>7. Target(r)' = Target(r) /\ Changed(r)' = Changed(r)
  BY <1>1, <1>4, <1>5 DEF Target, Changed
<1>8. h.before = product[Target(r)]
  <2>1. /\ h.expected <= h.before.version /\ h.before.version <= product[Target(r)].version
        /\ h.before.version = product[Target(r)].version => h.before = product[Target(r)]
    BY <1>1, <1>2 DEF Serves, Changes
  <2>2. h.before.version \in Nat /\ h.expected \in Nat
    BY RowsHold DEF Inv, Row
  <2> QED
    BY <1>1, <2>1, <2>2
<1>9. Changes(r)'
  BY <1>1, <1>2, <1>4, <1>5, <1>7, <1>8 DEF Serves, Changes, Visible
<1>10. Serves(r)'
  BY <1>1, <1>2, <1>4, <1>5, <1>9 DEF Serves, Creates
<1> QED
  BY <1>1, <1>6, <1>7, <1>10, InvKept

\* The changes of an event tell the fields in which the row that is written differs from the
\* one that was read.
LEMMA EventTells ==
    ASSUME Inv, NEW r \in Requests, req[r].pc # "idle"
    PROVE  LET event == Event(r)  old == Image(req[r].before)  new == Image(req[r].row) IN
           /\ event \in AuditEvent
           /\ event.op = req[r].op
           /\ \A f \in Fields :
                 /\ f \in DOMAIN event.changes <=> old[f] # new[f]
                 /\ f \in DOMAIN event.changes =>
                       event.changes[f].old = old[f] /\ event.changes[f].new = new[f]
<1> DEFINE old == Image(req[r].before)  new == Image(req[r].row)
           values == Users \cup {None} \cup Nat
           told == {f \in Fields : old[f] # new[f]}
           changes == [f \in told |-> [type |-> ChangeType(old[f], new[f]), sensitive |-> FALSE,
                                       old |-> old[f], new |-> new[f]]]
<1>1. /\ req[r].before \in Row /\ req[r].row \in Row /\ req[r].op \in Ops
      /\ UserOf[req[r].actor] \in Users
  BY RowsHold, ActorsAssumption DEF Inv, Serves, Handler
<1>2. ASSUME NEW row \in Row, NEW f \in Fields
      PROVE  DOMAIN Image(row) = Fields /\ Image(row)[f] \in values
  BY DEF Image, Row, Fields
<1>3. Diff(old, new, {}) = changes
  <2>1. DOMAIN new = Fields
    BY <1>1, <1>2 DEF Image
  <2> HIDE DEF old, new
  <2>2. ASSUME NEW f
        PROVE  Change(old[f], new[f], f \in {})
                 = [type |-> ChangeType(old[f], new[f]), sensitive |-> FALSE,
                    old |-> old[f], new |-> new[f]]
    <3>1. (f \in {}) = FALSE
      OBVIOUS
    <3> QED
      BY <3>1, Zenon DEF Change
  <2>3. {g \in DOMAIN new : old[g] # new[g]} = told
    BY <2>1
  <2> HIDE DEF told
  <2> QED
    BY <2>2, <2>3 DEF Diff
<1>4. changes \in ChangeSets(Fields, values)
  <2>1. \A f \in told : old[f] \in values /\ new[f] \in values
    BY <1>1, <1>2
  <2> HIDE DEF old, new, values
  <2>2. \A f \in told : ChangeType(old[f], new[f]) \in {"ADD", "REMOVE", "UPDATE"}
    BY DEF ChangeType
  <2>3. changes \in [told -> [type : {"ADD", "REMOVE", "UPDATE"}, sensitive : BOOLEAN,
                              old : values, new : values]]
    BY <2>1, <2>2
  <2>4. told \in SUBSET Fields
    OBVIOUS
  <2> HIDE DEF told, changes
  <2> QED
    BY <2>3, <2>4 DEF ChangeSets
<1>5. Event(r) = [op |-> req[r].op, by |-> UserOf[req[r].actor], changes |-> changes]
  BY <1>3 DEF Event
<1>6. \A f \in Fields :
        /\ f \in DOMAIN changes <=> old[f] # new[f]
        /\ f \in DOMAIN changes => changes[f].old = old[f] /\ changes[f].new = new[f]
  <2> HIDE DEF old, new
  <2> QED
    OBVIOUS
<1> HIDE DEF changes, values, old, new
<1>7. Event(r) \in AuditEvent /\ Event(r).op = req[r].op /\ Event(r).changes = changes
  BY <1>1, <1>4, <1>5 DEF AuditEvent, values
<1> QED
  BY <1>6, <1>7 DEF old, new

\* What a commit writes, and the audit event that comes with it.
LEMMA PersistIsTyped ==
    ASSUME Inv, NEW r \in Requests, Persist(r)
    PROVE  /\ Persists(r) /\ audit' \in [Codes -> Seq(AuditEvent)]
           /\ req[r] \in Handler /\ Target(r) \in Codes /\ product \in [Codes -> Row]
           /\ product'[Target(r)] = req[r].row
  BY RowsHold, EventTells DEF Persist, Persists, Inv, TypeOK, Serves

\* An answered request leaves an idle slot with what the answer offered.
LEMMA AnsweredIsIdle ==
    ASSUME TypeOK, NEW r \in Requests
    PROVE  /\ Answered(r) \in Handler /\ Answered(r).pc = "idle" /\ Answered(r).outcome = "ok"
           /\ Answered(r).done = req[r].done + 1
           /\ Answered(r).offer = IF req[r].op \in {"DELETE", "RESTORE"} THEN {}
                                  ELSE Evaluate(req[r].actor, req[r].row, AnswerFacts(r))
<1> DEFINE offer == IF req[r].op \in {"DELETE", "RESTORE"} THEN {}
                    ELSE Evaluate(req[r].actor, req[r].row, AnswerFacts(r))
<1>1. Idle \in Handler /\ Idle.pc = "idle" /\ req[r].done + 1 \in Nat
  BY IdleIsTyped, RowsHold DEF Idle
<1>2. offer \in SUBSET Ops
  BY DEF Evaluate
<1> HIDE DEF offer, Idle
<1>3. Answered(r) = [Idle EXCEPT !.outcome = "ok", !.done = req[r].done + 1, !.offer = offer]
  BY DEF Answered, offer
<1>4. /\ Answered(r) \in Handler /\ Answered(r).pc = "idle" /\ Answered(r).outcome = "ok"
      /\ Answered(r).done = req[r].done + 1 /\ Answered(r).offer = offer
  BY <1>1, <1>2, <1>3 DEF Handler
<1> QED
  BY <1>4 DEF offer

\* A commit keeps it: it writes what no other transaction has written.
LEMMA CommitStep ==
    ASSUME Inv, NEW r \in Requests, Commit(r)
    PROVE  Inv'
<1> DEFINE h == req[r]
<1>1. /\ Persists(r) /\ audit' \in [Codes -> Seq(AuditEvent)] /\ h \in Handler /\ Target(r) \in Codes
      /\ product \in [Codes -> Row] /\ product'[Target(r)] = h.row
      /\ h.pc = "written" /\ UNCHANGED <<issued, faults>> /\ TypeOK
  BY PersistIsTyped DEF Commit, Persist, Inv
<1>2. CASE h.done + 1 < Len(h.rows)
  <2>1. req' = [req EXCEPT ![r] = NextRow(r)]
    BY <1>2 DEF Commit
  <2>2. /\ h.op = "CREATE" /\ h.actor \in Actors /\ h.done = 0 /\ h.row.version = 1
        /\ h.before = NoRow
    <3>1. Serves(r)
      BY DEF Inv
    <3>2. h.op = "CREATE"
      <4> SUFFICES ASSUME h.op # "CREATE" PROVE FALSE
        OBVIOUS
      <4>1. h.done = 0 /\ Len(h.rows) = 1
        BY <1>1, <3>1 DEF Serves, Changes
      <4> QED
        BY <1>2, <4>1
    <3>3. h.bound /\ h.bound = (h.done = 0) /\ h.row.version = 1 /\ h.before = NoRow
      BY <1>1, <3>1, <3>2 DEF Serves, Creates
    <3>4. h.actor \in Actors
      BY <1>1, <3>1 DEF Serves
    <3> QED
      BY <3>2, <3>3, <3>4
  <2>3. /\ NextRow(r) \in Handler /\ NextRow(r).pc = "row" /\ NextRow(r).op = "CREATE"
        /\ NextRow(r).actor = h.actor /\ NextRow(r).rows = h.rows /\ NextRow(r).done = 1
        /\ NextRow(r).bound = FALSE /\ NextRow(r).before = NoRow
    <3>1. "row" \in Stages /\ FALSE \in BOOLEAN /\ NoRow \in Row
      BY DEF Stages, NoRow, Row
    <3>2. /\ h.rows \in Seq(Codes) /\ h.done + 1 = 1
      BY <1>1, <2>2 DEF Handler
    <3>3. NextRow(r) = [h EXCEPT !.pc = "row", !.done = 1, !.row = NoRow, !.bound = FALSE]
      BY <1>1, <3>2 DEF NextRow, Handler
    <3> DEFINE next == [h EXCEPT !.pc = "row", !.done = 1, !.row = NoRow, !.bound = FALSE]
    <3>4. /\ next \in Handler /\ next.pc = "row" /\ next.op = h.op /\ next.actor = h.actor
          /\ next.rows = h.rows /\ next.done = 1 /\ next.bound = FALSE
          /\ next.before = h.before
      BY <1>1, <3>1 DEF Handler
    <3> HIDE DEF next
    <3>5. NextRow(r) = next
      BY <3>3 DEF next
    <3> QED
      BY <2>2, <3>4, <3>5
  <2>4. /\ req' \in [Requests -> Handler] /\ req'[r] = NextRow(r)
        /\ \A s \in Requests \ {r} : req'[s] = req[s]
    BY <1>1, <2>1, <2>3, HandlerReplaced
  <2>5. Steps(r)
    BY <1>1, <2>4 DEF Steps
  <2>6. product' \in [Codes -> Row]
    BY <1>1, <2>5, VersionsGrow
  <2>7. TypeOK'
    BY <1>1, <2>4, <2>6 DEF TypeOK
  <2>8. product'[req'[r].rows[1]].version = 1
    <3>1. Target(r) = h.rows[1]
      BY <2>2 DEF Target
    <3>2. req'[r].rows = h.rows
      BY <2>3, <2>4
    <3> QED
      BY <1>1, <2>2, <3>1, <3>2
  <2>9. Creates(r)'
    <3>1. req'[r].bound = (req'[r].done = 0)
      <4>1. req'[r].done = 1 /\ req'[r].bound = FALSE
        BY <2>3, <2>4
      <4>2. 1 # 0
        OBVIOUS
      <4> QED
        BY <4>1, <4>2
    <3> QED
      BY <2>3, <2>4, <2>8, <3>1 DEF Creates, Exists
  <2>10. Serves(r)'
    BY <1>1, <1>2, <2>2, <2>3, <2>4, <2>9 DEF Serves, Changes
  <2> QED
    BY <2>3, <2>4, <2>5, <2>7, <2>10, InvKept
<1>3. CASE ~(h.done + 1 < Len(h.rows))
  <2>1. req' = [req EXCEPT ![r] = Answered(r)]
    BY <1>3 DEF Commit
  <2>2. Answered(r) \in Handler /\ Answered(r).pc = "idle"
    BY <1>1, AnsweredIsIdle
  <2>3. Steps(r)
    BY <1>1, <2>1, <2>2, HandlerReplaced DEF Steps
  <2> QED
    BY <1>1, <2>1, <2>2, <2>3, EndStep DEF TypeOK
<1> QED
  BY <1>2, <1>3

\* A request whose commit was not acknowledged leaves an idle slot that offers nothing.
LEMMA UnacknowledgedIsIdle ==
    ASSUME TypeOK, NEW r \in Requests
    PROVE  LET failed == [Failed(r) EXCEPT !.done = @ + 1] IN
           /\ failed \in Handler /\ failed.pc = "idle" /\ failed.outcome = "failed"
           /\ failed.done = req[r].done + 1 /\ failed.offer = {}
  BY FailedIsIdle, RowsHold, SMTT(30) DEF Handler

\* A commit that nobody is told of keeps it.
LEMMA UnacknowledgedStep ==
    ASSUME Inv, NEW r \in Requests, CommitUnacknowledged(r)
    PROVE  Inv'
<1> DEFINE failed == [Failed(r) EXCEPT !.done = @ + 1]
<1>1. /\ Persists(r) /\ audit' \in [Codes -> Seq(AuditEvent)] /\ issued' = issued /\ TypeOK
      /\ faults' \in 0..MaxFaults /\ req' = [req EXCEPT ![r] = failed]
  BY PersistIsTyped, FaultCounts DEF CommitUnacknowledged, Inv
<1>2. failed \in Handler /\ failed.pc = "idle"
  BY <1>1, UnacknowledgedIsIdle
<1> HIDE DEF failed
<1>3. Steps(r)
  BY <1>1, <1>2, HandlerReplaced DEF Steps
<1> QED
  BY <1>1, <1>2, <1>3, EndStep DEF TypeOK

\* Every step of every handler keeps it.
LEMMA InvStep == Inv /\ [Next]_vars => Inv'
<1> SUFFICES ASSUME Inv, [Next]_vars PROVE Inv'
  OBVIOUS
<1>1. ASSUME NEW r \in Requests, Call(r) PROVE Inv'
  <2>1. req[r].pc = "idle" /\ issued < MaxRequests
    BY <1>1 DEF Call
  <2>2. PICK actor \in Actors :
          \/ \E owner \in Users \cup {None}, file \in Imports : CallCreate(r, actor, owner, file)
          \/ \E owner \in Users \cup {None}, c \in Codes : CallUpdate(r, actor, owner, c)
          \/ \E op \in {"DELETE", "RESTORE"}, c \in Codes : CallLifecycle(r, op, actor, c)
    BY <1>1 DEF Call
  <2>3. CASE \E owner \in Users \cup {None}, file \in Imports : CallCreate(r, actor, owner, file)
    BY <2>1, <2>3, CallCreateStep
  <2>4. ASSUME NEW owner \in Users \cup {None}, NEW c \in Codes, CallUpdate(r, actor, owner, c)
        PROVE  Inv'
    <3>1. "UPDATE" \in Ops \ {"CREATE"}
      BY DEF Ops
    <3> QED
      BY <2>1, <2>4, <3>1, LoadStep DEF CallUpdate
  <2>5. ASSUME NEW op \in {"DELETE", "RESTORE"}, NEW c \in Codes, CallLifecycle(r, op, actor, c)
        PROVE  Inv'
    <3>1. op \in Ops \ {"CREATE"} /\ op # "UPDATE" /\ None \in Users \cup {None}
      BY DEF Ops
    <3> QED
      BY <2>1, <2>5, <3>1, LoadStep DEF CallLifecycle
  <2> QED
    BY <2>2, <2>3, <2>4, <2>5
<1>2. ASSUME NEW r \in Requests, Step(r) PROVE Inv'
  <2>1. CASE FailsEarly(r) \/ Fail(r)
    BY <2>1, FailStep
  <2>2. CASE InsertRow(r)
    BY <2>2, InsertStep
  <2>3. CASE Check(r)
    BY <2>3, CheckStep
  <2>4. CASE Write(r)
    BY <2>4, WriteStep
  <2>5. CASE Commit(r)
    BY <2>5, CommitStep
  <2>6. CASE CommitUnacknowledged(r)
    BY <2>6, UnacknowledgedStep
  <2> QED
    BY <1>2, <2>1, <2>2, <2>3, <2>4, <2>5, <2>6 DEF Step, FailsEarly
<1>3. CASE UNCHANGED vars
  <2>1. UNCHANGED <<product, audit, req, issued, faults>>
    BY <1>3 DEF vars
  <2>2. TypeOK'
    BY <2>1 DEF Inv, TypeOK
  <2>3. WritesExclude'
    BY <2>1 DEF Inv, WritesExclude, Target
  <2>4. ASSUME NEW r \in Requests PROVE Serves(r)'
    <3>1. Serves(r)
      BY DEF Inv
    <3>. QED
      BY <2>1, <3>1, Zenon DEF Serves, Creates, Changes, Changed, Target, Exists, Visible
  <2> QED
    BY <2>2, <2>3, <2>4 DEF Inv
<1> QED
  BY <1>1, <1>2, <1>3 DEF Next

\* The invariant holds of every behaviour, however requests overlap and fail.
THEOREM Invariance == Spec => []Inv
  BY InvInit, InvStep, PTL DEF Spec

\* Rows, trails and handlers keep to their types.
THEOREM TypeCorrect == Spec => []TypeOK
  BY Invariance, PTL DEF Inv

-----------------------------------------------------------------------------
\* What follows of a single step.

\* A step that changes what a request in flight holds is a step of that request.
LEMMA StepIsOwn ==
    ASSUME TypeOK, NEW s \in Requests, Call(s) \/ Step(s), NEW r \in Requests, req'[r] # req[r],
           req[r].pc # "idle"
    PROVE  Step(r)
<1>1. \E handler : req' = [req EXCEPT ![s] = handler]
  BY DEF Call, CallCreate, CallUpdate, CallLifecycle, Load, Begin, Step, RowRefused, InsertRow,
     CodeConflict, RowUnbound, Check, CheckFindsNothing, Write, WriteUnseen, VersionConflict,
     Goes, Commit, CommitUnacknowledged, Fail
<1>2. r = s
  BY <1>1 DEF TypeOK
<1> QED
  BY <1>2 DEF Call

\* Past its write, a request commits, with or without an answer, or fails with a fault.
LEMMA WrittenEnds ==
    ASSUME NEW r \in Requests, Step(r), req[r].pc = "written"
    PROVE  Commit(r) \/ CommitUnacknowledged(r) \/ Fail(r)
  BY DEF Step, RowRefused, InsertRow, CodeConflict, RowUnbound, RowPasses, Check,
     CheckFindsNothing, Write, WriteUnseen, VersionConflict

\* Whoever changes a product has the right to, at the moment of the commit, and takes it or
\* may assign owners if it gets another one.
THEOREM OnlyRightfulChanges == Spec => ChangesAreRightful
<1> DEFINE Rightful(r, c) ==
      LET h == req[r] IN
      /\ Visible(h.actor, h.op, c, product[c])
      /\ product'[c].owner \in {product[c].owner, UserOf[h.actor]} \/ h.actor \in Assigners
<1>1. ASSUME Inv, Next, NEW r \in Requests, NEW c \in Codes, product'[c] # product[c],
             Exists(c), req[r].pc = "written", req'[r] # req[r]
      PROVE  Rightful(r, c)
  <2>1. Step(r) /\ Serves(r)
    BY <1>1, StepIsOwn DEF Next, Inv
  <2>2. Commit(r) \/ CommitUnacknowledged(r)
    BY <1>1, <2>1, WrittenEnds DEF Fail
  <2>3. Persists(r) /\ Target(r) \in Codes /\ product'[Target(r)] = req[r].row
    BY <1>1, <2>2, PersistIsTyped DEF Commit, CommitUnacknowledged
  <2>4. c = Target(r)
    BY <1>1, <2>3 DEF Persists, Inv, TypeOK
  <2>5. req[r].op # "CREATE"
    BY <1>1, <2>1, <2>4 DEF Serves, Creates
  <2>6. /\ Visible(req[r].actor, req[r].op, c, product[c]) /\ req[r].row = Changed(r)
        /\ req[r].op = "UPDATE" => MayName(req[r].actor, req[r].owner)
    BY <1>1, <2>1, <2>4, <2>5 DEF Serves, Changes
  <2>7. product'[c].owner = IF req[r].op = "UPDATE" THEN OwnerOf(req[r].actor, req[r].owner)
                            ELSE product[c].owner
    BY <2>3, <2>4, <2>6 DEF Changed
  <2> QED
    BY <2>6, <2>7 DEF OwnerOf, MayName
<1>2. Inv /\ [Next]_vars =>
        [\A r \in Requests, c \in Codes :
           product'[c] # product[c] /\ Exists(c) /\ req[r].pc = "written" /\ req'[r] # req[r] =>
             Rightful(r, c)]_vars
  BY <1>1
<1> QED
  BY <1>2, Invariance, PTL DEF Spec, ChangesAreRightful

\* Only rows after the first are refused for nothing: a creation, and the first row of an
\* import, find the tenant bound, and fail without a fault only for what is wrong with them.
THEOREM FirstRowsAreAccepted ==
    Spec => [][\A r \in Requests : req[r].done = 0 => RefusedForItsRow(r)]_vars
<1>1. ASSUME Inv, Next, NEW r \in Requests, req[r].done = 0, req[r].pc # "idle",
             req[r].op = "CREATE", req'[r].pc = "idle", req'[r].outcome = "failed",
             faults' = faults
      PROVE  RowIsWrong(r)
  <2>1. TypeOK /\ Serves(r) /\ req[r] \in Handler /\ faults \in Nat
    BY <1>1, BoundsAssumption DEF Inv, TypeOK
  <2>2. req[r].pc \in {"row", "written"} /\ req[r].bound
    BY <1>1, <2>1 DEF Serves, Creates
  <2>3. Step(r)
    BY <1>1, <2>1, StepIsOwn DEF Next
  <2>4. CASE RowRefused(r) \/ CodeConflict(r)
    BY <2>4 DEF RowRefused, CodeConflict, RowIsWrong
  <2>5. ~RowUnbound(r)
    BY <2>2 DEF RowUnbound
  <2>6. ~(Check(r) \/ CheckFindsNothing(r) \/ Write(r) \/ WriteUnseen(r) \/ VersionConflict(r))
    BY <2>2 DEF Check, CheckFindsNothing, Write, WriteUnseen, VersionConflict
  <2>7. ~(CommitUnacknowledged(r) \/ Fail(r))
    BY <1>1, <2>1 DEF CommitUnacknowledged, Fail
  <2>8. ~InsertRow(r)
    <3> SUFFICES ASSUME InsertRow(r) PROVE FALSE
      OBVIOUS
    <3>1. req'[r].pc = "written"
      BY <2>1 DEF InsertRow, Goes, TypeOK, Handler
    <3> QED
      BY <1>1, <3>1
  <2>9. ~Commit(r)
    <3> SUFFICES ASSUME Commit(r) PROVE FALSE
      OBVIOUS
    <3>1. req'[r] \in {NextRow(r), Answered(r)}
      BY <2>1 DEF Commit, TypeOK
    <3>2. NextRow(r).pc = "row" /\ Answered(r).outcome = "ok"
      BY <2>1, AnsweredIsIdle DEF NextRow, Handler
    <3> QED
      BY <1>1, <3>1, <3>2
  <2> QED
    BY <2>3, <2>4, <2>5, <2>6, <2>7, <2>8, <2>9 DEF Step
<1>2. Inv /\ [Next]_vars =>
        [\A r \in Requests : req[r].done = 0 => RefusedForItsRow(r)]_vars
  BY <1>1 DEF RefusedForItsRow
<1> QED
  BY <1>2, Invariance, PTL DEF Spec

\* What facts allow, more facts allow too.
LEMMA MasterAllowsGrows ==
    ASSUME NEW permission, NEW few \in Facts, NEW more \in Facts,
           few.owner => more.owner, few.assigned => more.assigned, few.team => more.team,
           MasterAllows(permission, few)
    PROVE  MasterAllows(permission, more)
  BY DEF MasterAllows, Sees

\* No answer offers the actor an operation that the database would not let through.
THEOREM OffersAreKept == Spec => OffersHold
<1> DEFINE Kept(r) ==
      LET c == Target(r)  a == req[r].actor IN
      req'[r].offer \subseteq Evaluate(a, product'[c], FactsOf(a, c, product'[c]))
<1>1. ASSUME Inv, Next, NEW r \in Requests, req[r].pc = "written", req'[r].pc = "idle"
      PROVE  Kept(r)
  <2>1. Step(r) /\ TypeOK
    BY <1>1, StepIsOwn DEF Next, Inv
  <2>2. CASE Fail(r) \/ CommitUnacknowledged(r)
    <3>1. req'[r].offer = {}
      BY <2>1, <2>2, FailedIsIdle, UnacknowledgedIsIdle DEF Fail, CommitUnacknowledged, TypeOK
    <3> QED
      BY <3>1
  <2>3. CASE Commit(r)
    <3>1. product'[Target(r)] = req[r].row
      BY <1>1, <2>3, PersistIsTyped DEF Commit
    <3>2. req'[r] = Answered(r)
      <4>1. NextRow(r).pc = "row"
        BY <2>1 DEF NextRow, TypeOK, Handler
      <4> QED
        BY <1>1, <2>1, <2>3, <4>1 DEF Commit, TypeOK
    <3>3. req'[r].offer \subseteq Evaluate(req[r].actor, req[r].row, AnswerFacts(r))
      BY <2>1, <3>2, AnsweredIsIdle
    <3> DEFINE owns == req[r].op = "CREATE" /\ req[r].row.owner = UserOf[req[r].actor]
               more == FactsOf(req[r].actor, Target(r), req[r].row)
    <3>4. /\ AnswerFacts(r) \in Facts /\ more \in Facts
          /\ AnswerFacts(r).owner => more.owner
          /\ ~AnswerFacts(r).assigned /\ ~AnswerFacts(r).team
      <4>1. owns \in BOOLEAN /\ (owns => more.owner) /\ more \in Facts
        <5>1. owns \in BOOLEAN
          OBVIOUS
        <5>2. more.owner = (req[r].row.owner = UserOf[req[r].actor])
          BY DEF FactsOf
        <5>3. more \in Facts
          BY DEF FactsOf, Facts
        <5> HIDE DEF more
        <5> QED
          BY <5>1, <5>2, <5>3
      <4>2. AnswerFacts(r) = [NoFacts EXCEPT !.owner = owns]
        BY DEF AnswerFacts
      <4> HIDE DEF owns, more
      <4>3. AnswerFacts(r) = [owner |-> owns, assigned |-> FALSE, team |-> FALSE]
        BY <4>2 DEF NoFacts
      <4> QED
        BY <4>1, <4>3 DEF Facts
    <3> HIDE DEF more
    <3>5. Evaluate(req[r].actor, req[r].row, AnswerFacts(r))
            \subseteq Evaluate(req[r].actor, req[r].row, more)
      BY <3>4, MasterAllowsGrows DEF Evaluate
    <3> QED
      BY <3>1, <3>3, <3>5 DEF more
  <2> QED
    BY <1>1, <2>1, <2>2, <2>3, WrittenEnds
<1>2. Inv /\ [Next]_vars =>
        [\A r \in Requests : req[r].pc = "written" /\ req'[r].pc = "idle" => Kept(r)]_vars
  BY <1>1
<1> QED
  BY <1>2, Invariance, PTL DEF Spec, OffersHold

-----------------------------------------------------------------------------
\* The trails.

\* A place added at the end comes next after the last one, is the first when there was none,
\* and moves nothing else.
LEMMA PlacesGrow ==
    ASSUME NEW n \in Nat, NEW S \in SUBSET (1..n)
    PROVE  LET T == S \cup {n + 1} IN
           /\ \A i \in S : IsFirst(i, T) <=> IsFirst(i, S)
           /\ IsFirst(n + 1, T) <=> S = {}
           /\ \A i \in S : ~IsLast(i, T)
           /\ IsLast(n + 1, T)
           /\ \A i, j \in S : Follows(j, i, T) <=> Follows(j, i, S)
           /\ \A i \in S : Follows(n + 1, i, T) <=> IsLast(i, S)
           /\ \A j \in T : ~Follows(j, n + 1, T)
<1>. DEFINE T == S \cup {n + 1}
<1>1. \A i \in S : i \in Int /\ i <= n /\ i < n + 1
  OBVIOUS
<1>2. \A i \in S : IsFirst(i, T) <=> IsFirst(i, S)
  BY <1>1 DEF IsFirst
<1>3. IsFirst(n + 1, T) <=> S = {}
  BY <1>1 DEF IsFirst
<1>4. (\A i \in S : ~IsLast(i, T)) /\ IsLast(n + 1, T)
  BY <1>1 DEF IsLast
<1>5. \A i, j \in S : Follows(j, i, T) <=> Follows(j, i, S)
  BY <1>1 DEF Follows
<1>6. \A i \in S : Follows(n + 1, i, T) <=> IsLast(i, S)
  BY <1>1 DEF Follows, IsLast
<1>7. \A j \in T : ~Follows(j, n + 1, T)
  BY <1>1 DEF Follows
<1>. QED
  BY <1>2, <1>3, <1>4, <1>5, <1>6, <1>7

\* An entry that tells what it changes of a field, from the value that the field has, leads on
\* to what it makes of it; one that does not tell of the field leaves it.
LEMMA LeadsOn ==
    ASSUME NEW trail \in Seq(AuditEvent), NEW e \in AuditEvent, NEW f, NEW old, NEW new,
           LeadsTo(trail, f, old),
           f \in DOMAIN e.changes => e.changes[f].old = old /\ e.changes[f].new = new,
           f \notin DOMAIN e.changes => new = old
    PROVE  LeadsTo(Append(trail, e), f, new)
<1> DEFINE longer == Append(trail, e)  n == Len(trail)  S == Telling(trail, f)
           T == S \cup {n + 1}
<1>1. /\ n \in Nat /\ Len(longer) = n + 1 /\ longer[n + 1] = e
      /\ \A i \in 1..n : longer[i] = trail[i]
  OBVIOUS
<1>2. \A i : i \in 1..Len(longer) <=> i \in 1..n \/ i = n + 1
  BY <1>1
<1> HIDE DEF longer, n
<1>3. /\ S \in SUBSET (1..n)
      /\ \A i : i \in S <=> i \in 1..n /\ f \in DOMAIN trail[i].changes
  BY DEF Telling, n
<1>4. Telling(longer, f) = IF f \in DOMAIN e.changes THEN T ELSE S
  <2>1. \A i : i \in Telling(longer, f) <=>
                  i \in 1..Len(longer) /\ f \in DOMAIN longer[i].changes
    BY DEF Telling
  <2>2. \A i : i \in Telling(longer, f) <=> i \in S \/ (i = n + 1 /\ f \in DOMAIN e.changes)
    BY <1>1, <1>2, <1>3, <2>1
  <2> QED
    BY <2>2
<1>5. /\ S = {} => old = Image(NoRow)[f]
      /\ \A i \in S : IsFirst(i, S) => trail[i].changes[f].old = Image(NoRow)[f]
      /\ \A i, j \in S : Follows(j, i, S) => trail[j].changes[f].old = trail[i].changes[f].new
      /\ \A i \in S : IsLast(i, S) => old = trail[i].changes[f].new
  BY DEF LeadsTo
<1>6. /\ \A i \in S : IsFirst(i, T) <=> IsFirst(i, S)
      /\ IsFirst(n + 1, T) <=> S = {}
      /\ \A i \in S : ~IsLast(i, T)
      /\ \A i, j \in S : Follows(j, i, T) <=> Follows(j, i, S)
      /\ \A i \in S : Follows(n + 1, i, T) <=> IsLast(i, S)
      /\ \A j \in T : ~Follows(j, n + 1, T)
  BY <1>1, <1>3, PlacesGrow
<1>7. \A i \in S : longer[i] = trail[i]
  BY <1>1, <1>3
<1> HIDE DEF S
<1>8. CASE f \notin DOMAIN e.changes
  <2>1. Telling(longer, f) = S /\ new = old
    BY <1>4, <1>8
  <2>2. \A i \in S : IsFirst(i, S) => longer[i].changes[f].old = Image(NoRow)[f]
    BY <1>5, <1>7
  <2>3. \A i, j \in S : Follows(j, i, S) => longer[j].changes[f].old = longer[i].changes[f].new
    BY <1>5, <1>7
  <2>4. \A i \in S : IsLast(i, S) => old = longer[i].changes[f].new
    BY <1>5, <1>7
  <2> QED
    BY <1>5, <2>1, <2>2, <2>3, <2>4 DEF LeadsTo, longer
<1>9. CASE f \in DOMAIN e.changes
  <2>1. Telling(longer, f) = T /\ T # {}
    BY <1>4, <1>9
  <2>2. longer[n + 1].changes[f].old = old /\ longer[n + 1].changes[f].new = new
    BY <1>1, <1>9
  <2>3. ASSUME NEW i \in T, IsFirst(i, T) PROVE longer[i].changes[f].old = Image(NoRow)[f]
    BY <1>5, <1>6, <1>7, <2>2, <2>3
  <2>4. ASSUME NEW i \in T, NEW j \in T, Follows(j, i, T)
        PROVE  longer[j].changes[f].old = longer[i].changes[f].new
    <3>1. i \in S
      BY <1>6, <2>4
    <3>2. CASE j = n + 1
      BY <1>5, <1>6, <1>7, <2>2, <2>4, <3>1, <3>2
    <3>3. CASE j \in S
      BY <1>5, <1>6, <1>7, <2>4, <3>1, <3>3, ZenonT(30)
    <3> QED
      BY <3>2, <3>3
  <2>5. ASSUME NEW i \in T, IsLast(i, T) PROVE new = longer[i].changes[f].new
    BY <1>6, <2>2, <2>5
  <2> HIDE DEF T
  <2> QED
    BY <2>1, <2>3, <2>4, <2>5 DEF LeadsTo, longer
<1> QED
  BY <1>8, <1>9

\* A commit is told from the row that it replaces: a creation from none, a mutation from the
\* row as the use case has read it, which nobody has changed since.
LEMMA CommitIsTold ==
    ASSUME Inv, TrailReplays, NEW r \in Requests, Persist(r)
    PROVE  TrailReplays'
<1> DEFINE h == req[r]  t == Target(r)  e == Event(r)  trail == audit[t]
<1>1. /\ Persists(r) /\ t \in Codes /\ product'[t] = h.row /\ h.pc = "written" /\ Serves(r)
      /\ e \in AuditEvent /\ e.op = h.op /\ h.row \in Row
      /\ trail \in Seq(AuditEvent) /\ product[t] \in Row /\ Len(trail) = product[t].version
  BY PersistIsTyped, EventTells, RowsHold DEF Persist, Inv, TypeOK, TrailReplays
<1>2. /\ audit'[t] = Append(trail, e)
      /\ \A c \in Codes : c # t => audit'[c] = audit[c] /\ product'[c] = product[c]
  BY <1>1 DEF Persist, Inv, TypeOK
<1>3. /\ h.row.version = product[t].version + 1
      /\ h.op = "CREATE" <=> product[t].version = 0
      /\ \A f \in Fields : Image(h.before)[f] = Image(product[t])[f]
  <2>1. CASE h.op = "CREATE"
    <3>1. ~Exists(t) /\ h.row.version = 1 /\ h.before = NoRow
      BY <1>1, <2>1 DEF Serves, Creates
    <3>2. product[t].version = 0
      BY <1>1, <3>1 DEF Exists, Row
    <3>3. ASSUME NEW f \in Fields PROVE Image(product[t])[f] = Image(NoRow)[f]
      <4>1. LeadsTo(trail, f, Image(product[t])[f]) /\ Telling(trail, f) = {}
        BY <1>1, <3>2 DEF TrailReplays, Telling
      <4> QED
        BY <4>1 DEF LeadsTo
    <3> QED
      BY <2>1, <3>1, <3>2, <3>3
  <2>2. CASE h.op # "CREATE"
    <3>1. product[t] = h.before /\ h.row = Changed(r) /\ h.before.version > 0
      BY <1>1, <2>2 DEF Serves, Changes, Visible
    <3>2. h.row.version = product[t].version + 1
      BY <1>1, <3>1, ChangedIsRow
    <3> QED
      BY <1>1, <2>2, <3>1, <3>2 DEF Row
  <2> QED
    BY <2>1, <2>2
<1>4. ASSUME NEW f \in Fields PROVE LeadsTo(Append(trail, e), f, Image(product'[t])[f])
  <2> DEFINE old == Image(product[t])[f]  new == Image(h.row)[f]
  <2>1. /\ f \in DOMAIN e.changes <=> old # new
        /\ f \in DOMAIN e.changes => e.changes[f].old = old /\ e.changes[f].new = new
    BY <1>1, <1>3, EventTells
  <2>2. LeadsTo(trail, f, old)
    BY <1>1 DEF TrailReplays
  <2> HIDE DEF old, new, e, trail
  <2>3. LeadsTo(Append(trail, e), f, new)
    BY <1>1, <2>1, <2>2, LeadsOn
  <2> QED
    BY <1>1, <2>3 DEF new
<1> HIDE DEF e, trail, t, h
<1>5. /\ Len(Append(trail, e)) = product'[t].version
      /\ \A i \in 1..Len(Append(trail, e)) : Append(trail, e)[i].op = "CREATE" <=> i = 1
  <2> DEFINE longer == Append(trail, e)  n == Len(trail)
  <2>1. /\ n \in Nat /\ Len(longer) = n + 1 /\ longer[n + 1] = e
        /\ \A i \in 1..n : longer[i] = trail[i]
    BY <1>1
  <2>2. \A i \in 1..n : trail[i].op = "CREATE" <=> i = 1
    BY <1>1 DEF TrailReplays, trail
  <2> HIDE DEF longer, n
  <2>3. n = product[t].version
    BY <1>1 DEF n
  <2>4. n + 1 = 1 <=> n = 0
    BY <2>1
  <2>5. ASSUME NEW i \in 1..(n + 1) PROVE longer[i].op = "CREATE" <=> i = 1
    <3>1. CASE i \in 1..n
      BY <2>1, <2>2, <3>1
    <3>2. CASE i = n + 1
      BY <1>1, <1>3, <2>1, <2>3, <2>4, <3>2
    <3> QED
      BY <2>1, <3>1, <3>2
  <2> QED
    BY <1>1, <1>3, <2>1, <2>3, <2>5 DEF longer
<1>6. ASSUME NEW c \in Codes
      PROVE  /\ Len(audit'[c]) = product'[c].version
             /\ \A i \in 1..Len(audit'[c]) : audit'[c][i].op = "CREATE" <=> i = 1
             /\ \A f \in Fields : LeadsTo(audit'[c], f, Image(product'[c])[f])
  <2>1. CASE c = t
    BY <1>2, <1>4, <1>5, <2>1
  <2>2. CASE c # t
    BY <1>2, <2>2 DEF TrailReplays
  <2> QED
    BY <2>1, <2>2
<1> QED
  BY <1>6 DEF TrailReplays

\* Whatever does not commit tells nothing and changes nothing.
LEMMA NothingIsTold ==
    ASSUME [Next]_vars, \A r \in Requests : ~Persist(r)
    PROVE  UNCHANGED <<product, audit>>
<1>1. ASSUME NEW r \in Requests, Call(r) PROVE UNCHANGED <<product, audit>>
  BY <1>1 DEF Call, CallCreate, CallUpdate, CallLifecycle, Load, Begin
<1>2. ASSUME NEW r \in Requests, Step(r) PROVE UNCHANGED <<product, audit>>
  BY <1>2 DEF Step, RowRefused, InsertRow, CodeConflict, RowUnbound, Check, CheckFindsNothing,
     Write, WriteUnseen, VersionConflict, Goes, Commit, CommitUnacknowledged, Fail
<1> QED
  BY <1>1, <1>2 DEF Next, vars

\* The trail of every product, replayed from nothing, gives the row as it is.
THEOREM TrailsReplay == Spec => []TrailReplays
<1>1. Init => TrailReplays
  <2> SUFFICES ASSUME Init PROVE TrailReplays
    OBVIOUS
  <2>1. \A c \in Codes : product[c] = NoRow /\ audit[c] = <<>>
    BY DEF Init
  <2>2. ASSUME NEW f PROVE LeadsTo(<<>>, f, Image(NoRow)[f])
    <3>1. Telling(<<>>, f) = {}
      BY DEF Telling
    <3> QED
      BY <3>1 DEF LeadsTo
  <2> QED
    BY <2>1, <2>2 DEF TrailReplays, NoRow
<1>2. Inv /\ TrailReplays /\ [Next]_vars => TrailReplays'
  <2> SUFFICES ASSUME Inv, TrailReplays, [Next]_vars PROVE TrailReplays'
    OBVIOUS
  <2>1. CASE \E r \in Requests : Persist(r)
    BY <2>1, CommitIsTold
  <2>2. CASE \A r \in Requests : ~Persist(r)
    BY <2>2, NothingIsTold DEF TrailReplays
  <2> QED
    BY <2>1, <2>2
<1> QED
  BY <1>1, <1>2, InvInit, InvStep, PTL DEF Spec

=============================================================================
