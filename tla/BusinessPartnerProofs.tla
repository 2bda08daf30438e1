------------------------ MODULE BusinessPartnerProofs -----------------------
(***************************************************************************)
(* Proofs about BusinessPartner, for any number of partners, users,        *)
(* handlers and requests, and any length of an import.                     *)
(*                                                                         *)
(* The inductive invariant says of each handler on its own that it is      *)
(* Sound: what it has inserted nobody else can see, and what it has read   *)
(* is still so, or the version has moved past the one it names.  Of any    *)
(* two handlers it says that they are Apart: they have not written the     *)
(* same row.                                                               *)
(***************************************************************************)
EXTENDS BusinessPartner, TLAPS

\* A role belongs to a partner (fk_partner_roles_tenant_partner).
RolesNeedPartners ==
    \A c \in Codes, k \in Kinds : role[c][k] # "absent" => Exists(c)

\* What a creation has inserted is not there yet.
InsertsAreNew(h) ==
    /\ \A c \in h.made : ~Exists(c)
    /\ \A c \in h.joined : h.kind = "SUPPLIER" /\ Exists(c) /\ role[c].SUPPLIER = "absent"

\* A creation goes through its file, row by row, and a mutation inserts nothing.
FileIsFollowed(h) ==
    /\ h.pc = "idle" => h = Idle
    /\ h.op = "NONE" => h.pc = "idle"
    /\ h.pc \in {"inserting", "looking", "joining"} => h.op = "CREATE" /\ h.rows # <<>>
    /\ h.pc \in {"loaded", "checked"} => h.op # "CREATE" /\ h.rows = <<>>
    /\ h.pc \in {"looking", "joining"} => h.kind = "SUPPLIER"
    /\ h.pc = "joining" => Exists(Head(h.rows))
    /\ h.pc = "written" => h.rows = <<>>
    /\ h.op = "CREATE" => h.target = {}
    /\ h.op # "CREATE" => h.made = {} /\ h.joined = {}

\* A mutation whose version is still the partner's has seen the partner as it is.
ReadIsFresh(h) ==
    \A c \in h.target :
        /\ Exists(c)
        /\ role[c][h.kind] # "absent"
        /\ h.expected <= partner[c].version
        /\ h.expected = partner[c].version =>
              /\ InScope(h.actor, partner[c].owner)
              /\ h.op = "UPDATE" => MayName(h.kind, h.actor, h.owner, partner[c].owner)
              /\ h.before = [owner |-> partner[c].owner, role |-> role[c][h.kind]]
              /\ h.pc \in {"checked", "written"} => role[c][h.kind] \in Changeable(h.op)
        /\ h.pc = "written" => h.expected = partner[c].version

Sound(h) == InsertsAreNew(h) /\ FileIsFollowed(h) /\ ReadIsFresh(h)

Apart(h, g) ==
    /\ h.made \cap g.made = {}
    /\ h.joined \cap g.joined = {}
    /\ h.pc = "written" /\ g.pc = "written" => h.target \cap g.target = {}

Inv ==
    /\ TypeOK
    /\ RolesNeedPartners
    /\ \A r \in Requests : Sound(req[r])
    /\ \A r, s \in Requests : r # s => Apart(req[r], req[s])

-----------------------------------------------------------------------------
\* Steps that change one handler and nothing that is committed.

\* The handler of a free slot is sound, and apart from every other.
LEMMA IdleIsSound ==
    /\ Idle \in Handler
    /\ Sound(Idle)
    /\ \A g : Apart(Idle, g)
<1>1. Idle \in Handler
  BY DEF Idle, Handler, Stages, Kinds, Owners, Image, NoImage, RoleStates
<1>2. Sound(Idle)
  BY DEF Idle, Sound, InsertsAreNew, FileIsFollowed, ReadIsFresh
<1>3. \A g : Apart(Idle, g)
  BY DEF Idle, Apart
<1>. QED
  BY <1>1, <1>2, <1>3

\* A step of one handler that commits nothing keeps the invariant when what the handler has
\* become is sound and apart from the others.
LEMMA HandlerMoves ==
    ASSUME Inv, NEW r \in Requests, NEW h \in Handler, Sound(h),
           \A s \in Requests : s # r => Apart(h, req[s]),
           req' = [req EXCEPT ![r] = h], UNCHANGED <<partner, role, audit>>,
           issued' \in 0..MaxRequests
    PROVE  Inv'
<1>1. /\ req'[r] = h
      /\ \A s \in Requests : s # r => req'[s] = req[s]
      /\ req' \in [Requests -> Handler]
  BY DEF Inv, TypeOK
<1>2. TypeOK'
  BY <1>1 DEF Inv, TypeOK
<1>3. RolesNeedPartners'
  BY DEF Inv, RolesNeedPartners, Exists
<1>4. ASSUME NEW s \in Requests PROVE Sound(req[s])'
  <2>1. Sound(req'[s])
    BY <1>1 DEF Inv
  <2>. QED
    BY <2>1 DEF Sound, InsertsAreNew, FileIsFollowed, ReadIsFresh, Exists
<1>5. ASSUME NEW s \in Requests, NEW q \in Requests, s # q
      PROVE  Apart(req[s], req[q])'
  <2>1. CASE s # r /\ q # r
    BY <1>1, <1>5, <2>1 DEF Inv, Apart
  <2>2. CASE s = r
    BY <1>1, <1>5, <2>2 DEF Inv, Apart
  <2>3. CASE q = r
    <3>1. Apart(h, req[s])
      BY <1>5, <2>3
    <3>. QED
      BY <1>1, <1>5, <2>3, <3>1 DEF Apart
  <2>. QED
    BY <2>1, <2>2, <2>3
<1>. QED
  BY <1>2, <1>3, <1>4, <1>5 DEF Inv

\* The same of the steps that only move a handler on.
LEMMA GoesKeeps ==
    ASSUME Inv, NEW r \in Requests, NEW h \in Handler, Sound(h),
           \A s \in Requests : s # r => Apart(h, req[s]), Goes(r, h)
    PROVE  Inv'
BY HandlerMoves DEF Goes, Inv, TypeOK

\* A rollback keeps the invariant.
LEMMA UndoKeeps ==
    ASSUME Inv, NEW r \in Requests, Undo(r)
    PROVE  Inv'
BY IdleIsSound, GoesKeeps DEF Undo

-----------------------------------------------------------------------------
\* Calls.

\* A call keeps the invariant when the handler it starts is sound and has written nothing.
LEMMA BeginKeeps ==
    ASSUME Inv, NEW r \in Requests, NEW h \in Handler, Sound(h),
           h.made = {}, h.joined = {}, h.pc # "written", Begin(r, h)
    PROVE  Inv'
<1>1. \A s \in Requests : s # r => Apart(h, req[s])
  BY DEF Apart
<1>2. issued' \in 0..MaxRequests
  BY BoundsAssumption DEF Begin, Inv, TypeOK
<1>. QED
  BY <1>1, <1>2, HandlerMoves DEF Begin

\* A file is a sequence that is not empty.
LEMMA FilesAreSequences ==
    ASSUME NEW file \in Files
    PROVE  file \in Seq(Codes) /\ file # <<>>
<1>1. PICK n \in 1..MaxRows : file \in [1..n -> Codes]
  BY DEF Files
<1>2. n \in Nat /\ n >= 1
  BY <1>1, BoundsAssumption
<1>3. file \in Seq(Codes) /\ Len(file) = n
  BY <1>1, <1>2
<1>. QED
  BY <1>2, <1>3

\* A creation that begins has inserted nothing and has its whole file to do.
LEMMA CallCreateKeeps ==
    ASSUME Inv, NEW r \in Requests, NEW kind \in Kinds, NEW file \in Files,
           NEW actor \in Actors, NEW owner \in Owners,
           CallCreate(r, kind, file, actor, owner)
    PROVE  Inv'
<1>. DEFINE named == IF owner = NoOwner THEN DefaultOwner(kind, file, actor) ELSE owner
<1>. DEFINE h == [Idle EXCEPT
                    !.pc = NextRow(kind, file), !.op = "CREATE", !.kind = kind,
                    !.actor = actor, !.rows = file, !.owner = named]
<1>1. file \in Seq(Codes) /\ file # <<>>
  BY FilesAreSequences
<1>2. actor \in [user : Owners, scope : {"ALL", "OWN"}, assign : BOOLEAN]
  BY ActorsAssumption DEF Owners
<1>3. named \in Owners
  <2>1. Head(file) \in Codes
    BY <1>1
  <2>. QED
    BY <1>2, <2>1 DEF DefaultOwner, Inv, TypeOK, Partner, Owners
<1>4. /\ NextRow(kind, file) \in {"looking", "inserting"}
      /\ NextRow(kind, file) = "looking" => kind = "SUPPLIER"
  BY <1>1 DEF NextRow
<1>. HIDE DEF named
<1>5. h \in Handler
  BY <1>1, <1>2, <1>3, <1>4, IdleIsSound DEF Handler, Stages, Idle
<1>6. /\ h.op = "CREATE" /\ h.rows = file /\ h.target = {} /\ h.made = {}
      /\ h.joined = {} /\ h.pc = NextRow(kind, file) /\ h.kind = kind
  BY DEF Idle
<1>7. Begin(r, h)
  BY DEF CallCreate, named
<1>. HIDE DEF h
<1>8. Sound(h)
  BY <1>1, <1>4, <1>6 DEF Sound, InsertsAreNew, FileIsFollowed, ReadIsFresh
<1>. QED
  BY <1>4, <1>5, <1>6, <1>7, <1>8, BeginKeeps

\* A mutation that begins has read the partner as it is.
LEMMA CallMutationKeeps ==
    ASSUME Inv, NEW r \in Requests, NEW op \in {"UPDATE", "DELETE", "RESTORE"},
           NEW kind \in Kinds, NEW c \in Codes, NEW actor \in Actors, NEW owner \in Owners,
           CallMutation(r, op, kind, c, actor, owner)
    PROVE  Inv'
<1>1. PICK v \in 1..partner[c].version :
         Begin(r, [Idle EXCEPT
                     !.pc = "loaded", !.op = op, !.kind = kind, !.actor = actor,
                     !.owner = owner, !.target = {c}, !.expected = v,
                     !.before = [owner |-> partner[c].owner, role |-> role[c][kind]]])
  BY DEF CallMutation
<1>. DEFINE h == [Idle EXCEPT
                    !.pc = "loaded", !.op = op, !.kind = kind, !.actor = actor,
                    !.owner = owner, !.target = {c}, !.expected = v,
                    !.before = [owner |-> partner[c].owner, role |-> role[c][kind]]]
<1>2. /\ partner[c].version \in Nat /\ partner[c].owner \in Owners
      /\ role[c][kind] \in RoleStates
  BY DEF Inv, TypeOK, Partner
<1>3. actor \in [user : Owners, scope : {"ALL", "OWN"}, assign : BOOLEAN]
  BY ActorsAssumption DEF Owners
<1>4. h \in Handler
  <2>1. v \in Nat /\ [owner |-> partner[c].owner, role |-> role[c][kind]] \in Image
    BY <1>1, <1>2 DEF Image
  <2>. QED
    BY <1>3, <2>1, IdleIsSound, ZenonT(30) DEF Handler, Stages, Idle
<1>5. /\ h.op = op /\ h.kind = kind /\ h.actor = actor /\ h.owner = owner /\ h.target = {c}
      /\ h.made = {} /\ h.joined = {} /\ h.pc = "loaded" /\ h.expected = v /\ h.rows = <<>>
      /\ h.before = [owner |-> partner[c].owner, role |-> role[c][kind]]
  BY DEF Idle
<1>6. Begin(r, h)
  BY <1>1
<1>. HIDE DEF h
<1>7. /\ Exists(c)
      /\ role[c][kind] # "absent"
      /\ v <= partner[c].version
      /\ InScope(actor, partner[c].owner)
      /\ op = "UPDATE" => MayName(kind, actor, owner, partner[c].owner)
  BY <1>1, <1>2 DEF CallMutation, Exists, Loadable
<1>8. Sound(h)
  BY <1>5, <1>7 DEF Sound, InsertsAreNew, FileIsFollowed, ReadIsFresh
<1>. QED
  BY <1>4, <1>5, <1>6, <1>8, BeginKeeps

-----------------------------------------------------------------------------
\* The steps of a creation.

\* After a row the next one is looked for or inserted; after the last one there is a commit.
LEMMA NextRowLeads ==
    ASSUME NEW kind \in Kinds, NEW rest \in Seq(Codes)
    PROVE  /\ NextRow(kind, rest) \in {"written", "looking", "inserting"}
           /\ NextRow(kind, rest) = "written" <=> rest = <<>>
           /\ NextRow(kind, rest) = "looking" => kind = "SUPPLIER"
BY DEF NextRow

\* A partner inserted is one that nobody else has inserted: the key is waited for.
LEMMA InsertPartnerKeeps ==
    ASSUME Inv, NEW r \in Requests, InsertPartner(r)
    PROVE  Inv'
<1>. DEFINE g == req[r]  c == Head(g.rows)  rest == Tail(g.rows)
            h == [g EXCEPT !.made = @ \cup {c}, !.rows = rest, !.pc = NextRow(g.kind, rest)]
<1>1. g \in Handler /\ Sound(g) /\ g.pc = "inserting" /\ ~Exists(c)
  BY DEF Inv, TypeOK, InsertPartner
<1>2. /\ g.rows \in Seq(Codes) /\ g.rows # <<>> /\ g.op = "CREATE" /\ g.target = {}
      /\ g.kind \in Kinds
  BY <1>1 DEF Sound, FileIsFollowed, Handler
<1>3. c \in Codes /\ rest \in Seq(Codes)
  BY <1>2
<1>4. /\ NextRow(g.kind, rest) \in {"written", "looking", "inserting"}
      /\ NextRow(g.kind, rest) = "written" <=> rest = <<>>
      /\ NextRow(g.kind, rest) = "looking" => g.kind = "SUPPLIER"
  BY <1>2, <1>3, NextRowLeads
<1>5. h \in Handler
  BY <1>1, <1>3, <1>4 DEF Handler, Stages
<1>6. /\ h.made = g.made \cup {c} /\ h.joined = g.joined /\ h.rows = rest /\ h.op = "CREATE"
      /\ h.target = {} /\ h.pc = NextRow(g.kind, rest) /\ h.kind = g.kind
  BY <1>1, <1>2 DEF Handler
<1>7. Goes(r, h)
  BY DEF InsertPartner
<1>8. \A s \in Requests : c \notin req[s].made
  BY <1>1 DEF InsertPartner, Free, Blocks
<1>. HIDE DEF h
<1>9. Sound(h)
  BY <1>1, <1>4, <1>6 DEF Sound, InsertsAreNew, FileIsFollowed, ReadIsFresh
<1>10. \A s \in Requests : s # r => Apart(h, req[s])
  BY <1>6, <1>8 DEF Inv, Apart
<1>. QED
  BY <1>5, <1>7, <1>9, <1>10, GoesKeeps

\* A role added is one that nobody else is adding.
LEMMA InsertRoleKeeps ==
    ASSUME Inv, NEW r \in Requests, InsertRole(r)
    PROVE  Inv'
<1>. DEFINE g == req[r]  c == Head(g.rows)  rest == Tail(g.rows)
            h == [g EXCEPT !.joined = @ \cup {c}, !.rows = rest,
                           !.pc = NextRow("SUPPLIER", rest)]
<1>1. g \in Handler /\ Sound(g) /\ g.pc = "joining" /\ role[c].SUPPLIER = "absent"
  BY DEF Inv, TypeOK, InsertRole
<1>2. /\ g.rows \in Seq(Codes) /\ g.rows # <<>> /\ g.op = "CREATE" /\ g.target = {}
      /\ g.kind = "SUPPLIER" /\ Exists(c)
  BY <1>1 DEF Sound, FileIsFollowed, Handler
<1>3. c \in Codes /\ rest \in Seq(Codes)
  BY <1>2
<1>4. /\ NextRow("SUPPLIER", rest) \in {"written", "looking", "inserting"}
      /\ NextRow("SUPPLIER", rest) = "written" <=> rest = <<>>
  BY <1>3, NextRowLeads DEF Kinds
<1>5. h \in Handler
  BY <1>1, <1>3, <1>4 DEF Handler, Stages
<1>6. /\ h.joined = g.joined \cup {c} /\ h.made = g.made /\ h.rows = rest /\ h.op = "CREATE"
      /\ h.target = {} /\ h.pc = NextRow("SUPPLIER", rest) /\ h.kind = "SUPPLIER"
  BY <1>1, <1>2 DEF Handler
<1>7. Goes(r, h)
  BY DEF InsertRole
<1>8. \A s \in Requests : c \notin req[s].joined
  BY <1>1 DEF InsertRole, Free, Blocks
<1>. HIDE DEF h
<1>9. Sound(h)
  BY <1>1, <1>2, <1>4, <1>6 DEF Sound, InsertsAreNew, FileIsFollowed, ReadIsFresh
<1>10. \A s \in Requests : s # r => Apart(h, req[s])
  BY <1>6, <1>8 DEF Inv, Apart
<1>. QED
  BY <1>5, <1>7, <1>9, <1>10, GoesKeeps

\* The lookup of a supplier's partner finds a row, which will stay, or finds none.
LEMMA LookKeeps ==
    ASSUME Inv, NEW r \in Requests, LookFindsNothing(r) \/ LookFindsPartner(r)
    PROVE  Inv'
<1>. DEFINE g == req[r]  c == Head(g.rows)
<1>1. g \in Handler /\ Sound(g) /\ g.pc = "looking"
  BY DEF Inv, TypeOK, LookFindsNothing, LookFindsPartner
<1>2. /\ g.rows \in Seq(Codes) /\ g.rows # <<>> /\ g.op = "CREATE" /\ g.target = {}
      /\ c \in Codes
  BY <1>1 DEF Sound, FileIsFollowed, Handler
<1>3. CASE LookFindsNothing(r)
  <2>. DEFINE h == [g EXCEPT !.pc = "inserting"]
  <2>1. h \in Handler /\ Goes(r, h)
    BY <1>1, <1>3 DEF Handler, Stages, LookFindsNothing
  <2>2. Sound(h)
    BY <1>1, <1>2 DEF Handler, Sound, InsertsAreNew, FileIsFollowed, ReadIsFresh
  <2>3. \A s \in Requests : s # r => Apart(h, req[s])
    BY <1>1 DEF Inv, Apart, Handler
  <2>. QED
    BY <2>1, <2>2, <2>3, GoesKeeps
<1>4. CASE LookFindsPartner(r)
  <2>. DEFINE h == [g EXCEPT !.pc = "joining", !.seen[c] = partner[c].owner]
  <2>1. partner[c].owner \in Owners /\ Exists(c)
    BY <1>2, <1>4 DEF Inv, TypeOK, Partner, LookFindsPartner
  <2>2. h \in Handler
    BY <1>1, <1>2, <2>1 DEF Handler, Stages
  <2>3. Goes(r, h)
    BY <1>4 DEF LookFindsPartner
  <2>4. /\ h.made = g.made /\ h.joined = g.joined /\ h.rows = g.rows /\ h.op = "CREATE"
        /\ h.target = {} /\ h.pc = "joining" /\ h.kind = g.kind
    BY <1>1, <1>2 DEF Handler
  <2>. HIDE DEF h
  <2>5. Sound(h)
    BY <1>1, <1>2, <2>1, <2>4 DEF Sound, InsertsAreNew, FileIsFollowed, ReadIsFresh
  <2>6. \A s \in Requests : s # r => Apart(h, req[s])
    BY <2>4 DEF Inv, Apart
  <2>. QED
    BY <2>2, <2>3, <2>5, <2>6, GoesKeeps
<1>. QED
  BY <1>3, <1>4

\* The handlers that a commit leaves alone, and the one that it ends.
LEMMA CommitEnds ==
    ASSUME Inv, NEW r \in Requests, req' = [req EXCEPT ![r] = Idle], UNCHANGED issued,
           partner' \in [Codes -> Partner], role' \in [Codes -> [Kinds -> RoleStates]],
           audit' \in [Codes -> Seq(AuditEvent)], RolesNeedPartners',
           \A s \in Requests : s # r => Sound(req[s])'
    PROVE  Inv'
<1>1. /\ req'[r] = Idle
      /\ \A s \in Requests : s # r => req'[s] = req[s]
      /\ req' \in [Requests -> Handler]
  BY IdleIsSound DEF Inv, TypeOK
<1>2. TypeOK'
  BY <1>1 DEF Inv, TypeOK
<1>3. ASSUME NEW s \in Requests PROVE Sound(req[s])'
  <2>1. CASE s = r
    BY <1>1, <2>1 DEF Idle, Sound, InsertsAreNew, FileIsFollowed, ReadIsFresh
  <2>. QED
    BY <2>1
<1>4. ASSUME NEW s \in Requests, NEW q \in Requests, s # q
      PROVE  Apart(req[s], req[q])'
  BY <1>1, <1>4 DEF Inv, Apart, Idle
<1>. QED
  BY <1>2, <1>3, <1>4 DEF Inv

\* The commit of a creation leaves the other handlers sound: no key of theirs is one of its.
LEMMA CommitCreateKeeps ==
    ASSUME Inv, NEW r \in Requests, CommitCreate(r)
    PROVE  Inv'
<1>. DEFINE g == req[r]  new == g.made \cup g.joined
<1>1. g \in Handler /\ Sound(g) /\ g.op = "CREATE"
  BY DEF Inv, TypeOK, CommitCreate
<1>2. g.made \subseteq Codes /\ g.joined \subseteq Codes /\ g.kind \in Kinds /\ g.owner \in Owners
  BY <1>1 DEF Handler
<1>3. partner' \in [Codes -> Partner]
  BY <1>2 DEF CommitCreate, Inv, TypeOK, Partner
<1>4. /\ role' \in [Codes -> [Kinds -> RoleStates]]
      /\ \A c \in Codes, k \in Kinds :
            role'[c][k] = IF c \in new /\ k = g.kind THEN "active" ELSE role[c][k]
  BY <1>2 DEF CommitCreate, Inv, TypeOK, RoleStates
<1>5. audit' \in [Codes -> Seq(AuditEvent)]
  <2>1. ASSUME NEW c \in Codes PROVE audit'[c] \in Seq(AuditEvent)
    <3>. DEFINE made == [op |-> "CREATE", kind |-> g.kind, before |-> NoImage,
                         after |-> [owner |-> g.owner, role |-> "active"]]
                joined == [op |-> "JOIN", kind |-> g.kind, before |-> NoImage,
                           after |-> [owner |-> g.seen[c], role |-> "active"]]
    <3>1. g.seen[c] \in Owners /\ NoImage \in Image
      BY <1>1 DEF Handler, NoImage, Image, Owners, RoleStates
    <3>2. made \in AuditEvent /\ joined \in AuditEvent
      BY <1>2, <3>1 DEF AuditEvent, AuditOps, Image, RoleStates
    <3>3. audit'[c] \in {audit[c], Append(audit[c], made), Append(audit[c], joined)}
      BY DEF CommitCreate
    <3>. HIDE DEF made, joined
    <3>4. audit[c] \in Seq(AuditEvent)
      BY DEF Inv, TypeOK
    <3>5. Append(audit[c], made) \in Seq(AuditEvent)
      BY <3>2, <3>4
    <3>6. Append(audit[c], joined) \in Seq(AuditEvent)
      BY <3>2, <3>4
    <3>. QED
      BY <3>3, <3>4, <3>5, <3>6
  <2>2. audit' = [c \in Codes |-> audit'[c]]
    BY DEF CommitCreate
  <2>. QED
    BY <2>1, <2>2
<1>6. \A c \in Codes : /\ c \in g.made => ~Exists(c) /\ Exists(c)'
                       /\ c \notin g.made => partner'[c] = partner[c]
  BY <1>1, <1>2 DEF CommitCreate, Sound, InsertsAreNew, Exists
<1>7. RolesNeedPartners'
  BY <1>1, <1>2, <1>4, <1>6 DEF Inv, RolesNeedPartners, Sound, InsertsAreNew, Exists
<1>8. ASSUME NEW s \in Requests, s # r PROVE Sound(req[s])'
  <2>1. req'[s] = req[s] /\ req[s] \in Handler /\ Sound(req[s]) /\ Apart(req[s], g)
    BY <1>8 DEF CommitCreate, Inv, TypeOK
  <2>2. req[s].made \subseteq Codes /\ req[s].joined \subseteq Codes
        /\ req[s].target \subseteq Codes /\ req[s].kind \in Kinds
    BY <2>1 DEF Handler
  <2>3. InsertsAreNew(req[s])'
    BY <1>1, <1>4, <1>6, <2>1, <2>2 DEF Sound, InsertsAreNew, Apart, Exists, Kinds
  <2>4. FileIsFollowed(req[s])'
    <3>1. req[s].pc = "joining" => Head(req[s].rows) \in Codes /\ Exists(Head(req[s].rows))
      BY <2>1 DEF Sound, FileIsFollowed, Handler
    <3>. QED
      BY <1>6, <2>1, <3>1 DEF Sound, FileIsFollowed, Exists
  <2>5. ReadIsFresh(req[s])'
    <3>1. ASSUME NEW c \in req[s].target
          PROVE  /\ Exists(c) /\ role[c][req[s].kind] # "absent"
                 /\ partner'[c] = partner[c]
                 /\ role'[c][req[s].kind] = role[c][req[s].kind]
      <4>1. c \in Codes /\ Exists(c) /\ role[c][req[s].kind] # "absent"
        BY <2>1, <2>2 DEF Sound, ReadIsFresh
      <4>2. c \in g.joined => req[s].kind # g.kind
        BY <1>1, <4>1 DEF Sound, InsertsAreNew
      <4>. QED
        BY <1>4, <1>6, <2>2, <4>1, <4>2
    <3>. QED
      BY <2>1, <3>1 DEF Sound, ReadIsFresh, Exists
  <2>. QED
    BY <2>3, <2>4, <2>5 DEF Sound
<1>9. UNCHANGED issued /\ req' = [req EXCEPT ![r] = Idle]
  BY DEF CommitCreate
<1>. QED
  BY <1>3, <1>4, <1>5, <1>7, <1>8, <1>9, CommitEnds

-----------------------------------------------------------------------------
\* The steps of a mutation.

\* The second reading of a mutation.
LEMMA CheckKeeps ==
    ASSUME Inv, NEW r \in Requests, Check(r)
    PROVE  Inv'
<1>. DEFINE g == req[r]  h == [g EXCEPT !.pc = "checked"]
<1>1. g \in Handler /\ Sound(g) /\ g.pc = "loaded"
  BY DEF Inv, TypeOK, Check
<1>2. h \in Handler /\ Goes(r, h)
  BY <1>1 DEF Handler, Stages, Check
<1>3. Sound(h)
  <2>1. /\ h.op = g.op /\ h.kind = g.kind /\ h.actor = g.actor /\ h.owner = g.owner
        /\ h.rows = g.rows /\ h.made = g.made /\ h.joined = g.joined
        /\ h.target = g.target /\ h.expected = g.expected /\ h.before = g.before
        /\ h.pc = "checked"
    BY <1>1 DEF Handler
  <2>2. \A c \in g.target : role[c][g.kind] \in Changeable(g.op)
    BY DEF Check, Passes
  <2>. HIDE DEF h
  <2>3. InsertsAreNew(h) /\ FileIsFollowed(h)
    BY <1>1, <2>1 DEF Sound, InsertsAreNew, FileIsFollowed
  <2>4. ReadIsFresh(h)
    BY <1>1, <2>1, <2>2 DEF Sound, ReadIsFresh
  <2>. QED
    BY <2>3, <2>4 DEF Sound
<1>4. \A s \in Requests : s # r => Apart(h, req[s])
  BY <1>1 DEF Inv, Apart, Handler
<1>. QED
  BY <1>2, <1>3, <1>4, GoesKeeps

\* The conditional UPDATE: it matches the current version, and no other has written the row.
LEMMA WriteKeeps ==
    ASSUME Inv, NEW r \in Requests, Write(r)
    PROVE  Inv'
<1>. DEFINE g == req[r]  h == [g EXCEPT !.pc = "written"]
<1>1. g \in Handler /\ Sound(g) /\ g.pc = "checked" /\ Matches(r)
  BY DEF Inv, TypeOK, Write
<1>2. h \in Handler /\ Goes(r, h)
  BY <1>1 DEF Handler, Stages, Write
<1>3. Sound(h)
  <2>1. /\ h.op = g.op /\ h.kind = g.kind /\ h.actor = g.actor /\ h.owner = g.owner
        /\ h.rows = g.rows /\ h.made = g.made /\ h.joined = g.joined
        /\ h.target = g.target /\ h.expected = g.expected /\ h.before = g.before
        /\ h.pc = "written"
    BY <1>1 DEF Handler
  <2>2. \A c \in g.target : partner[c].version = g.expected
    BY <1>1 DEF Matches
  <2>3. g.op # "CREATE" /\ g.op # "NONE" /\ g.rows = <<>>
    BY <1>1 DEF Sound, FileIsFollowed
  <2>. HIDE DEF h
  <2>4. InsertsAreNew(h) /\ FileIsFollowed(h)
    BY <1>1, <2>1, <2>3 DEF Sound, InsertsAreNew, FileIsFollowed
  <2>5. ReadIsFresh(h)
    BY <1>1, <2>1, <2>2 DEF Sound, ReadIsFresh
  <2>. QED
    BY <2>4, <2>5 DEF Sound
<1>4. \A s \in Requests : s # r => Apart(h, req[s])
  BY <1>1 DEF Inv, Apart, Handler, Write, Free, Blocks
<1>. QED
  BY <1>2, <1>3, <1>4, GoesKeeps

\* What is audited of a mutation.
Mutation(r, c) ==
    [op |-> req[r].op, kind |-> req[r].kind, before |-> req[r].before,
     after |-> [owner |-> Owner(r, c), role |-> RoleAfter(r, c)]]

\* What CommitMutation does, said of the one partner that it changes.
LEMMA MutationEffect ==
    ASSUME Inv, NEW r \in Requests, CommitMutation(r)
    PROVE  \E c \in req[r].target :
             /\ c \in Codes
             /\ partner' = [partner EXCEPT ![c] = [version |-> partner[c].version + 1,
                                                  owner |-> Owner(r, c)]]
             /\ role' = [role EXCEPT ![c][req[r].kind] = RoleAfter(r, c)]
             /\ Owner(r, c) \in Owners /\ RoleAfter(r, c) \in RoleStates \ {"absent"}
             /\ Mutation(r, c) \in AuditEvent
             /\ audit' = [audit EXCEPT ![c] = Append(audit[c], Mutation(r, c))]
             /\ audit' \in [Codes -> Seq(AuditEvent)]
<1>1. PICK c \in req[r].target :
         /\ partner' = [partner EXCEPT ![c] = [version |-> @.version + 1,
                                              owner |-> Owner(r, c)]]
         /\ role' = [role EXCEPT ![c][req[r].kind] = RoleAfter(r, c)]
         /\ audit' = [audit EXCEPT ![c] = Append(@, Mutation(r, c))]
  BY DEF CommitMutation, Mutation
<1>2. req[r] \in Handler /\ Sound(req[r]) /\ req[r].pc = "written" /\ req[r].op # "CREATE"
  BY DEF Inv, TypeOK, CommitMutation
<1>3. /\ c \in Codes /\ req[r].kind \in Kinds /\ req[r].before \in Image
      /\ req[r].owner \in Owners /\ partner[c].owner \in Owners
      /\ role[c][req[r].kind] \in RoleStates \ {"absent"}
  BY <1>1, <1>2 DEF Handler, Inv, TypeOK, Partner, Sound, ReadIsFresh
<1>4. Owner(r, c) \in Owners /\ RoleAfter(r, c) \in RoleStates \ {"absent"}
  BY <1>3 DEF Owner, RoleAfter, RoleStates
<1>5. req[r].op \in AuditOps
  BY <1>2 DEF Sound, FileIsFollowed, Handler, AuditOps, Idle
<1>6. Mutation(r, c) \in AuditEvent
  BY <1>3, <1>4, <1>5 DEF Mutation, AuditEvent, Image
<1>7. audit' \in [Codes -> Seq(AuditEvent)]
  BY <1>1, <1>3, <1>6 DEF Inv, TypeOK
<1>. QED
  BY <1>1, <1>3, <1>4, <1>6, <1>7

\* The commit of a mutation leaves the other handlers sound: theirs is now an older version.
LEMMA CommitMutationKeeps ==
    ASSUME Inv, NEW r \in Requests, CommitMutation(r)
    PROVE  Inv'
<1>. DEFINE g == req[r]
<1>1. g \in Handler /\ Sound(g) /\ g.pc = "written" /\ g.kind \in Kinds
  BY DEF Inv, TypeOK, CommitMutation, Handler
<1>2. PICK c \in g.target :
         /\ c \in Codes
         /\ partner' = [partner EXCEPT ![c] = [version |-> partner[c].version + 1,
                                              owner |-> Owner(r, c)]]
         /\ role' = [role EXCEPT ![c][g.kind] = RoleAfter(r, c)]
         /\ Owner(r, c) \in Owners /\ RoleAfter(r, c) \in RoleStates \ {"absent"}
         /\ audit' \in [Codes -> Seq(AuditEvent)]
  BY MutationEffect
<1>3. /\ partner' \in [Codes -> Partner]
      /\ partner'[c].version = partner[c].version + 1
      /\ \A d \in Codes : d # c => partner'[d] = partner[d]
      /\ \A d \in Codes : partner[d].version \in Nat
  BY <1>2 DEF Inv, TypeOK, Partner
<1>4. /\ role' \in [Codes -> [Kinds -> RoleStates]]
      /\ role'[c][g.kind] # "absent" /\ role[c][g.kind] # "absent"
      /\ \A d \in Codes, k \in Kinds :
            d # c \/ k # g.kind => role'[d][k] = role[d][k]
  BY <1>1, <1>2 DEF Inv, TypeOK, Sound, ReadIsFresh
<1>5. \A d \in Codes : Exists(d) <=> Exists(d)'
  <2>1. Exists(c)
    BY <1>1, <1>2 DEF Sound, ReadIsFresh
  <2>. QED
    BY <1>2, <1>3, <2>1 DEF Exists
<1>6. RolesNeedPartners'
  BY <1>1, <1>2, <1>4, <1>5 DEF Inv, RolesNeedPartners, Sound, ReadIsFresh
<1>7. ASSUME NEW s \in Requests, s # r PROVE Sound(req[s])'
  <2>1. req'[s] = req[s] /\ req[s] \in Handler /\ Sound(req[s]) /\ Apart(req[s], g)
    BY <1>7 DEF CommitMutation, Inv, TypeOK
  <2>2. req[s].made \subseteq Codes /\ req[s].joined \subseteq Codes
        /\ req[s].target \subseteq Codes /\ req[s].kind \in Kinds /\ req[s].expected \in Nat
    BY <2>1 DEF Handler
  <2>3. InsertsAreNew(req[s])'
    <3>1. \A d \in req[s].joined : role'[d].SUPPLIER = role[d].SUPPLIER
      BY <1>4, <2>1, <2>2 DEF Sound, InsertsAreNew, Kinds
    <3>. QED
      BY <1>5, <2>1, <2>2, <3>1 DEF Sound, InsertsAreNew
  <2>4. FileIsFollowed(req[s])'
    <3>1. req[s].pc = "joining" => Head(req[s].rows) \in Codes /\ Exists(Head(req[s].rows))
      BY <2>1 DEF Sound, FileIsFollowed, Handler
    <3>. QED
      BY <1>5, <2>1, <3>1 DEF Sound, FileIsFollowed
  <2>5. ReadIsFresh(req[s])'
    <3>1. ASSUME NEW d \in req[s].target, d # c
          PROVE  partner'[d] = partner[d] /\ role'[d][req[s].kind] = role[d][req[s].kind]
      BY <1>3, <1>4, <2>2, <3>1
    <3>2. c \in req[s].target =>
             /\ req[s].pc # "written" /\ role'[c][req[s].kind] # "absent"
             /\ req[s].expected < partner'[c].version
      <4>. SUFFICES ASSUME c \in req[s].target
                    PROVE  /\ req[s].pc # "written" /\ role'[c][req[s].kind] # "absent"
                           /\ req[s].expected < partner'[c].version
        OBVIOUS
      <4>1. /\ role[c][req[s].kind] # "absent"
            /\ req[s].expected <= partner[c].version
        BY <2>1 DEF Sound, ReadIsFresh
      <4>2. req[s].pc # "written"
        BY <1>1, <1>2, <2>1 DEF Apart
      <4>. QED
        BY <1>2, <1>3, <1>4, <2>2, <4>1, <4>2
    <3>3. \A d \in req[s].target : Exists(d)'
      BY <1>5, <2>1, <2>2 DEF Sound, ReadIsFresh
    <3>. QED
      BY <1>3, <2>1, <2>2, <3>1, <3>2, <3>3, SMTT(30) DEF Sound, ReadIsFresh
  <2>. QED
    BY <2>3, <2>4, <2>5 DEF Sound
<1>8. UNCHANGED issued /\ req' = [req EXCEPT ![r] = Idle]
  BY DEF CommitMutation
<1>. QED
  BY <1>2, <1>3, <1>4, <1>6, <1>7, <1>8, CommitEnds

-----------------------------------------------------------------------------
\* The invariant.

\* The invariant holds of an empty database.
LEMMA InitInv == Init => Inv
<1>. SUFFICES ASSUME Init PROVE Inv
  OBVIOUS
<1>1. TypeOK
  BY IdleIsSound, BoundsAssumption
     DEF Init, TypeOK, Partner, Owners, RoleStates
<1>2. RolesNeedPartners
  BY DEF Init, RolesNeedPartners
<1>3. \A r \in Requests : req[r] = Idle
  BY DEF Init
<1>. QED
  BY <1>1, <1>2, <1>3, IdleIsSound DEF Inv

\* Every step keeps it: one case for each action.
LEMMA StepInv == Inv /\ [Next]_vars => Inv'
<1>. SUFFICES ASSUME Inv, [Next]_vars PROVE Inv'
  OBVIOUS
<1>1. CASE UNCHANGED vars
  BY <1>1 DEF vars, Inv, TypeOK, RolesNeedPartners, Sound, InsertsAreNew, FileIsFollowed,
              ReadIsFresh, Apart, Exists
<1>2. ASSUME NEW r \in Requests, Call(r) PROVE Inv'
  BY <1>2, CallCreateKeeps, CallMutationKeeps DEF Call
<1>3. ASSUME NEW r \in Requests, Step(r) PROVE Inv'
  <2>1. CASE InsertPartner(r)
    BY <2>1, InsertPartnerKeeps
  <2>2. CASE LookFindsNothing(r) \/ LookFindsPartner(r)
    BY <2>2, LookKeeps
  <2>3. CASE InsertRole(r)
    BY <2>3, InsertRoleKeeps
  <2>4. CASE CommitCreate(r)
    BY <2>4, CommitCreateKeeps
  <2>5. CASE Check(r)
    BY <2>5, CheckKeeps
  <2>6. CASE Write(r)
    BY <2>6, WriteKeeps
  <2>7. CASE CommitMutation(r)
    BY <2>7, CommitMutationKeeps
  <2>8. CASE Undo(r)
    BY <2>8, UndoKeeps
  <2>. QED
    BY <1>3, <2>1, <2>2, <2>3, <2>4, <2>5, <2>6, <2>7, <2>8
       DEF Step, CodeConflict, LookFindsConflict, RoleConflict, NotFound, VersionConflict,
           OutOfScope, DeadlockVictim
<1>4. ASSUME NEW r \in Requests, Fail(r) PROVE Inv'
  BY <1>4, UndoKeeps DEF Fail
<1>. QED
  BY <1>1, <1>2, <1>3, <1>4 DEF Next

\* The types, for any number of partners, requests and rows of an import.
THEOREM PartnersTypeCorrect == Spec => []TypeOK
<1>1. Inv => TypeOK
  BY DEF Inv
<1>. QED
  BY InitInv, StepInv, <1>1, PTL DEF Spec

-----------------------------------------------------------------------------
\* What only the commits change.

\* Nothing but a commit changes what others see.
LEMMA OnlyCommits ==
    ASSUME [Next]_vars,
           \A r \in Requests : ~CommitCreate(r) /\ ~CommitMutation(r)
    PROVE  UNCHANGED <<partner, role, audit>>
<1>1. CASE UNCHANGED vars
  BY <1>1 DEF vars
<1>2. ASSUME NEW r \in Requests, Call(r) PROVE UNCHANGED <<partner, role, audit>>
  <2>1. ASSUME NEW kind, NEW file, NEW actor, NEW owner,
               CallCreate(r, kind, file, actor, owner)
        PROVE  UNCHANGED <<partner, role, audit>>
    BY <2>1 DEF CallCreate, Begin
  <2>2. ASSUME NEW op, NEW kind, NEW c, NEW actor, NEW owner,
               CallMutation(r, op, kind, c, actor, owner)
        PROVE  UNCHANGED <<partner, role, audit>>
    <3>1. PICK v \in 1..partner[c].version :
             Begin(r, [Idle EXCEPT
                         !.pc = "loaded", !.op = op, !.kind = kind, !.actor = actor,
                         !.owner = owner, !.target = {c}, !.expected = v,
                         !.before = [owner |-> partner[c].owner, role |-> role[c][kind]]])
      BY <2>2 DEF CallMutation
    <3>. QED
      BY <3>1 DEF Begin
  <2>. QED
    BY <1>2, <2>1, <2>2 DEF Call
<1>3. ASSUME NEW r \in Requests, Undo(r) PROVE UNCHANGED <<partner, role, audit>>
  BY <1>3 DEF Undo, Goes
<1>4. ASSUME NEW r \in Requests, Step(r) PROVE UNCHANGED <<partner, role, audit>>
  <2>1. CASE InsertPartner(r) \/ InsertRole(r)
    BY <2>1 DEF InsertPartner, InsertRole, Goes
  <2>2. CASE LookFindsNothing(r) \/ LookFindsPartner(r)
    BY <2>2 DEF LookFindsNothing, LookFindsPartner, Goes
  <2>3. CASE Check(r) \/ Write(r)
    BY <2>3 DEF Check, Write, Goes
  <2>4. CASE Undo(r)
    BY <1>3, <2>4
  <2>. QED
    BY <1>4, <2>1, <2>2, <2>3, <2>4
       DEF Step, CodeConflict, LookFindsConflict, RoleConflict, NotFound, VersionConflict,
           OutOfScope, DeadlockVictim
<1>5. ASSUME NEW r \in Requests, Fail(r) PROVE UNCHANGED <<partner, role, audit>>
  BY <1>3, <1>5 DEF Fail
<1>. QED
  BY <1>1, <1>2, <1>4, <1>5 DEF Next

\* A creation changes no partner and no role that is there.
LEMMA CreationOnlyAdds ==
    ASSUME Inv, NEW r \in Requests, CommitCreate(r), NEW c \in Codes
    PROVE  /\ Exists(c) => partner'[c] = partner[c]
           /\ \A k \in Kinds : role[c][k] # "absent" => role'[c][k] = role[c][k]
<1>1. Sound(req[r]) /\ req[r] \in Handler
  BY DEF Inv, TypeOK
<1>2. Exists(c) => partner'[c] = partner[c]
  BY <1>1 DEF CommitCreate, Sound, InsertsAreNew
<1>3. ASSUME NEW k \in Kinds, role[c][k] # "absent" PROVE role'[c][k] = role[c][k]
  <2>1. Exists(c)
    BY <1>3 DEF Inv, RolesNeedPartners
  <2>2. c \in req[r].joined => k # req[r].kind
    BY <1>1, <1>3 DEF Sound, InsertsAreNew
  <2>. QED
    BY <1>1, <1>3, <2>1, <2>2 DEF CommitCreate, Sound, InsertsAreNew, Inv, TypeOK
<1>. QED
  BY <1>2, <1>3

\* However requests for the two roles overlap, a change of a partner or of a role that is
\* there replaces the version that its client named.
THEOREM VersionsAreCounted == Spec => VersionsCount
<1>1. ASSUME Inv, [Next]_vars, NEW c \in Codes, Exists(c),
             partner'[c] # partner[c] \/ \E k \in Kinds :
                role[c][k] # "absent" /\ role'[c][k] # role[c][k]
      PROVE  /\ partner'[c].version = partner[c].version + 1
             /\ \E r \in Requests : Commits(r, c) /\ req[r].expected = partner[c].version
  <2>1. PICK r \in Requests : CommitMutation(r)
    BY <1>1, OnlyCommits, CreationOnlyAdds
  <2>2. PICK d \in req[r].target :
           /\ d \in Codes
           /\ partner' = [partner EXCEPT ![d] = [version |-> partner[d].version + 1,
                                                owner |-> Owner(r, d)]]
           /\ role' = [role EXCEPT ![d][req[r].kind] = RoleAfter(r, d)]
    BY <1>1, <2>1, MutationEffect
  <2>3. d = c
    BY <1>1, <2>2 DEF Inv, TypeOK
  <2>4. Commits(r, c)
    BY <1>1, <2>1, <2>2, <2>3 DEF Commits, CommitMutation, Inv, TypeOK, Idle
  <2>5. req[r].expected = partner[c].version
    BY <1>1, <2>1, <2>2, <2>3 DEF Inv, Sound, ReadIsFresh, CommitMutation
  <2>6. partner'[c].version = partner[c].version + 1
    BY <1>1, <2>2, <2>3 DEF Inv, TypeOK
  <2>. QED
    BY <2>4, <2>5, <2>6
<1>2. Inv /\ [Next]_vars =>
         [\A c \in Codes :
            LET touched == \E k \in Kinds :
                              role[c][k] # "absent" /\ role'[c][k] # role[c][k]
            IN  Exists(c) /\ (partner'[c] # partner[c] \/ touched) =>
                   /\ partner'[c].version = partner[c].version + 1
                   /\ \E r \in Requests :
                         Commits(r, c) /\ req[r].expected = partner[c].version]_vars
  BY <1>1
<1>. QED
  BY InitInv, StepInv, <1>2, PTL DEF Spec, VersionsCount

\* Scope and the right to assign owners hold at the commit, however late it comes.
THEOREM RightsAreKept == Spec => RightsHold
<1>1. ASSUME Inv, [Next]_vars, NEW r \in Requests, NEW c \in Codes,
             Commits(r, c), partner'[c] # partner[c]
      PROVE  /\ InScope(req[r].actor, partner[c].owner)
             /\ InScope(req[r].actor, partner'[c].owner)
             /\ \/ req[r].actor.assign
                \/ partner'[c].owner \in {partner[c].owner, NoOwner}
  <2>1. Sound(req[r]) /\ req[r].op # "CREATE" /\ Exists(c)
    BY <1>1 DEF Commits, Inv, Sound, FileIsFollowed, ReadIsFresh
  <2>2. PICK s \in Requests : CommitMutation(s)
    BY <1>1, <2>1, OnlyCommits, CreationOnlyAdds
  <2>3. s = r
    BY <1>1, <2>2 DEF Commits, CommitMutation, Inv, TypeOK
  <2>4. partner'[c].owner = Owner(r, c)
    <3>1. PICK d \in req[r].target :
             /\ d \in Codes
             /\ partner' = [partner EXCEPT ![d] = [version |-> partner[d].version + 1,
                                                  owner |-> Owner(r, d)]]
      BY <1>1, <2>2, <2>3, MutationEffect
    <3>. QED
      BY <1>1, <3>1 DEF Inv, TypeOK
  <2>5. InScope(req[r].actor, Owner(r, c))
    BY <1>1, <2>2, <2>3 DEF Commits, CommitMutation, StaysVisible
  <2>6. /\ InScope(req[r].actor, partner[c].owner)
        /\ req[r].op = "UPDATE" =>
              MayName(req[r].kind, req[r].actor, req[r].owner, partner[c].owner)
    BY <1>1, <2>1 DEF Commits, Sound, ReadIsFresh
  <2>. QED
    BY <2>4, <2>5, <2>6 DEF Owner, MayName
<1>2. Inv /\ [Next]_vars =>
         [\A r \in Requests, c \in Codes :
            Commits(r, c) /\ partner'[c] # partner[c] =>
               /\ InScope(req[r].actor, partner[c].owner)
               /\ InScope(req[r].actor, partner'[c].owner)
               /\ \/ req[r].actor.assign
                  \/ partner'[c].owner \in {partner[c].owner, NoOwner}]_vars
  BY <1>1
<1>. QED
  BY InitInv, StepInv, <1>2, PTL DEF Spec, RightsHold

\* An import is all or nothing, however many rows it has and whatever it waits for.
THEOREM ImportsAreAtomic == Spec => ImportIsAtomic
<1>1. ASSUME Inv, [Next]_vars, NEW c \in Codes, NEW k \in Kinds,
             role[c][k] = "absent", role'[c][k] # "absent"
      PROVE  \E r \in Requests :
                /\ req[r].op = "CREATE" /\ req[r].kind = k /\ c \in Asked(r)
                /\ \A d \in Asked(r) : role[d][k] = "absent" /\ role'[d][k] = "active"
  <2>1. \A r \in Requests : ~CommitMutation(r)
    <3>1. ASSUME NEW r \in Requests, CommitMutation(r) PROVE FALSE
      <4>1. PICK d \in req[r].target :
               d \in Codes /\ role' = [role EXCEPT ![d][req[r].kind] = RoleAfter(r, d)]
        BY <1>1, <3>1, MutationEffect
      <4>2. role[d][req[r].kind] # "absent" /\ req[r].kind \in Kinds
        BY <1>1, <4>1 DEF Inv, TypeOK, Handler, Sound, ReadIsFresh
      <4>. QED
        BY <1>1, <4>1, <4>2 DEF Inv, TypeOK
    <3>. QED
      BY <3>1
  <2>2. PICK r \in Requests : CommitCreate(r)
    BY <1>1, <2>1, OnlyCommits
  <2>3. /\ req[r] \in Handler /\ Sound(req[r]) /\ req[r].op = "CREATE" /\ req[r].pc = "written"
        /\ req[r].rows = <<>>
    BY <1>1, <2>2 DEF Inv, TypeOK, CommitCreate, Sound, FileIsFollowed
  <2>4. Asked(r) = req[r].made \cup req[r].joined /\ Asked(r) \subseteq Codes
    BY <2>3 DEF Asked, ToSet, Handler
  <2>5. c \in Asked(r) /\ req[r].kind = k
    BY <1>1, <2>2, <2>4 DEF CommitCreate, Inv, TypeOK
  <2>6. ASSUME NEW d \in Asked(r) PROVE role[d][k] = "absent" /\ role'[d][k] = "active"
    <3>1. d \in Codes
      BY <2>4
    <3>2. role[d][k] = "absent"
      BY <1>1, <2>3, <2>4, <2>5, <3>1
         DEF Sound, InsertsAreNew, Inv, RolesNeedPartners
    <3>3. role'[d][k] = "active"
      BY <1>1, <2>2, <2>4, <2>5, <3>1 DEF CommitCreate, Inv, TypeOK
    <3>. QED
      BY <3>2, <3>3
  <2>. QED
    BY <2>3, <2>5, <2>6
<1>2. Inv /\ [Next]_vars =>
         [\A c \in Codes, k \in Kinds :
            role[c][k] = "absent" /\ role'[c][k] # "absent" =>
               \E r \in Requests :
                  /\ req[r].op = "CREATE" /\ req[r].kind = k /\ c \in Asked(r)
                  /\ \A d \in Asked(r) :
                        role[d][k] = "absent" /\ role'[d][k] = "active"]_vars
  BY <1>1
<1>. QED
  BY InitInv, StepInv, <1>2, PTL DEF Spec, ImportIsAtomic

-----------------------------------------------------------------------------
\* The trails.

\* A place added at the end comes next after the last one, is the first when there was none,
\* and moves nothing else.
LEMMA PlacesGrow ==
    ASSUME NEW n \in Nat, NEW S \in SUBSET (1..n)
    PROVE  LET T == S \cup {n + 1} IN
           /\ \A i \in S : IsFirst(i, T) <=> IsFirst(i, S)
           /\ IsFirst(n + 1, T) <=> S = {}
           /\ \A i \in S : ~IsLast(i, T)
           /\ IsLast(n + 1, T)
           /\ \A i, j \in S : Follows(j, i, T) <=> Follows(j, i, S)
           /\ \A i \in S : Follows(n + 1, i, T) <=> IsLast(i, S)
           /\ \A j \in T : ~Follows(j, n + 1, T)
<1>. DEFINE T == S \cup {n + 1}
<1>1. \A i \in S : i \in Int /\ i <= n /\ i < n + 1
  OBVIOUS
<1>2. \A i \in S : IsFirst(i, T) <=> IsFirst(i, S)
  BY <1>1 DEF IsFirst
<1>3. IsFirst(n + 1, T) <=> S = {}
  BY <1>1 DEF IsFirst
<1>4. (\A i \in S : ~IsLast(i, T)) /\ IsLast(n + 1, T)
  BY <1>1 DEF IsLast
<1>5. \A i, j \in S : Follows(j, i, T) <=> Follows(j, i, S)
  BY <1>1 DEF Follows
<1>6. \A i \in S : Follows(n + 1, i, T) <=> IsLast(i, S)
  BY <1>1 DEF Follows, IsLast
<1>7. \A j \in T : ~Follows(j, n + 1, T)
  BY <1>1 DEF Follows
<1>. QED
  BY <1>2, <1>3, <1>4, <1>5, <1>6, <1>7

\* The places of an entry added to a trail.
LEMMA EntryAdded ==
    ASSUME NEW trail \in Seq(AuditEvent), NEW e \in AuditEvent
    PROVE  LET longer == Append(trail, e)  n == Len(trail) IN
           /\ n \in Nat
           /\ longer[n + 1] = e
           /\ \A i \in 1..n : longer[i] = trail[i]
           /\ Rewrites(trail) \in SUBSET (1..n)
           /\ Rewrites(longer) =
                 IF e.op = "JOIN" THEN Rewrites(trail) ELSE Rewrites(trail) \cup {n + 1}
           /\ \A k : /\ OfRole(trail, k) \in SUBSET (1..n)
                     /\ OfRole(longer, k) =
                           IF e.kind = k THEN OfRole(trail, k) \cup {n + 1}
                           ELSE OfRole(trail, k)
<1>. DEFINE longer == Append(trail, e)  n == Len(trail)
<1>1. /\ n \in Nat /\ Len(longer) = n + 1 /\ longer[n + 1] = e
      /\ \A i \in 1..n : longer[i] = trail[i]
  OBVIOUS
<1>2. \A i : i \in 1..Len(longer) <=> i \in 1..n \/ i = n + 1
  BY <1>1
<1>. HIDE DEF longer, n
<1>3. \A i : /\ i \in Rewrites(longer) <=> i \in 1..Len(longer) /\ longer[i].op # "JOIN"
             /\ i \in Rewrites(trail) <=> i \in 1..n /\ trail[i].op # "JOIN"
  BY DEF Rewrites, n
<1>4. Rewrites(longer) =
         IF e.op = "JOIN" THEN Rewrites(trail) ELSE Rewrites(trail) \cup {n + 1}
  <2>1. \A i : i \in Rewrites(longer) <=>
                  i \in Rewrites(trail) \/ (i = n + 1 /\ e.op # "JOIN")
    BY <1>1, <1>2, <1>3
  <2>. QED
    BY <2>1
<1>5. \A i, k : /\ i \in OfRole(longer, k) <=> i \in 1..Len(longer) /\ longer[i].kind = k
                /\ i \in OfRole(trail, k) <=> i \in 1..n /\ trail[i].kind = k
  BY DEF OfRole, n
<1>6. ASSUME NEW k
      PROVE  OfRole(longer, k) = IF e.kind = k THEN OfRole(trail, k) \cup {n + 1}
                                 ELSE OfRole(trail, k)
  <2>1. \A i : i \in OfRole(longer, k) <=>
                  i \in OfRole(trail, k) \/ (i = n + 1 /\ e.kind = k)
    BY <1>1, <1>2, <1>5
  <2>. QED
    BY <2>1
<1>. QED
  BY <1>1, <1>3, <1>4, <1>5, <1>6 DEF longer, n

\* An entry that starts from the columns of the partner and says what they have become
\* explains them.
LEMMA ColumnsStep ==
    ASSUME NEW trail \in Seq(AuditEvent), NEW e \in AuditEvent, NEW row, NEW now,
           ColumnsExplained(trail, row),
           e.op = "JOIN" => now = row,
           e.op # "JOIN" => /\ now.version # 0 /\ now.owner = e.after.owner
                            /\ e.op = "CREATE" <=> row.version = 0
                            /\ row.version # 0 => e.before.owner = row.owner
    PROVE  ColumnsExplained(Append(trail, e), now)
<1>. DEFINE longer == Append(trail, e)  n == Len(trail)  S == Rewrites(trail)
            T == S \cup {n + 1}
<1>1. /\ n \in Nat /\ longer[n + 1] = e
      /\ \A i \in 1..n : longer[i] = trail[i]
      /\ S \in SUBSET (1..n)
      /\ Rewrites(longer) = IF e.op = "JOIN" THEN S ELSE T
  BY EntryAdded
<1>. HIDE DEF longer, n
<1>2. /\ S = {} <=> row.version = 0
      /\ \A i \in S : trail[i].op = "CREATE" <=> IsFirst(i, S)
      /\ \A i, j \in S : Follows(j, i, S) => trail[j].before.owner = trail[i].after.owner
      /\ \A i \in S : IsLast(i, S) => row.owner = trail[i].after.owner
  BY DEF ColumnsExplained
<1>3. /\ \A i \in S : IsFirst(i, T) <=> IsFirst(i, S)
      /\ IsFirst(n + 1, T) <=> S = {}
      /\ \A i \in S : ~IsLast(i, T)
      /\ \A i, j \in S : Follows(j, i, T) <=> Follows(j, i, S)
      /\ \A i \in S : Follows(n + 1, i, T) <=> IsLast(i, S)
      /\ \A j \in T : ~Follows(j, n + 1, T)
  BY <1>1, PlacesGrow
<1>. HIDE DEF S
<1>4. \A i \in S : longer[i] = trail[i]
  BY <1>1
<1>5. CASE e.op = "JOIN"
  <2>1. Rewrites(longer) = S /\ now = row
    BY <1>1, <1>5
  <2>2. \A i \in S : longer[i].op = "CREATE" <=> IsFirst(i, S)
    BY <1>2, <1>4
  <2>3. \A i, j \in S : Follows(j, i, S) => longer[j].before.owner = longer[i].after.owner
    BY <1>2, <1>4
  <2>4. \A i \in S : IsLast(i, S) => row.owner = longer[i].after.owner
    BY <1>2, <1>4
  <2>. QED
    BY <1>2, <2>1, <2>2, <2>3, <2>4 DEF ColumnsExplained, longer
<1>6. CASE e.op # "JOIN"
  <2>1. Rewrites(longer) = T /\ T # {} /\ now.version # 0
    BY <1>1, <1>6
  <2>2. ASSUME NEW i \in T PROVE longer[i].op = "CREATE" <=> IsFirst(i, T)
    BY <1>1, <1>2, <1>3, <1>4, <1>6
  <2>3. ASSUME NEW i \in T, NEW j \in T, Follows(j, i, T)
        PROVE  longer[j].before.owner = longer[i].after.owner
    <3>1. i \in S
      BY <1>3, <2>3
    <3>2. CASE j = n + 1
      <4>1. IsLast(i, S) /\ S # {}
        BY <1>3, <2>3, <3>1, <3>2
      <4>. QED
        BY <1>1, <1>2, <1>4, <1>6, <3>1, <3>2, <4>1
    <3>3. CASE j \in S
      <4>1. Follows(j, i, S)
        BY <1>3, <2>3, <3>1, <3>3
      <4>. QED
        BY <1>2, <1>4, <3>1, <3>3, <4>1
    <3>. QED
      BY <3>2, <3>3
  <2>4. ASSUME NEW i \in T, IsLast(i, T) PROVE now.owner = longer[i].after.owner
    BY <1>1, <1>3, <1>6, <2>4
  <2>. HIDE DEF T
  <2>. QED
    BY <2>1, <2>2, <2>3, <2>4 DEF ColumnsExplained, longer
<1>. QED
  BY <1>5, <1>6

\* The same of a role, and an entry about the other role changes nothing.
LEMMA RoleStep ==
    ASSUME NEW trail \in Seq(AuditEvent), NEW e \in AuditEvent, NEW k, NEW state, NEW now,
           RoleExplained(trail, k, state),
           e.kind # k => now = state,
           e.kind = k => /\ now # "absent" /\ now = e.after.role
                         /\ e.op \in {"CREATE", "JOIN"} <=> state = "absent"
                         /\ e.before.role = state
                         /\ state = FoundBy(e.op)
    PROVE  RoleExplained(Append(trail, e), k, now)
<1>. DEFINE longer == Append(trail, e)  n == Len(trail)  S == OfRole(trail, k)
            T == S \cup {n + 1}
            New(op) == op \in {"CREATE", "JOIN"}
<1>1. /\ n \in Nat /\ longer[n + 1] = e
      /\ \A i \in 1..n : longer[i] = trail[i]
      /\ S \in SUBSET (1..n)
      /\ OfRole(longer, k) = IF e.kind = k THEN T ELSE S
  BY EntryAdded
<1>. HIDE DEF longer, n
<1>2. /\ S = {} <=> state = "absent"
      /\ \A i \in S : New(trail[i].op) <=> IsFirst(i, S)
      /\ \A i \in S : trail[i].before.role = FoundBy(trail[i].op)
      /\ \A i, j \in S : Follows(j, i, S) => trail[j].before.role = trail[i].after.role
      /\ \A i \in S : IsLast(i, S) => state = trail[i].after.role
  BY DEF RoleExplained
<1>3. /\ \A i \in S : IsFirst(i, T) <=> IsFirst(i, S)
      /\ IsFirst(n + 1, T) <=> S = {}
      /\ \A i \in S : ~IsLast(i, T)
      /\ \A i, j \in S : Follows(j, i, T) <=> Follows(j, i, S)
      /\ \A i \in S : Follows(n + 1, i, T) <=> IsLast(i, S)
      /\ \A j \in T : ~Follows(j, n + 1, T)
  BY <1>1, PlacesGrow
<1>. HIDE DEF S
<1>4. \A i \in S : longer[i] = trail[i]
  BY <1>1
<1>5. CASE e.kind # k
  <2>1. OfRole(longer, k) = S /\ now = state
    BY <1>1, <1>5
  <2>. HIDE DEF New
  <2>2. \A i \in S : New(longer[i].op) <=> IsFirst(i, S)
    BY <1>2, <1>4
  <2>3. \A i \in S : longer[i].before.role = FoundBy(longer[i].op)
    BY <1>2, <1>4
  <2>4. \A i, j \in S : Follows(j, i, S) => longer[j].before.role = longer[i].after.role
    BY <1>2, <1>4
  <2>5. \A i \in S : IsLast(i, S) => state = longer[i].after.role
    BY <1>2, <1>4
  <2>. QED
    BY <1>2, <2>1, <2>2, <2>3, <2>4, <2>5 DEF RoleExplained, longer, New
<1>6. CASE e.kind = k
  <2>1. OfRole(longer, k) = T /\ T # {} /\ now # "absent"
    BY <1>1, <1>6
  <2>. HIDE DEF New
  <2>2. New(e.op) <=> S = {}
    BY <1>2, <1>6 DEF New
  <2>3. ASSUME NEW i \in T PROVE New(longer[i].op) <=> IsFirst(i, T)
    BY <1>1, <1>2, <1>3, <1>4, <2>2
  <2>4. ASSUME NEW i \in T PROVE longer[i].before.role = FoundBy(longer[i].op)
    BY <1>1, <1>2, <1>4, <1>6
  <2>5. ASSUME NEW i \in T, NEW j \in T, Follows(j, i, T)
        PROVE  longer[j].before.role = longer[i].after.role
    <3>1. i \in S
      BY <1>3, <2>5
    <3>2. CASE j = n + 1
      <4>1. IsLast(i, S) /\ S # {}
        BY <1>3, <2>5, <3>1, <3>2
      <4>. QED
        BY <1>1, <1>2, <1>4, <1>6, <3>1, <3>2, <4>1
    <3>3. CASE j \in S
      <4>1. Follows(j, i, S)
        BY <1>3, <2>5, <3>1, <3>3
      <4>. QED
        BY <1>2, <1>4, <3>1, <3>3, <4>1
    <3>. QED
      BY <3>2, <3>3
  <2>6. ASSUME NEW i \in T, IsLast(i, T) PROVE now = longer[i].after.role
    BY <1>1, <1>3, <1>6, <2>6
  <2>. HIDE DEF T
  <2>. QED
    BY <2>1, <2>3, <2>4, <2>5, <2>6 DEF RoleExplained, longer, New
<1>. QED
  BY <1>5, <1>6

\* A creation explains the partners that it makes and the roles that it adds.
LEMMA CreationIsExplained ==
    ASSUME Inv, TrailExplainsPartner, NEW r \in Requests, CommitCreate(r), NEW c \in Codes
    PROVE  /\ ColumnsExplained(audit'[c], partner'[c])
           /\ \A k \in Kinds : RoleExplained(audit'[c], k, role'[c][k])
<1>. DEFINE g == req[r]
            made == [op |-> "CREATE", kind |-> g.kind, before |-> NoImage,
                     after |-> [owner |-> g.owner, role |-> "active"]]
            joined == [op |-> "JOIN", kind |-> g.kind, before |-> NoImage,
                       after |-> [owner |-> g.seen[c], role |-> "active"]]
<1>1. g \in Handler /\ Sound(g) /\ g.op = "CREATE"
  BY DEF Inv, TypeOK, CommitCreate
<1>2. /\ g.made \subseteq Codes /\ g.joined \subseteq Codes /\ g.kind \in Kinds
      /\ g.owner \in Owners /\ g.seen[c] \in Owners
  BY <1>1 DEF Handler
<1>3. made \in AuditEvent /\ joined \in AuditEvent
  BY <1>2 DEF AuditEvent, AuditOps, Image, RoleStates, NoImage, Owners
<1>4. /\ audit[c] \in Seq(AuditEvent) /\ ColumnsExplained(audit[c], partner[c])
      /\ \A k \in Kinds : RoleExplained(audit[c], k, role[c][k])
  BY DEF Inv, TypeOK, TrailExplainsPartner
<1>5. CASE c \in g.made
  <2>1. /\ audit'[c] = Append(audit[c], made)
        /\ partner'[c] = [version |-> 1, owner |-> g.owner]
        /\ \A k \in Kinds : role'[c][k] = IF k = g.kind THEN "active" ELSE role[c][k]
    BY <1>2, <1>5 DEF CommitCreate, Inv, TypeOK
  <2>2. partner[c].version = 0 /\ \A k \in Kinds : role[c][k] = "absent"
    BY <1>1, <1>5 DEF Sound, InsertsAreNew, Exists, Inv, RolesNeedPartners, TypeOK, Partner
  <2>3. /\ made.op = "CREATE" /\ made.kind = g.kind /\ made.after.owner = g.owner
        /\ made.after.role = "active" /\ made.before.role = "absent"
    BY DEF NoImage
  <2>. HIDE DEF made
  <2>4. ColumnsExplained(audit'[c], partner'[c])
    BY <1>3, <1>4, <2>1, <2>2, <2>3, ColumnsStep
  <2>5. ASSUME NEW k \in Kinds PROVE RoleExplained(audit'[c], k, role'[c][k])
    BY <1>3, <1>4, <2>1, <2>2, <2>3, RoleStep DEF FoundBy
  <2>. QED
    BY <2>4, <2>5
<1>6. CASE c \in g.joined
  <2>1. /\ c \notin g.made /\ g.kind = "SUPPLIER" /\ role[c].SUPPLIER = "absent"
    BY <1>1, <1>6 DEF Sound, InsertsAreNew
  <2>2. /\ audit'[c] = Append(audit[c], joined)
        /\ partner'[c] = partner[c]
        /\ \A k \in Kinds : role'[c][k] = IF k = g.kind THEN "active" ELSE role[c][k]
    BY <1>2, <1>6, <2>1 DEF CommitCreate, Inv, TypeOK
  <2>3. /\ joined.op = "JOIN" /\ joined.kind = g.kind
        /\ joined.after.role = "active" /\ joined.before.role = "absent"
    BY DEF NoImage
  <2>. HIDE DEF joined
  <2>4. ColumnsExplained(audit'[c], partner'[c])
    <3>1. ColumnsExplained(Append(audit[c], joined), partner[c])
      BY <1>3, <1>4, <2>3, ColumnsStep
    <3>. QED
      BY <2>2, <3>1
  <2>5. ASSUME NEW k \in Kinds PROVE RoleExplained(audit'[c], k, role'[c][k])
    BY <1>3, <1>4, <2>1, <2>2, <2>3, RoleStep DEF FoundBy
  <2>. QED
    BY <2>4, <2>5
<1>7. CASE c \notin g.made \cup g.joined
  <2>1. audit'[c] = audit[c] /\ partner'[c] = partner[c] /\ role'[c] = role[c]
    BY <1>7 DEF CommitCreate
  <2>. QED
    BY <1>4, <2>1
<1>. QED
  BY <1>5, <1>6, <1>7

\* A mutation is audited from the columns and the state that it replaces: its version is
\* still the partner's.
LEMMA MutationIsExplained ==
    ASSUME Inv, TrailExplainsPartner, NEW r \in Requests, CommitMutation(r), NEW d \in Codes
    PROVE  /\ ColumnsExplained(audit'[d], partner'[d])
           /\ \A k \in Kinds : RoleExplained(audit'[d], k, role'[d][k])
<1>. DEFINE g == req[r]
<1>1. /\ g \in Handler /\ Sound(g) /\ g.pc = "written" /\ g.op # "CREATE" /\ g.kind \in Kinds
      /\ StaysVisible(r)
  BY DEF Inv, TypeOK, CommitMutation, Handler
<1>2. PICK c \in g.target :
         /\ c \in Codes
         /\ partner' = [partner EXCEPT ![c] = [version |-> partner[c].version + 1,
                                              owner |-> Owner(r, c)]]
         /\ role' = [role EXCEPT ![c][g.kind] = RoleAfter(r, c)]
         /\ Owner(r, c) \in Owners /\ RoleAfter(r, c) \in RoleStates \ {"absent"}
         /\ Mutation(r, c) \in AuditEvent
         /\ audit' = [audit EXCEPT ![c] = Append(audit[c], Mutation(r, c))]
  BY MutationEffect
<1>3. /\ audit[d] \in Seq(AuditEvent) /\ ColumnsExplained(audit[d], partner[d])
      /\ \A k \in Kinds : RoleExplained(audit[d], k, role[d][k])
  BY DEF Inv, TypeOK, TrailExplainsPartner
<1>4. CASE d # c
  BY <1>2, <1>3, <1>4 DEF Inv, TypeOK
<1>5. CASE d = c
  <2>1. /\ audit'[c] = Append(audit[c], Mutation(r, c))
        /\ partner'[c] = [version |-> partner[c].version + 1, owner |-> Owner(r, c)]
        /\ role'[c][g.kind] = RoleAfter(r, c)
        /\ \A k \in Kinds : k # g.kind => role'[c][k] = role[c][k]
        /\ partner[c].version \in Nat
    BY <1>1, <1>2 DEF Inv, TypeOK, Partner
  <2>2. /\ Exists(c) /\ role[c][g.kind] # "absent"
        /\ g.before = [owner |-> partner[c].owner, role |-> role[c][g.kind]]
        /\ role[c][g.kind] \in Changeable(g.op)
    BY <1>1, <1>2 DEF Sound, ReadIsFresh
  <2>3. g.op \in {"UPDATE", "DELETE", "RESTORE"}
    BY <1>1 DEF Handler, Sound, FileIsFollowed
  <2>4. /\ Mutation(r, c).op = g.op /\ Mutation(r, c).kind = g.kind
        /\ Mutation(r, c).before.owner = partner[c].owner
        /\ Mutation(r, c).before.role = role[c][g.kind]
        /\ Mutation(r, c).after.owner = Owner(r, c)
        /\ Mutation(r, c).after.role = RoleAfter(r, c)
    BY <2>2 DEF Mutation
  <2>5. ColumnsExplained(audit'[c], partner'[c])
    BY <1>2, <1>3, <1>5, <2>1, <2>2, <2>3, <2>4, ColumnsStep, SMTT(30) DEF Exists
  <2>6. role[c][g.kind] = FoundBy(g.op)
    BY <2>2, <2>3 DEF FoundBy, Changeable
  <2>7. ASSUME NEW k \in Kinds PROVE RoleExplained(audit'[c], k, role'[c][k])
    <3>1. CASE k = g.kind
      <4>1. RoleAfter(r, c) # "absent"
        BY <1>2
      <4>2. g.op \notin {"CREATE", "JOIN"}
        BY <2>3
      <4>3. RoleExplained(audit[c], k, role[c][k])
        BY <1>3, <1>5
      <4>4. RoleExplained(Append(audit[c], Mutation(r, c)), k, RoleAfter(r, c))
        BY <1>2, <1>3, <1>5, <2>2, <2>4, <2>6, <3>1, <4>1, <4>2, <4>3, RoleStep
      <4>. QED
        BY <2>1, <3>1, <4>4
    <3>2. CASE k # g.kind
      <4>1. RoleExplained(Append(audit[c], Mutation(r, c)), k, role[c][k])
        BY <1>2, <1>3, <1>5, <2>4, <3>2, RoleStep
      <4>. QED
        BY <2>1, <3>2, <4>1
    <3>. QED
      BY <3>1, <3>2
  <2>. QED
    BY <1>5, <2>5, <2>7
<1>. QED
  BY <1>4, <1>5

\* Every step keeps the trails: only the commits write them.
LEMMA TrailStep ==
    Inv /\ TrailExplainsPartner /\ [Next]_vars => TrailExplainsPartner'
<1>. SUFFICES ASSUME Inv, TrailExplainsPartner, [Next]_vars PROVE TrailExplainsPartner'
  OBVIOUS
<1>1. ASSUME NEW r \in Requests, CommitCreate(r) PROVE TrailExplainsPartner'
  BY <1>1, CreationIsExplained DEF TrailExplainsPartner
<1>2. ASSUME NEW r \in Requests, CommitMutation(r) PROVE TrailExplainsPartner'
  BY <1>2, MutationIsExplained DEF TrailExplainsPartner
<1>3. CASE \A r \in Requests : ~CommitCreate(r) /\ ~CommitMutation(r)
  BY <1>3, OnlyCommits DEF TrailExplainsPartner
<1>. QED
  BY <1>1, <1>2, <1>3

\* However the requests of both roles overlap, the trail of a partner says how it and its
\* roles came to be what they are, with no gap between an entry and the next.
THEOREM TrailsExplain == Spec => []TrailExplainsPartner
<1>1. Init => TrailExplainsPartner
  <2>1. ASSUME Init, NEW c \in Codes
        PROVE  /\ Rewrites(audit[c]) = {} /\ partner[c].version = 0
               /\ \A k \in Kinds : OfRole(audit[c], k) = {} /\ role[c][k] = "absent"
    BY <2>1 DEF Init, Rewrites, OfRole
  <2>2. ASSUME Init, NEW c \in Codes PROVE ColumnsExplained(audit[c], partner[c])
    BY <2>1, <2>2 DEF ColumnsExplained
  <2>3. ASSUME Init, NEW c \in Codes, NEW k \in Kinds
        PROVE  RoleExplained(audit[c], k, role[c][k])
    BY <2>1, <2>3 DEF RoleExplained
  <2>. QED
    BY <2>2, <2>3 DEF TrailExplainsPartner
<1>. QED
  BY InitInv, StepInv, TrailStep, <1>1, PTL DEF Spec

=============================================================================
