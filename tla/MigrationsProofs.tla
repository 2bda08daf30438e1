-------------------------- MODULE MigrationsProofs --------------------------
(***************************************************************************)
(* What Migrations guarantees for any customers, tenants, orders and       *)
(* messages, and for any runs between any revisions.                       *)
(***************************************************************************)
EXTENDS Migrations, SequenceTheorems, TLAPS

-----------------------------------------------------------------------------
\* What a statement on the schema leaves alone.

Fields == {"rev", "fail", "refs", "keyed", "rls", "grants", "named", "perms", "maps",
           "customers", "partners", "roles", "orders", "messages"}

SamePeople(d, e) ==
    e.customers = d.customers /\ e.partners = d.partners /\ e.roles = d.roles
SameTraffic(d, e) == e.orders = d.orders /\ e.messages = d.messages

\* From d to e nothing but the schema has changed, unless a statement has failed.
Quiet(d, e) ==
    DOMAIN d = Fields =>
        /\ DOMAIN e = Fields /\ e.rev = d.rev
        /\ Sound(e) => Sound(d) /\ SamePeople(d, e) /\ SameTraffic(d, e)

\* The same of the people alone.
Keeps(d, e) ==
    DOMAIN d = Fields =>
        /\ DOMAIN e = Fields /\ e.rev = d.rev
        /\ Sound(e) => Sound(d) /\ SamePeople(d, e)

LEMMA QuietChain ==
    ASSUME NEW c, NEW d, NEW e, Quiet(c, d), Quiet(d, e)
    PROVE  Quiet(c, e)
BY DEF Sound, Quiet, SamePeople, SameTraffic

LEMMA KeepsChain ==
    ASSUME NEW c, NEW d, NEW e, Keeps(c, d), Keeps(d, e)
    PROVE  Keeps(c, e)
BY DEF Sound, Keeps, SamePeople

LEMMA QuietKeeps == ASSUME NEW d, NEW e, Quiet(d, e) PROVE Keeps(d, e)
BY DEF Sound, Quiet, Keeps

\* A statement runs if none before it has failed, and if its condition holds.
LEMMA RunIsQuiet ==
    ASSUME NEW d, NEW condition \in BOOLEAN, NEW next, Quiet(d, next)
    PROVE  Quiet(d, Run(d, condition, "schema", next)) /\ Quiet(d, Run(d, condition, "data", next))
<1>1. ASSUME NEW cause, cause # ""
      PROVE  Quiet(d, Run(d, condition, cause, next))
  <2>1. CASE DOMAIN d # Fields
    BY <2>1 DEF Sound, Quiet
  <2>2. CASE DOMAIN d = Fields /\ ~Sound(d)
    BY <2>2 DEF Sound, Run, Quiet
  <2>3. CASE DOMAIN d = Fields /\ Sound(d) /\ condition
    BY <2>3 DEF Sound, Run
  <2>4. CASE DOMAIN d = Fields /\ Sound(d) /\ ~condition
    <3>. DEFINE failed == [d EXCEPT !.fail = cause]
    <3>1. DOMAIN failed = Fields /\ failed.rev = d.rev /\ failed.fail = cause
      BY <2>4 DEF Fields
    <3>2. Quiet(d, failed)
      BY <1>1, <3>1 DEF Sound, Quiet
    <3>. QED
      BY <2>4, <3>2 DEF Sound, Run
  <2>. QED
    BY <2>1, <2>2, <2>3, <2>4
<1>. QED
  BY <1>1

LEMMA AlwaysIsQuiet ==
    ASSUME NEW d, NEW next, Quiet(d, next)
    PROVE  Quiet(d, Run(d, TRUE, "", next))
BY DEF Sound, Run, Quiet, SamePeople, SameTraffic

LEMMA CreateIsQuiet ==
    ASSUME NEW d, NEW tables
    PROVE  Quiet(d, Create(d, tables))
<1>0. PICK condition \in BOOLEAN :
         \E refs, keyed :
           Create(d, tables) =
             Run(d, condition, "schema", [d EXCEPT !.refs = refs, !.keyed = keyed])
  BY Zenon DEF Create
<1>1. PICK refs, keyed :
         Create(d, tables) =
           Run(d, condition, "schema", [d EXCEPT !.refs = refs, !.keyed = keyed])
  BY <1>0
<1>. DEFINE next == [d EXCEPT !.refs = refs, !.keyed = keyed]
<1>2. /\ DOMAIN d = Fields => DOMAIN next = Fields /\ next.rev = d.rev /\ next.fail = d.fail
      /\ DOMAIN d = Fields => SamePeople(d, next) /\ SameTraffic(d, next)
  BY DEF Fields, SamePeople, SameTraffic
<1>3. Quiet(d, next)
  BY <1>2, Zenon DEF Sound, Quiet
<1>. HIDE DEF next
<1>4. Quiet(d, Run(d, condition, "schema", next))
  BY <1>3, RunIsQuiet
<1>. QED
  BY <1>1, <1>4 DEF next

LEMMA DropIsQuiet ==
    ASSUME NEW d, NEW names
    PROVE  Quiet(d, Drop(d, names))
<1>0. PICK condition \in BOOLEAN :
         \E refs, keyed, rls, grants, named :
           Drop(d, names) =
             Run(d, condition, "schema", [d EXCEPT !.refs = refs, !.keyed = keyed, !.rls = rls, !.grants = grants, !.named = named])
  BY Zenon DEF Drop
<1>1. PICK refs, keyed, rls, grants, named :
         Drop(d, names) =
           Run(d, condition, "schema", [d EXCEPT !.refs = refs, !.keyed = keyed, !.rls = rls, !.grants = grants, !.named = named])
  BY <1>0
<1>. DEFINE next == [d EXCEPT !.refs = refs, !.keyed = keyed, !.rls = rls, !.grants = grants, !.named = named]
<1>2. /\ DOMAIN d = Fields => DOMAIN next = Fields /\ next.rev = d.rev /\ next.fail = d.fail
      /\ DOMAIN d = Fields => SamePeople(d, next) /\ SameTraffic(d, next)
  BY DEF Fields, SamePeople, SameTraffic
<1>3. Quiet(d, next)
  BY <1>2, Zenon DEF Sound, Quiet
<1>. HIDE DEF next
<1>4. Quiet(d, Run(d, condition, "schema", next))
  BY <1>3, RunIsQuiet
<1>. QED
  BY <1>1, <1>4 DEF next

LEMMA AddObjectsIsQuiet ==
    ASSUME NEW d, NEW tables, NEW names
    PROVE  Quiet(d, AddObjects(d, tables, names))
<1>0. PICK condition \in BOOLEAN :
         \E named :
           AddObjects(d, tables, names) =
             Run(d, condition, "schema", [d EXCEPT !.named = named])
  BY Zenon DEF AddObjects
<1>1. PICK named :
         AddObjects(d, tables, names) =
           Run(d, condition, "schema", [d EXCEPT !.named = named])
  BY <1>0
<1>. DEFINE next == [d EXCEPT !.named = named]
<1>2. /\ DOMAIN d = Fields => DOMAIN next = Fields /\ next.rev = d.rev /\ next.fail = d.fail
      /\ DOMAIN d = Fields => SamePeople(d, next) /\ SameTraffic(d, next)
  BY DEF Fields, SamePeople, SameTraffic
<1>3. Quiet(d, next)
  BY <1>2, Zenon DEF Sound, Quiet
<1>. HIDE DEF next
<1>4. Quiet(d, Run(d, condition, "schema", next))
  BY <1>3, RunIsQuiet
<1>. QED
  BY <1>1, <1>4 DEF next

LEMMA DropObjectsIsQuiet ==
    ASSUME NEW d, NEW tables, NEW names
    PROVE  Quiet(d, DropObjects(d, tables, names))
<1>0. PICK condition \in BOOLEAN :
         \E named :
           DropObjects(d, tables, names) =
             Run(d, condition, "schema", [d EXCEPT !.named = named])
  BY Zenon DEF DropObjects
<1>1. PICK named :
         DropObjects(d, tables, names) =
           Run(d, condition, "schema", [d EXCEPT !.named = named])
  BY <1>0
<1>. DEFINE next == [d EXCEPT !.named = named]
<1>2. /\ DOMAIN d = Fields => DOMAIN next = Fields /\ next.rev = d.rev /\ next.fail = d.fail
      /\ DOMAIN d = Fields => SamePeople(d, next) /\ SameTraffic(d, next)
  BY DEF Fields, SamePeople, SameTraffic
<1>3. Quiet(d, next)
  BY <1>2, Zenon DEF Sound, Quiet
<1>. HIDE DEF next
<1>4. Quiet(d, Run(d, condition, "schema", next))
  BY <1>3, RunIsQuiet
<1>. QED
  BY <1>1, <1>4 DEF next

LEMMA EnableRlsIsQuiet ==
    ASSUME NEW d, NEW tables
    PROVE  Quiet(d, EnableRls(d, tables))
<1>0. PICK condition \in BOOLEAN :
         \E rls :
           EnableRls(d, tables) =
             Run(d, condition, "schema", [d EXCEPT !.rls = rls])
  BY Zenon DEF EnableRls
<1>1. PICK rls :
         EnableRls(d, tables) =
           Run(d, condition, "schema", [d EXCEPT !.rls = rls])
  BY <1>0
<1>. DEFINE next == [d EXCEPT !.rls = rls]
<1>2. /\ DOMAIN d = Fields => DOMAIN next = Fields /\ next.rev = d.rev /\ next.fail = d.fail
      /\ DOMAIN d = Fields => SamePeople(d, next) /\ SameTraffic(d, next)
  BY DEF Fields, SamePeople, SameTraffic
<1>3. Quiet(d, next)
  BY <1>2, Zenon DEF Sound, Quiet
<1>. HIDE DEF next
<1>4. Quiet(d, Run(d, condition, "schema", next))
  BY <1>3, RunIsQuiet
<1>. QED
  BY <1>1, <1>4 DEF next

LEMMA GrantIsQuiet ==
    ASSUME NEW d, NEW rights, NEW tables
    PROVE  Quiet(d, Grant(d, rights, tables))
<1>0. PICK condition \in BOOLEAN :
         \E grants :
           Grant(d, rights, tables) =
             Run(d, condition, "schema", [d EXCEPT !.grants = grants])
  BY Zenon DEF Grant
<1>1. PICK grants :
         Grant(d, rights, tables) =
           Run(d, condition, "schema", [d EXCEPT !.grants = grants])
  BY <1>0
<1>. DEFINE next == [d EXCEPT !.grants = grants]
<1>2. /\ DOMAIN d = Fields => DOMAIN next = Fields /\ next.rev = d.rev /\ next.fail = d.fail
      /\ DOMAIN d = Fields => SamePeople(d, next) /\ SameTraffic(d, next)
  BY DEF Fields, SamePeople, SameTraffic
<1>3. Quiet(d, next)
  BY <1>2, Zenon DEF Sound, Quiet
<1>. HIDE DEF next
<1>4. Quiet(d, Run(d, condition, "schema", next))
  BY <1>3, RunIsQuiet
<1>. QED
  BY <1>1, <1>4 DEF next

LEMMA RevokeIsQuiet ==
    ASSUME NEW d, NEW rights, NEW tables
    PROVE  Quiet(d, Revoke(d, rights, tables))
<1>1. PICK grants :
         Revoke(d, rights, tables) =
           Run(d, TRUE, "", [d EXCEPT !.grants = grants])
  BY Zenon DEF Revoke
<1>. DEFINE next == [d EXCEPT !.grants = grants]
<1>2. /\ DOMAIN d = Fields => DOMAIN next = Fields /\ next.rev = d.rev /\ next.fail = d.fail
      /\ DOMAIN d = Fields => SamePeople(d, next) /\ SameTraffic(d, next)
  BY DEF Fields, SamePeople, SameTraffic
<1>3. Quiet(d, next)
  BY <1>2, Zenon DEF Sound, Quiet
<1>. HIDE DEF next
<1>4. Quiet(d, Run(d, TRUE, "", next))
  BY <1>3, AlwaysIsQuiet
<1>. QED
  BY <1>1, <1>4 DEF next

LEMMA SeedIsQuiet ==
    ASSUME NEW d, NEW families
    PROVE  Quiet(d, Seed(d, families))
<1>0. PICK condition \in BOOLEAN :
         \E perms, maps :
           Seed(d, families) =
             Run(d, condition, "data", [d EXCEPT !.perms = perms, !.maps = maps])
  BY Zenon DEF Seed
<1>1. PICK perms, maps :
         Seed(d, families) =
           Run(d, condition, "data", [d EXCEPT !.perms = perms, !.maps = maps])
  BY <1>0
<1>. DEFINE next == [d EXCEPT !.perms = perms, !.maps = maps]
<1>2. /\ DOMAIN d = Fields => DOMAIN next = Fields /\ next.rev = d.rev /\ next.fail = d.fail
      /\ DOMAIN d = Fields => SamePeople(d, next) /\ SameTraffic(d, next)
  BY DEF Fields, SamePeople, SameTraffic
<1>3. Quiet(d, next)
  BY <1>2, Zenon DEF Sound, Quiet
<1>. HIDE DEF next
<1>4. Quiet(d, Run(d, condition, "data", next))
  BY <1>3, RunIsQuiet
<1>. QED
  BY <1>1, <1>4 DEF next

LEMMA AdoptIsQuiet ==
    ASSUME NEW d, NEW families
    PROVE  Quiet(d, Adopt(d, families))
<1>1. PICK perms, maps :
         Adopt(d, families) =
           Run(d, TRUE, "", [d EXCEPT !.perms = perms, !.maps = maps])
  BY Zenon DEF Adopt
<1>. DEFINE next == [d EXCEPT !.perms = perms, !.maps = maps]
<1>2. /\ DOMAIN d = Fields => DOMAIN next = Fields /\ next.rev = d.rev /\ next.fail = d.fail
      /\ DOMAIN d = Fields => SamePeople(d, next) /\ SameTraffic(d, next)
  BY DEF Fields, SamePeople, SameTraffic
<1>3. Quiet(d, next)
  BY <1>2, Zenon DEF Sound, Quiet
<1>. HIDE DEF next
<1>4. Quiet(d, Run(d, TRUE, "", next))
  BY <1>3, AlwaysIsQuiet
<1>. QED
  BY <1>1, <1>4 DEF next

LEMMA UnseedIsQuiet ==
    ASSUME NEW d, NEW families
    PROVE  Quiet(d, Unseed(d, families))
<1>0. PICK condition \in BOOLEAN :
         \E perms, maps :
           Unseed(d, families) =
             Run(d, condition, "data", [d EXCEPT !.perms = perms, !.maps = maps])
  BY Zenon DEF Unseed
<1>1. PICK perms, maps :
         Unseed(d, families) =
           Run(d, condition, "data", [d EXCEPT !.perms = perms, !.maps = maps])
  BY <1>0
<1>. DEFINE next == [d EXCEPT !.perms = perms, !.maps = maps]
<1>2. /\ DOMAIN d = Fields => DOMAIN next = Fields /\ next.rev = d.rev /\ next.fail = d.fail
      /\ DOMAIN d = Fields => SamePeople(d, next) /\ SameTraffic(d, next)
  BY DEF Fields, SamePeople, SameTraffic
<1>3. Quiet(d, next)
  BY <1>2, Zenon DEF Sound, Quiet
<1>. HIDE DEF next
<1>4. Quiet(d, Run(d, condition, "data", next))
  BY <1>3, RunIsQuiet
<1>. QED
  BY <1>1, <1>4 DEF next

LEMMA UnseedForAllIsQuiet ==
    ASSUME NEW d, NEW families
    PROVE  Quiet(d, UnseedForAll(d, families))
<1>1. PICK perms, maps :
         UnseedForAll(d, families) =
           Run(d, TRUE, "", [d EXCEPT !.perms = perms, !.maps = maps])
  BY Zenon DEF UnseedForAll
<1>. DEFINE next == [d EXCEPT !.perms = perms, !.maps = maps]
<1>2. /\ DOMAIN d = Fields => DOMAIN next = Fields /\ next.rev = d.rev /\ next.fail = d.fail
      /\ DOMAIN d = Fields => SamePeople(d, next) /\ SameTraffic(d, next)
  BY DEF Fields, SamePeople, SameTraffic
<1>3. Quiet(d, next)
  BY <1>2, Zenon DEF Sound, Quiet
<1>. HIDE DEF next
<1>4. Quiet(d, Run(d, TRUE, "", next))
  BY <1>3, AlwaysIsQuiet
<1>. QED
  BY <1>1, <1>4 DEF next

LEMMA AddReferenceIsQuiet ==
    ASSUME NEW d, NEW tables, NEW object, NEW parent
    PROVE  Quiet(d, AddReference(d, tables, object, parent))
<1>. DEFINE first == AddObjects(d, tables, {object})
<1>1. Quiet(d, first)
  BY AddObjectsIsQuiet
<1>. DEFINE condition == parent \in DOMAIN d.refs
<1>2. PICK refs :
         AddReference(d, tables, object, parent) =
           Run(first, condition, "schema", [first EXCEPT !.refs = refs])
  BY Zenon DEF AddReference
<1>3a. condition \in BOOLEAN
  OBVIOUS
<1>. HIDE DEF first, condition
<1>. DEFINE next == [first EXCEPT !.refs = refs]
<1>3. /\ DOMAIN first = Fields =>
            DOMAIN next = Fields /\ next.rev = first.rev /\ next.fail = first.fail
      /\ DOMAIN first = Fields => SamePeople(first, next) /\ SameTraffic(first, next)
  BY DEF Fields, SamePeople, SameTraffic
<1>4. Quiet(first, next)
  BY <1>3, Zenon DEF Sound, Quiet
<1>. HIDE DEF next
<1>5. Quiet(first, Run(first, condition, "schema", next))
  BY <1>3a, <1>4, RunIsQuiet
<1>6. Quiet(first, AddReference(d, tables, object, parent))
  BY <1>2, <1>5 DEF next
<1>. QED
  BY <1>1, <1>6, QuietChain
LEMMA RemoveReferenceIsQuiet ==
    ASSUME NEW d, NEW tables, NEW object, NEW parent
    PROVE  Quiet(d, RemoveReference(d, tables, object, parent))
<1>. DEFINE first == DropObjects(d, tables, {object})
<1>1. Quiet(d, first)
  BY DropObjectsIsQuiet
<1>2. PICK refs :
         RemoveReference(d, tables, object, parent) =
           Run(first, TRUE, "", [first EXCEPT !.refs = refs])
  BY Zenon DEF RemoveReference
<1>. HIDE DEF first
<1>. DEFINE next == [first EXCEPT !.refs = refs]
<1>3. /\ DOMAIN first = Fields =>
            DOMAIN next = Fields /\ next.rev = first.rev /\ next.fail = first.fail
      /\ DOMAIN first = Fields => SamePeople(first, next) /\ SameTraffic(first, next)
  BY DEF Fields, SamePeople, SameTraffic
<1>4. Quiet(first, next)
  BY <1>3, Zenon DEF Sound, Quiet
<1>. HIDE DEF next
<1>5. Quiet(first, Run(first, TRUE, "", next))
  BY <1>4, AlwaysIsQuiet
<1>6. Quiet(first, RemoveReference(d, tables, object, parent))
  BY <1>2, <1>5 DEF next
<1>. QED
  BY <1>1, <1>6, QuietChain
LEMMA RenameIsQuiet ==
    ASSUME NEW d, NEW table, NEW old, NEW new
    PROVE  Quiet(d, Rename(d, table, old, new))
BY DropObjectsIsQuiet, AddObjectsIsQuiet, QuietChain DEF Rename

\* So does every statement on the schema.
LEMMA StatementsAreQuiet ==
    /\ \A d, tables : Quiet(d, Create(d, tables))
    /\ \A d, names : Quiet(d, Drop(d, names))
    /\ \A d, tables, names : Quiet(d, AddObjects(d, tables, names))
    /\ \A d, tables, names : Quiet(d, DropObjects(d, tables, names))
    /\ \A d, tables, object, parent : Quiet(d, AddReference(d, tables, object, parent))
    /\ \A d, tables, object, parent : Quiet(d, RemoveReference(d, tables, object, parent))
    /\ \A d, table, old, new : Quiet(d, Rename(d, table, old, new))
    /\ \A d, tables : Quiet(d, EnableRls(d, tables))
    /\ \A d, rights, tables : Quiet(d, Grant(d, rights, tables))
    /\ \A d, rights, tables : Quiet(d, Revoke(d, rights, tables))
    /\ \A d, families : Quiet(d, Seed(d, families))
    /\ \A d, families : Quiet(d, Adopt(d, families))
    /\ \A d, families : Quiet(d, Unseed(d, families))
    /\ \A d, families : Quiet(d, UnseedForAll(d, families))
    /\ \A c, d, e : Quiet(c, d) /\ Quiet(d, e) => Quiet(c, e)
<1>1. /\ \A d, tables : Quiet(d, Create(d, tables))
      /\ \A d, names : Quiet(d, Drop(d, names))
      /\ \A d, tables, names : Quiet(d, AddObjects(d, tables, names))
      /\ \A d, tables, names : Quiet(d, DropObjects(d, tables, names))
  BY CreateIsQuiet, DropIsQuiet, AddObjectsIsQuiet, DropObjectsIsQuiet
<1>2. /\ \A d, tables, object, parent : Quiet(d, AddReference(d, tables, object, parent))
      /\ \A d, tables, object, parent : Quiet(d, RemoveReference(d, tables, object, parent))
      /\ \A d, table, old, new : Quiet(d, Rename(d, table, old, new))
      /\ \A d, tables : Quiet(d, EnableRls(d, tables))
  BY AddReferenceIsQuiet, RemoveReferenceIsQuiet, RenameIsQuiet, EnableRlsIsQuiet
<1>3. /\ \A d, rights, tables : Quiet(d, Grant(d, rights, tables))
      /\ \A d, rights, tables : Quiet(d, Revoke(d, rights, tables))
      /\ \A d, families : Quiet(d, Seed(d, families))
      /\ \A d, families : Quiet(d, Adopt(d, families))
  BY GrantIsQuiet, RevokeIsQuiet, SeedIsQuiet, AdoptIsQuiet
<1>4. /\ \A d, families : Quiet(d, Unseed(d, families))
      /\ \A d, families : Quiet(d, UnseedForAll(d, families))
      /\ \A c, d, e : Quiet(c, d) /\ Quiet(d, e) => Quiet(c, e)
  BY UnseedIsQuiet, UnseedForAllIsQuiet, QuietChain
<1>. QED
  BY <1>1, <1>2, <1>3, <1>4

-----------------------------------------------------------------------------
\* What the revisions do to the data.

\* Most revisions change the schema and the permissions only.
LEMMA QuietUpgrades ==
    ASSUME NEW d, NEW r \in (3..16) \cup {19}
    PROVE  Quiet(d, Upgrade(r, d))
<1>1. Quiet(d, Up0003(d)) /\ Quiet(d, Up0004(d)) /\ Quiet(d, Up0005(d))
  BY StatementsAreQuiet DEF Up0003, Up0004, Up0005
<1>2. Quiet(d, Up0006(d)) /\ Quiet(d, Up0007(d)) /\ Quiet(d, Up0008(d)) /\ Quiet(d, Up0009(d))
  BY StatementsAreQuiet DEF Up0006, Up0007, Up0008, Up0009
<1>3. Quiet(d, Up0010(d)) /\ Quiet(d, Up0011(d)) /\ Quiet(d, Up0012(d))
  BY StatementsAreQuiet DEF Up0010, Up0011, Up0012
<1>4. Quiet(d, Up0013(d)) /\ Quiet(d, Up0014(d)) /\ Quiet(d, Up0015(d))
  BY StatementsAreQuiet DEF Up0013, Up0014, Up0015
<1>5. Quiet(d, Up0016(d))
  <2>1. Identified(d.orders) \in BOOLEAN
    BY DEF Identified
  <2>. QED
    BY <2>1, RunIsQuiet, AddObjectsIsQuiet DEF Up0016
<1>6. Quiet(d, Up0019(d))
  <2>. DEFINE freed == RemoveReference(d, {PoTable}, "fk_customer_pos_edi_message", "edi_messages")
  <2>1. LinksStayInTenant(d) \in BOOLEAN
    BY DEF LinksStayInTenant
  <2>2. Quiet(d, freed)
    BY RemoveReferenceIsQuiet
  <2>. DEFINE bound == AddReference(freed, {PoTable}, "fk_customer_pos_tenant_edi_message", "edi_messages")
  <2>3. Quiet(freed, bound)
    BY AddReferenceIsQuiet
  <2>4. Up0019(d) = Run(freed, LinksStayInTenant(d), "data", bound)
    BY DEF Up0019
  <2>. HIDE DEF freed, bound
  <2>5. Quiet(freed, Run(freed, LinksStayInTenant(d), "data", bound))
    BY <2>1, <2>3, RunIsQuiet
  <2>. QED
    BY <2>2, <2>4, <2>5, QuietChain
<1>. QED
  BY <1>1, <1>2, <1>3, <1>4, <1>5, <1>6 DEF Upgrade

LEMMA QuietDowngrades ==
    ASSUME NEW d, NEW r \in (3..5) \cup (7..16) \cup {19}
    PROVE  Quiet(d, Downgrade(r, d))
<1>1. Quiet(d, Down0003(d)) /\ Quiet(d, Down0004(d)) /\ Quiet(d, Down0005(d))
  BY StatementsAreQuiet DEF Down0003, Down0004, Down0005
<1>2. Quiet(d, Down0007(d)) /\ Quiet(d, Down0008(d)) /\ Quiet(d, Down0009(d))
  BY StatementsAreQuiet DEF Down0007, Down0008, Down0009
<1>3. Quiet(d, Down0010(d)) /\ Quiet(d, Down0011(d)) /\ Quiet(d, Down0012(d))
  BY StatementsAreQuiet DEF Down0010, Down0011, Down0012
<1>4. Quiet(d, Down0013(d)) /\ Quiet(d, Down0014(d)) /\ Quiet(d, Down0015(d))
  BY StatementsAreQuiet DEF Down0013, Down0014, Down0015
<1>5. Quiet(d, Down0016(d)) /\ Quiet(d, Down0019(d))
  BY StatementsAreQuiet DEF Down0016, Down0019
<1>. QED
  BY <1>1, <1>2, <1>3, <1>4, <1>5 DEF Downgrade

\* A revision that goes through leaves these customers, partners and roles.
Moves(d, e, customers, partners, roles) ==
    DOMAIN d = Fields =>
        /\ DOMAIN e = Fields /\ e.rev = d.rev
        /\ Sound(e) =>
              /\ Sound(d) /\ SameTraffic(d, e)
              /\ e.customers = customers /\ e.partners = partners /\ e.roles = roles

LEMMA AlwaysMoves ==
    ASSUME NEW d, NEW next, NEW customers, NEW partners, NEW roles,
           Moves(d, next, customers, partners, roles)
    PROVE  Moves(d, Run(d, TRUE, "", next), customers, partners, roles)
BY DEF Sound, Run, Moves, SameTraffic

LEMMA RunMoves ==
    ASSUME NEW d, NEW condition \in BOOLEAN, NEW next, NEW customers, NEW partners, NEW roles,
           Moves(d, next, customers, partners, roles)
    PROVE  Moves(d, Run(d, condition, "data", next), customers, partners, roles)
<1>. DEFINE failed == [d EXCEPT !.fail = "data"]
<1>1. DOMAIN d = Fields => DOMAIN failed = Fields /\ failed.rev = d.rev /\ failed.fail = "data"
  BY DEF Fields
<1>2. Run(d, condition, "data", next) \in {d, next, failed}
  BY DEF Sound, Run
<1>3. ~Sound(d) => Run(d, condition, "data", next) = d
  BY DEF Sound, Run
<1>4. Sound(d) => Run(d, condition, "data", next) \in {next, failed}
  BY DEF Sound, Run
<1>. HIDE DEF failed
<1>. QED
  BY <1>1, <1>3, <1>4 DEF Sound, Moves

LEMMA Upgrade1 ==
    ASSUME NEW d
    PROVE  Moves(d, Upgrade(1, d), d.customers \cup {Customer(SeedId, Home, "CUST001", FALSE, 1)},
                 d.partners, d.roles)
<1>. DEFINE tables == Create(d, IamTables0001 \o CustomerTables0001)
            keys   == AddObjects(tables, Assignments, {"customer_id_fkey"})
            index  == AddObjects(keys, {"customers"}, {"ix_customers_tenant_owner", "ix_customers_tenant_status"})
            seeded == Seed(index, {"customers", "inventory", "shipments"})
            seed   == Customer(SeedId, Home, "CUST001", FALSE, 1)
            next   == [seeded EXCEPT !.customers = @ \cup {seed}]
            read   == Grant(SeedData0001(index), ReadOnly,
                            {IamTables0001[k].name : k \in DOMAIN IamTables0001} \cup Assignments)
<1>1. Quiet(d, seeded)
  BY StatementsAreQuiet
<1>2. Upgrade(1, d) = Grant(read, Write3, {"customers"})
  BY DEF Upgrade, Up0001
<1>3. SeedData0001(index) = Run(seeded, TRUE, "", next)
  BY DEF SeedData0001
<1>4. Quiet(SeedData0001(index), Upgrade(1, d))
  BY <1>2, StatementsAreQuiet
<1>. HIDE DEF tables, keys, index, seeded, seed, read
<1>5. Moves(seeded, next, seeded.customers \cup {seed}, seeded.partners, seeded.roles)
  BY DEF Sound, Moves, Fields, SameTraffic
<1>. HIDE DEF next
<1>6. Moves(seeded, SeedData0001(index), seeded.customers \cup {seed}, seeded.partners, seeded.roles)
  BY <1>3, <1>5, AlwaysMoves
<1>7. Moves(d, Upgrade(1, d), d.customers \cup {seed}, d.partners, d.roles)
  BY <1>1, <1>4, <1>6 DEF Sound, Moves, Quiet, SamePeople, SameTraffic
<1>. QED
  BY <1>7 DEF seed

LEMMA Downgrade1 ==
    ASSUME NEW d
    PROVE  Moves(d, Downgrade(1, d), {}, d.partners, d.roles)
<1>. DEFINE index == DropObjects(Drop(d, <<"customer_group_assignments", "customer_user_assignments">>),
                                 {"customers"}, {"ix_customers_tenant_owner", "ix_customers_tenant_status"})
            gone  == Drop(index, <<"customers", "audit_logs", "user_policies", "group_policies",
                                   "role_policies", "policy_permissions", "policies", "permissions",
                                   "user_groups", "profiles", "groups", "roles", "tenants">>)
            next  == [gone EXCEPT !.customers = {}, !.perms = {}, !.maps = {}]
<1>1. Quiet(d, gone)
  BY StatementsAreQuiet
<1>2. Downgrade(1, d) = Run(gone, TRUE, "", next)
  BY DEF Downgrade, Down0001
<1>. HIDE DEF index, gone
<1>3. Moves(gone, next, {}, gone.partners, gone.roles)
  BY DEF Sound, Moves, Fields, SameTraffic
<1>. HIDE DEF next
<1>4. Moves(gone, Downgrade(1, d), {}, gone.partners, gone.roles)
  BY <1>2, <1>3, AlwaysMoves
<1>. QED
  BY <1>1, <1>4 DEF Sound, Moves, Quiet, SamePeople, SameTraffic

LEMMA Upgrade2 ==
    ASSUME NEW d
    PROVE  Moves(d, Upgrade(2, d), {}, {Partner(c) : c \in d.customers},
                 {Role(c.id, "CUSTOMER", c.gone, FALSE) : c \in d.customers})
<1>. DEFINE tables == AddObjects(Create(d, PartnerTables0002), {"business_partners"}, PartnerIndexes)
            moved  == MoveCustomers(tables)
            partners(c) == {Partner(x) : x \in c}
            roles(c) == {Role(x.id, "CUSTOMER", x.gone, FALSE) : x \in c}
            next   == [tables EXCEPT !.partners = partners(tables.customers),
                                     !.roles = roles(tables.customers), !.customers = {}]
<1>1. Quiet(d, tables)
  BY StatementsAreQuiet
<1>2. Quiet(moved, Upgrade(2, d))
  <2>1. \A e, old, new : Quiet(e, Repoint(e, old, new))
    BY StatementsAreQuiet DEF Repoint
  <2>. HIDE DEF moved
  <2>. DEFINE indexes == {"ix_customers_tenant_status", "ix_customers_tenant_owner"}
              guarded == {"business_partners", "partner_roles", "partner_addresses", "payment_terms"}
              index == DropObjects(Repoint(moved, "customers", "business_partners"), {"customers"}, indexes)
              guard == EnableRls(Drop(index, <<"customers">>), guarded)
  <2>2. Quiet(moved, guard)
    BY <2>1, StatementsAreQuiet
  <2>3. Upgrade(2, d) = Grant(Grant(guard, Write3, {"business_partners", "partner_roles", "partner_addresses"}),
                              ReadOnly, {"payment_terms"})
    BY DEF Upgrade, Up0002, moved
  <2>. HIDE DEF guard
  <2>. QED
    BY <2>2, <2>3, StatementsAreQuiet
<1>3. moved = Run(tables, Convertible(tables.customers), "data", next)
  BY DEF MoveCustomers
<1>. HIDE DEF tables, moved, partners, roles
<1>4. Moves(tables, next, {}, partners(tables.customers), roles(tables.customers))
  BY DEF Sound, Moves, Fields, SameTraffic
<1>. HIDE DEF next
<1>5. Moves(tables, moved, {}, partners(tables.customers), roles(tables.customers))
  <2>1. Convertible(tables.customers) \in BOOLEAN
    BY DEF Convertible
  <2>. QED
    BY <1>3, <1>4, <2>1, RunMoves
<1>6. Moves(d, Upgrade(2, d), {}, partners(d.customers), roles(d.customers))
  BY <1>1, <1>2, <1>5 DEF Sound, Moves, Quiet, SamePeople, SameTraffic
<1>. QED
  BY <1>6 DEF partners, roles

LEMMA Downgrade2 ==
    ASSUME NEW d
    PROVE  Moves(d, Downgrade(2, d), CustomersOf(d.partners, d.roles), {}, {})
<1>. DEFINE table == Create(d, << Keyed("customers", {"profiles"}) >>)
            back  == RestoreCustomers(table)
            next  == [table EXCEPT !.customers = CustomersOf(table.partners, table.roles),
                                   !.partners = {}, !.roles = {}]
<1>1. Quiet(d, table)
  BY StatementsAreQuiet
<1>2. Quiet(back, Downgrade(2, d))
  <2>1. \A e, old, new : Quiet(e, Repoint(e, old, new))
    BY StatementsAreQuiet DEF Repoint
  <2>. DEFINE indexes == {"ix_customers_tenant_owner", "ix_customers_tenant_status"}
              index == AddObjects(back, {"customers"}, indexes)
              keys  == Repoint(index, "business_partners", "customers")
              roles == Drop(keys, <<"partner_addresses", "partner_roles">>)
  <2>2. Downgrade(2, d) = Drop(DropObjects(roles, {"business_partners"}, PartnerIndexes),
                               <<"business_partners", "payment_terms">>)
    BY DEF Downgrade, Down0002
  <2>. HIDE DEF back
  <2>3. Quiet(back, roles)
    BY <2>1, StatementsAreQuiet
  <2>. HIDE DEF roles
  <2>. QED
    BY <2>2, <2>3, StatementsAreQuiet
<1>3. back = Run(table, TRUE, "", next)
  BY DEF RestoreCustomers
<1>. HIDE DEF table, back
<1>4. Moves(table, next, CustomersOf(table.partners, table.roles), {}, {})
  BY DEF Sound, Moves, Fields, SameTraffic
<1>. HIDE DEF next
<1>5. Moves(table, back, CustomersOf(table.partners, table.roles), {}, {})
  BY <1>3, <1>4, AlwaysMoves
<1>. QED
  BY <1>1, <1>2, <1>5 DEF Sound, Moves, Quiet, SamePeople, SameTraffic

\* 0017 does nothing in production.
LEMMA Upgrade17 ==
    ASSUME NEW d
    PROVE  \/ Quiet(d, Upgrade(17, d))
           \/ Moves(d, Upgrade(17, d), d.customers, WpgPartners(d), WpgRoles(WpgPartners(d), d.roles))
<1>1. Upgrade(17, d) = Up0017(d)
  BY DEF Upgrade
<1>2. CASE env = "prod"
  BY <1>1, <1>2 DEF Up0017, Quiet, SamePeople, SameTraffic
<1>3. CASE env # "prod"
  <2>. DEFINE partners == WpgPartners(d)
              roles    == WpgRoles(WpgPartners(d), d.roles)
              next     == [d EXCEPT !.partners = partners, !.roles = roles]
  <2>1. Up0017(d) = Run(d, TRUE, "", next)
    BY <1>3 DEF Up0017
  <2>. HIDE DEF partners, roles
  <2>2. Moves(d, next, d.customers, partners, roles)
    BY DEF Sound, Moves, Fields, SameTraffic
  <2>. HIDE DEF next
  <2>3. Moves(d, Upgrade(17, d), d.customers, partners, roles)
    BY <1>1, <2>1, <2>2, AlwaysMoves
  <2>. QED
    BY <2>3 DEF partners, roles
<1>. QED
  BY <1>2, <1>3

\* Its downgrade deletes the seeded roles, and the seeded partner once nothing holds it.
Unseeded(roles) == {r \in roles : ~r.seeded}
LEMMA Downgrade17 ==
    ASSUME NEW d
    PROVE  \/ Quiet(d, Downgrade(17, d))
           \/ /\ Moves(d, Downgrade(17, d), d.customers, {p \in d.partners : p.id # WpgId}, Unseeded(d.roles))
              /\ DOMAIN d = Fields /\ Sound(Downgrade(17, d)) =>
                    \/ \A p \in d.partners : p.id # WpgId
                    \/ \A r \in Unseeded(d.roles) : r.partner # WpgId
<1>1. Downgrade(17, d) = Down0017(d)
  BY DEF Downgrade
<1>2. CASE env = "prod"
  BY <1>1, <1>2 DEF Down0017, Quiet, SamePeople, SameTraffic
<1>3. CASE env # "prod"
  <2>. DEFINE roles == Unseeded(d.roles)
              partners == {p \in d.partners : p.id # WpgId}
              free  == \/ \A p \in d.partners : p.id # WpgId
                       \/ /\ \A r \in roles : r.partner # WpgId
                          /\ \A o \in d.orders : o.customer # WpgId
              next  == [d EXCEPT !.roles = roles, !.partners = partners]
  <2>1. Down0017(d) = Run(d, free, "data", next)
    BY <1>3 DEF Down0017, Unseeded
  <2>2. free \in BOOLEAN
    OBVIOUS
  <2>3. free => \/ \A p \in d.partners : p.id # WpgId
                \/ \A r \in Unseeded(d.roles) : r.partner # WpgId
    OBVIOUS
  <2>. HIDE DEF roles, partners, free
  <2>4. Moves(d, next, d.customers, partners, roles)
    BY DEF Sound, Moves, Fields, SameTraffic
  <2>. DEFINE failed == [d EXCEPT !.fail = "data"]
  <2>5. DOMAIN d = Fields => ~Sound(failed)
    BY DEF Sound, Fields
  <2>6. Sound(Down0017(d)) /\ DOMAIN d = Fields => free
    BY <2>1, <2>5 DEF Sound, Run
  <2>. HIDE DEF next
  <2>7. Moves(d, Downgrade(17, d), d.customers, partners, roles)
    BY <1>1, <2>1, <2>2, <2>4, RunMoves
  <2>. QED
    BY <1>1, <2>3, <2>6, <2>7 DEF partners, roles
<1>. QED
  BY <1>2, <1>3

\* The downgrade of 0006 deletes the orders.
LEMMA Downgrade6 == ASSUME NEW d PROVE Keeps(d, Downgrade(6, d))
<1>. DEFINE gone == Drop(Unseed(d, {"customer_pos"}),
                         <<"customer_po_status_events", "customer_purchase_order_lines", PoTable>>)
            next == [gone EXCEPT !.orders = {}]
<1>1. Quiet(d, gone)
  BY StatementsAreQuiet
<1>2. Downgrade(6, d) = Run(gone, TRUE, "", next)
  BY DEF Downgrade, Down0006
<1>. HIDE DEF gone
<1>3. Keeps(gone, next)
  BY DEF Sound, Keeps, Fields, SamePeople
<1>. HIDE DEF next
<1>4. Keeps(gone, Downgrade(6, d))
  BY <1>2, <1>3 DEF Sound, Run, Keeps, SamePeople
<1>. QED
  BY <1>1, <1>4, QuietKeeps, KeepsChain

\* 0018 makes the messages that orders have named so far; its downgrade drops them.
LEMMA Upgrade18 ==
    ASSUME NEW d, DOMAIN d = Fields
    PROVE  /\ Keeps(d, Upgrade(18, d))
           /\ Sound(Upgrade(18, d)) =>
                 /\ Upgrade(18, d).orders = d.orders
                 /\ Upgrade(18, d).messages = LegacyMessages(d.orders)
<1>. DEFINE tables == Create(d, << Keyed("edi_messages", {}), Composite("edi_message_events", {"edi_messages"}) >>)
            imported == ImportMessages(tables)
            fits == OneMessagePerExternalId(LegacyMessages(tables.orders))
            next == [tables EXCEPT !.messages = LegacyMessages(tables.orders)]
<1>1. Quiet(d, tables)
  BY StatementsAreQuiet
<1>2. Quiet(imported, Upgrade(18, d))
  <2>. DEFINE freed  == DropObjects(imported, {PoTable}, {"ix_customer_pos_edi_log_id"})
              named  == Rename(Rename(freed, PoTable, "edi_log_id", "edi_message_id"),
                               "customer_po_status_events", "edi_log_id", "edi_message_id")
              linked == AddReference(AddObjects(named, {PoTable}, {"ix_customer_pos_edi_message_id"}),
                                     {PoTable}, "fk_customer_pos_edi_message", "edi_messages")
              guard  == EnableRls(linked, EdiTables)
  <2>1. Upgrade(18, d) = Seed(Grant(Grant(guard, Write3, {"edi_messages"}), Append2, {"edi_message_events"}),
                              {"edi_messages"})
    BY DEF Upgrade, Up0018
  <2>. HIDE DEF imported
  <2>2. Quiet(imported, linked)
    BY StatementsAreQuiet
  <2>. HIDE DEF linked
  <2>. QED
    BY <2>1, <2>2, StatementsAreQuiet
<1>3. imported = Run(tables, fits, "data", next)
  BY DEF ImportMessages
<1>. HIDE DEF tables, imported, fits
<1>4. DOMAIN tables = Fields
  BY <1>1 DEF Sound, Quiet
<1>5. /\ Keeps(tables, next) /\ next.fail = tables.fail /\ next.orders = tables.orders
      /\ next.messages = LegacyMessages(tables.orders)
  BY <1>4 DEF Sound, Keeps, Fields, SamePeople
<1>. HIDE DEF next
<1>6. /\ Keeps(tables, imported)
      /\ Sound(imported) => imported.orders = tables.orders /\ imported.messages = LegacyMessages(tables.orders)
  <2>. DEFINE failed == [tables EXCEPT !.fail = "data"]
  <2>1. DOMAIN failed = Fields /\ failed.rev = tables.rev /\ failed.fail = "data"
    BY <1>4 DEF Fields
  <2>2. \/ ~Sound(tables) /\ imported = tables
        \/ Sound(tables) /\ imported \in {next, failed}
    BY <1>3 DEF Sound, Run
  <2>. HIDE DEF failed
  <2>3. Keeps(tables, tables) /\ Keeps(tables, failed)
    BY <2>1 DEF Sound, Keeps, SamePeople
  <2>. QED
    BY <1>5, <2>1, <2>2, <2>3 DEF Sound
<1>7. Keeps(d, Upgrade(18, d))
  BY <1>1, <1>2, <1>6, QuietKeeps, KeepsChain
<1>8. Sound(Upgrade(18, d)) => Sound(imported) /\ SameTraffic(imported, Upgrade(18, d))
  BY <1>2, <1>4, <1>6 DEF Sound, Quiet, Keeps
<1>9. Sound(imported) => Sound(tables)
  BY <1>4, <1>6 DEF Sound, Keeps
<1>10. Sound(tables) => SameTraffic(d, tables)
  BY <1>1 DEF Sound, Quiet
<1>. QED
  BY <1>6, <1>7, <1>8, <1>9, <1>10 DEF SameTraffic

LEMMA Downgrade18 == ASSUME NEW d PROVE Keeps(d, Downgrade(18, d))
<1>. DEFINE freed == RemoveReference(Unseed(d, {"edi_messages"}), {PoTable},
                                     "fk_customer_pos_edi_message", "edi_messages")
            named == Rename(Rename(DropObjects(freed, {PoTable}, {"ix_customer_pos_edi_message_id"}),
                                   "customer_po_status_events", "edi_message_id", "edi_log_id"),
                            PoTable, "edi_message_id", "edi_log_id")
            gone  == Drop(AddObjects(named, {PoTable}, {"ix_customer_pos_edi_log_id"}),
                          <<"edi_message_events", "edi_messages">>)
            next == [gone EXCEPT !.messages = {}]
<1>1. Quiet(d, gone)
  BY StatementsAreQuiet
<1>2. Downgrade(18, d) = Run(gone, TRUE, "", next)
  BY DEF Downgrade, Down0018
<1>. HIDE DEF freed, named, gone
<1>3. Keeps(gone, next)
  BY DEF Sound, Keeps, Fields, SamePeople
<1>. HIDE DEF next
<1>4. Keeps(gone, Downgrade(18, d))
  BY <1>2, <1>3 DEF Sound, Run, Keeps, SamePeople
<1>. QED
  BY <1>1, <1>4, QuietKeeps, KeepsChain

-----------------------------------------------------------------------------
\* Where the customers of the program are.

SeedCodes == {"CUST001", "WPG"}
RowIds == Ids \cup {SeedId, WpgId}
Rows(ids, codes) == [id : ids, tenant : Tenants, code : codes, gone : BOOLEAN, version : Nat]
LedgerRow == Rows(Ids, Codes)
CustomerRow == Rows(RowIds, Codes \cup SeedCodes)
PartnerRow == [id : RowIds, tenant : Tenants, code : Codes \cup SeedCodes, version : Nat]
RoleRow ==
    [partner : RowIds, type : {"CUSTOMER", "SUPPLIER"}, gone : BOOLEAN, seeded : BOOLEAN]

Written(i, written) == \E c \in written : c.id = i

\* The row x is the customer c, whose code may have been normalised.
SameCustomer(x, c) ==
    /\ x.id = c.id /\ x.tenant = c.tenant /\ x.gone = c.gone /\ x.version = c.version
    /\ Upper(x.code) = Upper(c.code)
\* The partner p with the role r is the customer c.
Carries(p, r, c) ==
    /\ p.id = c.id /\ p.tenant = c.tenant /\ p.version = c.version /\ p.code = Upper(c.code)
    /\ r.partner = c.id /\ r.type = "CUSTOMER" /\ r.gone = c.gone /\ ~r.seeded

\* At revision 1, and from revision 2 on.
CustomersKept(customers, written) ==
    /\ customers \subseteq CustomerRow
    /\ \A c1, c2 \in customers : c1.id = c2.id => c1 = c2
    /\ \A c \in written : \E x \in customers : SameCustomer(x, c)
    /\ \A x \in customers : Written(x.id, written) \/ x.code \in SeedCodes
    /\ \A x \in customers : x.id = WpgId => x.tenant = Home /\ x.code = "WPG"

PartnersKept(partners, roles, written) ==
    /\ partners \subseteq PartnerRow /\ roles \subseteq RoleRow
    /\ \A p, q \in partners : p.id = q.id => p = q
    /\ \A r \in roles : \E p \in partners : p.id = r.partner
    /\ \A q, r \in roles :
          q.type = "CUSTOMER" /\ r.type = "CUSTOMER" /\ q.partner = r.partner => q = r
    /\ \A c \in written : \E p \in partners, r \in roles : Carries(p, r, c)
    /\ \A p \in partners, r \in roles :
          r.partner = p.id /\ r.type = "CUSTOMER" => Written(p.id, written) \/ p.code \in SeedCodes
    /\ \A p \in partners : p.id = WpgId => p.tenant = Home /\ p.code = "WPG"

LEMMA UpperTwice == \A c : Upper(Upper(c)) = Upper(c)
BY DEF Upper

LEMMA UpperIsCode == \A c \in Codes \cup SeedCodes : Upper(c) \in Codes \cup SeedCodes
BY DEF Upper, Codes, SeedCodes

\* 0002 keeps them.
LEMMA MoveKeeps ==
    ASSUME NEW customers, NEW written, CustomersKept(customers, written),
           NEW partners, partners = {Partner(c) : c \in customers},
           NEW roles, roles = {Role(c.id, "CUSTOMER", c.gone, FALSE) : c \in customers}
    PROVE  PartnersKept(partners, roles, written)
<1>. DEFINE P(c) == Partner(c)
            R(c) == Role(c.id, "CUSTOMER", c.gone, FALSE)
<1>1. \A p \in partners : \E c \in customers : p = P(c)
  OBVIOUS
<1>2. \A r \in roles : \E c \in customers : r = R(c)
  OBVIOUS
<1>3. \A c \in customers : P(c) \in partners /\ R(c) \in roles
  OBVIOUS
<1>4. \A c \in customers :
         /\ P(c).id = c.id /\ P(c).tenant = c.tenant /\ P(c).code = Upper(c.code)
         /\ P(c).version = c.version /\ P(c) \in PartnerRow
  <2>. SUFFICES ASSUME NEW c \in customers
                PROVE  /\ P(c).id = c.id /\ P(c).tenant = c.tenant /\ P(c).code = Upper(c.code)
                       /\ P(c).version = c.version /\ P(c) \in PartnerRow
    OBVIOUS
  <2>1. c \in CustomerRow
    BY DEF CustomersKept
  <2>2. Upper(c.code) \in Codes \cup SeedCodes
    BY <2>1, UpperIsCode DEF CustomerRow, Rows
  <2>. QED
    BY <2>1, <2>2 DEF CustomerRow, Rows, PartnerRow, Partner
<1>5. \A c \in customers :
         /\ R(c).partner = c.id /\ R(c).type = "CUSTOMER" /\ R(c).gone = c.gone
         /\ R(c).seeded = FALSE /\ R(c) \in RoleRow
  <2>. SUFFICES ASSUME NEW c \in customers
                PROVE  /\ R(c).partner = c.id /\ R(c).type = "CUSTOMER" /\ R(c).gone = c.gone
                       /\ R(c).seeded = FALSE /\ R(c) \in RoleRow
    OBVIOUS
  <2>1. c \in CustomerRow
    BY DEF CustomersKept
  <2>. QED
    BY <2>1 DEF CustomerRow, Rows, RoleRow, Role
<1>6. \A c1, c2 \in customers : c1.id = c2.id => c1 = c2
  BY DEF CustomersKept
<1>. HIDE DEF P, R
<1>7. partners \subseteq PartnerRow /\ roles \subseteq RoleRow
  BY <1>1, <1>2, <1>4, <1>5
<1>8. \A p, q \in partners : p.id = q.id => p = q
  BY <1>1, <1>4, <1>6
<1>9. \A r \in roles : \E p \in partners : p.id = r.partner
  <2>. SUFFICES ASSUME NEW r \in roles PROVE \E p \in partners : p.id = r.partner
    OBVIOUS
  <2>1. PICK c \in customers : r = R(c)
    BY <1>2
  <2>2. P(c) \in partners /\ P(c).id = r.partner
    BY <1>3, <1>4, <1>5, <2>1
  <2>. QED
    BY <2>2
<1>10. ASSUME NEW q \in roles, NEW r \in roles, q.partner = r.partner PROVE q = r
  <2>1. PICK c1 \in customers : q = R(c1)
    BY <1>2
  <2>2. PICK c2 \in customers : r = R(c2)
    BY <1>2
  <2>. QED
    BY <1>5, <1>6, <1>10, <2>1, <2>2
<1>11. ASSUME NEW c \in written
       PROVE  \E p \in partners, r \in roles : Carries(p, r, c)
  <2>1. PICK x \in customers : SameCustomer(x, c)
    BY DEF CustomersKept
  <2>2. Carries(P(x), R(x), c)
    BY <1>4, <1>5, <2>1 DEF SameCustomer, Carries
  <2>. QED
    BY <1>3, <2>2
<1>12. ASSUME NEW p \in partners
       PROVE  /\ Written(p.id, written) \/ p.code \in SeedCodes
              /\ p.id = WpgId => p.tenant = Home /\ p.code = "WPG"
  <2>1. PICK c \in customers : p = P(c)
    BY <1>1
  <2>2. Written(c.id, written) \/ c.code \in SeedCodes
    BY DEF CustomersKept
  <2>3. c.code \in SeedCodes => Upper(c.code) = c.code
    BY DEF Upper, SeedCodes
  <2>4. c.id = WpgId => c.tenant = Home /\ c.code = "WPG"
    BY DEF CustomersKept
  <2>5. Upper("WPG") = "WPG"
    BY DEF Upper
  <2>. QED
    BY <1>4, <2>1, <2>2, <2>3, <2>4, <2>5
<1>. QED
  BY <1>7, <1>8, <1>9, <1>10, <1>11, <1>12 DEF PartnersKept

\* So does its downgrade.
LEMMA RestoreKeeps ==
    ASSUME NEW partners, NEW roles, NEW written, PartnersKept(partners, roles, written)
    PROVE  CustomersKept(CustomersOf(partners, roles), written)
<1>. DEFINE customers == CustomersOf(partners, roles)
            C(p, r) == Customer(p.id, p.tenant, p.code, r.gone, p.version)
<1>1. \A x \in customers :
         \E p \in partners, r \in roles : r.partner = p.id /\ r.type = "CUSTOMER" /\ x = C(p, r)
  BY DEF CustomersOf
<1>2. \A p \in partners, r \in roles : r.partner = p.id /\ r.type = "CUSTOMER" => C(p, r) \in customers
  BY DEF CustomersOf
<1>3. \A p \in partners, r \in roles :
         /\ C(p, r).id = p.id /\ C(p, r).tenant = p.tenant /\ C(p, r).code = p.code
         /\ C(p, r).gone = r.gone /\ C(p, r).version = p.version /\ C(p, r) \in CustomerRow
  <2>. SUFFICES ASSUME NEW p \in partners, NEW r \in roles
                PROVE  /\ C(p, r).id = p.id /\ C(p, r).tenant = p.tenant /\ C(p, r).code = p.code
                       /\ C(p, r).gone = r.gone /\ C(p, r).version = p.version /\ C(p, r) \in CustomerRow
    OBVIOUS
  <2>1. p \in PartnerRow /\ r \in RoleRow
    BY DEF PartnersKept
  <2>. QED
    BY <2>1 DEF PartnerRow, RoleRow, CustomerRow, Rows, Customer
<1>. HIDE DEF customers, C
<1>4. customers \subseteq CustomerRow
  BY <1>1, <1>3
<1>5. ASSUME NEW c1 \in customers, NEW c2 \in customers, c1.id = c2.id PROVE c1 = c2
  <2>1. PICK p \in partners, r \in roles : r.partner = p.id /\ r.type = "CUSTOMER" /\ c1 = C(p, r)
    BY <1>1
  <2>2. PICK q \in partners, s \in roles : s.partner = q.id /\ s.type = "CUSTOMER" /\ c2 = C(q, s)
    BY <1>1
  <2>3. p = q
    BY <1>3, <1>5, <2>1, <2>2 DEF PartnersKept
  <2>4. r = s
    BY <2>1, <2>2, <2>3 DEF PartnersKept
  <2>. QED
    BY <2>1, <2>2, <2>3, <2>4
<1>6. ASSUME NEW c \in written PROVE \E x \in customers : SameCustomer(x, c)
  <2>1. PICK p \in partners, r \in roles : Carries(p, r, c)
    BY DEF PartnersKept
  <2>2. C(p, r) \in customers
    BY <1>2, <2>1 DEF Carries
  <2>3. SameCustomer(C(p, r), c)
    BY <1>3, <2>1, UpperTwice DEF Carries, SameCustomer
  <2>. QED
    BY <2>2, <2>3
<1>7. ASSUME NEW x \in customers
      PROVE  /\ Written(x.id, written) \/ x.code \in SeedCodes
             /\ x.id = WpgId => x.tenant = Home /\ x.code = "WPG"
  <2>1. PICK p \in partners, r \in roles : r.partner = p.id /\ r.type = "CUSTOMER" /\ x = C(p, r)
    BY <1>1
  <2>2. Written(p.id, written) \/ p.code \in SeedCodes
    BY <2>1 DEF PartnersKept
  <2>3. p.id = WpgId => p.tenant = Home /\ p.code = "WPG"
    BY DEF PartnersKept
  <2>. QED
    BY <1>3, <2>1, <2>2, <2>3
<1>8. CustomersKept(customers, written)
  BY <1>4, <1>5, <1>6, <1>7 DEF CustomersKept
<1>. QED
  BY <1>8 DEF customers

\* So does 0017, whose partner has an id that no other has, and is found by its code.
LEMMA SeedKeeps ==
    ASSUME NEW d, NEW written, PartnersKept(d.partners, d.roles, written)
    PROVE  PartnersKept(WpgPartners(d), WpgRoles(WpgPartners(d), d.roles), written)
<1>. DEFINE partners == WpgPartners(d)
            roles == WpgRoles(partners, d.roles)
            wpg == [id |-> WpgId, tenant |-> Home, code |-> "WPG", version |-> 1]
            R(p) == Role(p.id, "CUSTOMER", FALSE, TRUE)
<1>1. /\ wpg.id = WpgId /\ wpg.tenant = Home /\ wpg.code = "WPG" /\ wpg \in PartnerRow
      /\ wpg.code \in SeedCodes
  BY HomeAssumption DEF PartnerRow, RowIds, SeedCodes
<1>2. d.partners \subseteq partners /\ d.roles \subseteq roles
  BY DEF WpgPartners, WpgRoles
<1>3. \A p \in partners : p \in d.partners \/ (p = wpg /\ \A q \in d.partners : q.id # WpgId)
  <2>1. CASE \E p \in d.partners : p.tenant = Home /\ p.code = "WPG"
    BY <2>1 DEF WpgPartners
  <2>2. CASE ~\E p \in d.partners : p.tenant = Home /\ p.code = "WPG"
    <3>1. \A q \in d.partners : q.id # WpgId
      BY <2>2 DEF PartnersKept
    <3>2. partners = d.partners \cup {wpg}
      BY <2>2 DEF WpgPartners
    <3>. QED
      BY <3>1, <3>2
  <2>. QED
    BY <2>1, <2>2
<1>4. \A r \in roles : r \in d.roles
                       \/ \E p \in partners : /\ p.code = "WPG" /\ r = R(p)
                                              /\ \A q \in d.roles : q.partner = p.id => q.type # "CUSTOMER"
  BY DEF WpgRoles
<1>5. \A p \in partners : R(p).partner = p.id /\ (p \in PartnerRow => R(p) \in RoleRow)
  BY DEF PartnerRow, RoleRow, Role
<1>. HIDE DEF partners, roles, wpg, R
<1>6. partners \subseteq PartnerRow
  BY <1>1, <1>3 DEF PartnersKept
<1>7. roles \subseteq RoleRow
  BY <1>4, <1>5, <1>6 DEF PartnersKept
<1>8. \A p, q \in partners : p.id = q.id => p = q
  BY <1>1, <1>3 DEF PartnersKept
<1>9. ASSUME NEW r \in roles PROVE \E p \in partners : p.id = r.partner
  <2>1. CASE r \in d.roles
    BY <1>2, <2>1 DEF PartnersKept
  <2>2. CASE \E p \in partners : r = R(p)
    BY <1>5, <2>2
  <2>. QED
    BY <1>4, <2>1, <2>2
<1>10. ASSUME NEW q \in roles, NEW r \in roles,
              q.type = "CUSTOMER", r.type = "CUSTOMER", q.partner = r.partner
       PROVE  q = r
  <2>1. CASE q \in d.roles /\ r \in d.roles
    BY <1>10, <2>1 DEF PartnersKept
  <2>2. CASE q \notin d.roles
    <3>1. PICK p \in partners : q = R(p) /\ \A s \in d.roles : s.partner = p.id => s.type # "CUSTOMER"
      BY <1>4, <2>2
    <3>2. r \notin d.roles
      BY <1>5, <1>10, <3>1
    <3>3. PICK o \in partners : r = R(o)
      BY <1>4, <3>2
    <3>. QED
      BY <1>5, <1>8, <1>10, <3>1, <3>3
  <2>3. CASE r \notin d.roles
    <3>1. PICK p \in partners : r = R(p) /\ \A s \in d.roles : s.partner = p.id => s.type # "CUSTOMER"
      BY <1>4, <2>3
    <3>2. q \notin d.roles
      BY <1>5, <1>10, <3>1
    <3>3. PICK o \in partners : q = R(o)
      BY <1>4, <3>2
    <3>. QED
      BY <1>5, <1>8, <1>10, <3>1, <3>3
  <2>. QED
    BY <2>1, <2>2, <2>3
<1>11. \A c \in written : \E p \in partners, r \in roles : Carries(p, r, c)
  BY <1>2 DEF PartnersKept
<1>12. ASSUME NEW p \in partners, NEW r \in roles, r.partner = p.id, r.type = "CUSTOMER"
       PROVE  Written(p.id, written) \/ p.code \in SeedCodes
  <2>1. CASE p \notin d.partners
    BY <1>1, <1>3, <2>1
  <2>2. CASE p \in d.partners /\ r \in d.roles
    BY <1>12, <2>2 DEF PartnersKept
  <2>3. CASE r \notin d.roles
    <3>1. PICK o \in partners : o.code = "WPG" /\ r = R(o)
      BY <1>4, <2>3
    <3>2. o = p
      BY <1>5, <1>8, <1>12, <3>1
    <3>. QED
      BY <3>1, <3>2 DEF SeedCodes
  <2>. QED
    BY <2>1, <2>2, <2>3
<1>13. \A p \in partners : p.id = WpgId => p.tenant = Home /\ p.code = "WPG"
  BY <1>1, <1>3 DEF PartnersKept
<1>14. PartnersKept(partners, roles, written)
  BY <1>6, <1>7, <1>8, <1>9, <1>10, <1>11, <1>12, <1>13 DEF PartnersKept
<1>. QED
  BY <1>14 DEF partners, roles

\* And its downgrade, which deletes no role and no partner that the program has written.
LEMMA UnseedKeeps ==
    ASSUME NEW partners, NEW roles, NEW written, PartnersKept(partners, roles, written),
           written \subseteq LedgerRow,
           \/ \A p \in partners : p.id # WpgId
           \/ \A r \in Unseeded(roles) : r.partner # WpgId
    PROVE  PartnersKept({p \in partners : p.id # WpgId}, Unseeded(roles), written)
<1>. DEFINE left == {p \in partners : p.id # WpgId}
            kept == Unseeded(roles)
<1>1. left \subseteq partners /\ \A p \in partners : p.id # WpgId => p \in left
  OBVIOUS
<1>2. kept \subseteq roles /\ \A r \in roles : ~r.seeded => r \in kept
  BY DEF Unseeded
<1>. HIDE DEF left, kept
<1>3. left \subseteq PartnerRow /\ kept \subseteq RoleRow
  BY <1>1, <1>2 DEF PartnersKept
<1>4. \A r \in kept : \E p \in left : p.id = r.partner
  <2>. SUFFICES ASSUME NEW r \in kept PROVE \E p \in left : p.id = r.partner
    OBVIOUS
  <2>1. PICK p \in partners : p.id = r.partner
    BY <1>2 DEF PartnersKept
  <2>2. p.id # WpgId
    BY <2>1 DEF kept
  <2>. QED
    BY <1>1, <2>1, <2>2
<1>5. ASSUME NEW c \in written PROVE \E p \in left, r \in kept : Carries(p, r, c)
  <2>1. PICK p \in partners, r \in roles : Carries(p, r, c)
    BY DEF PartnersKept
  <2>2. c.id # WpgId
    BY SeedsAssumption DEF LedgerRow, Rows
  <2>. QED
    BY <1>1, <1>2, <2>1, <2>2 DEF Carries
<1>6. PartnersKept(left, kept, written)
  BY <1>1, <1>2, <1>3, <1>4, <1>5 DEF PartnersKept
<1>. QED
  BY <1>6 DEF left, kept

-----------------------------------------------------------------------------
\* What the program writes keeps them too: a new customer ...
LEMMA NewCustomerKeeps ==
    ASSUME NEW customers, NEW written, CustomersKept(customers, written),
           NEW i \in Ids, NEW tenant \in Tenants, NEW code \in Codes,
           \A x \in customers : x.id # i,
           NEW c, c = Customer(i, tenant, code, FALSE, 1)
    PROVE  CustomersKept(customers \cup {c}, written \cup {c})
<1>1. c.id = i /\ c.tenant = tenant /\ c.code = code /\ c \in CustomerRow
  BY DEF Customer, CustomerRow, Rows, RowIds
<1>2. c.id # WpgId
  BY <1>1, SeedsAssumption
<1>3. \A x \in customers : Written(x.id, written) => Written(x.id, written \cup {c})
  BY DEF Written
<1>4. Written(c.id, written \cup {c})
  BY DEF Written
<1>5. SameCustomer(c, c)
  BY DEF SameCustomer
<1>. QED
  BY <1>1, <1>2, <1>3, <1>4, <1>5 DEF CustomersKept

\* ... also as a partner with its role ...
LEMMA NewPartnerKeeps ==
    ASSUME NEW partners, NEW roles, NEW written, PartnersKept(partners, roles, written),
           NEW i \in Ids, NEW tenant \in Tenants, NEW code \in Codes, code = Upper(code),
           \A x \in partners : x.id # i,
           NEW c, c = Customer(i, tenant, code, FALSE, 1),
           NEW p, p = Partner(c), NEW r, r = Role(i, "CUSTOMER", FALSE, FALSE)
    PROVE  PartnersKept(partners \cup {p}, roles \cup {r}, written \cup {c})
<1>1. /\ p.id = i /\ p.tenant = tenant /\ p.code = code /\ p.version = 1
      /\ p.code \in Codes \cup SeedCodes
  BY DEF Customer, Partner
<1>2. p \in PartnerRow
  BY DEF Customer, Partner, PartnerRow, RowIds
<1>3. r \in RoleRow /\ r.partner = i /\ r.type = "CUSTOMER" /\ r.gone = FALSE /\ r.seeded = FALSE
  BY DEF Role, RoleRow, RowIds
<1>4. c.id = i /\ c.tenant = tenant /\ c.code = code /\ c.version = 1 /\ c.gone = FALSE
  BY DEF Customer
<1>5. Carries(p, r, c)
  BY <1>1, <1>3, <1>4 DEF Carries
<1>6. \A q \in roles : q.partner # i
  BY DEF PartnersKept
<1>7. i # WpgId
  BY SeedsAssumption
<1>8. Written(i, written \cup {c}) /\ \A j : Written(j, written) => Written(j, written \cup {c})
  BY <1>4 DEF Written
<1>. DEFINE all == partners \cup {p}
            held == roles \cup {r}
<1>9. all \subseteq PartnerRow /\ held \subseteq RoleRow
  BY <1>2, <1>3 DEF PartnersKept
<1>10. \A x, y \in all : x.id = y.id => x = y
  <2>1. \A x, y \in partners : x.id = y.id => x = y
    BY DEF PartnersKept
  <2>2. \A x \in all : x \in partners \/ x = p
    OBVIOUS
  <2>. HIDE DEF all
  <2>. QED
    BY <1>1, <2>1, <2>2
<1>11. \A q \in held : \E x \in all : x.id = q.partner
  BY <1>1, <1>3 DEF PartnersKept
<1>12. \A q, s \in held :
          q.type = "CUSTOMER" /\ s.type = "CUSTOMER" /\ q.partner = s.partner => q = s
  <2>1. \A q, s \in roles :
           q.type = "CUSTOMER" /\ s.type = "CUSTOMER" /\ q.partner = s.partner => q = s
    BY DEF PartnersKept
  <2>2. ASSUME NEW q \in held, NEW s \in held,
               q.type = "CUSTOMER", s.type = "CUSTOMER", q.partner = s.partner
        PROVE  q = s
    <3>1. CASE q = r
      BY <1>3, <1>6, <2>2, <3>1
    <3>2. CASE s = r
      BY <1>3, <1>6, <2>2, <3>2
    <3>3. CASE q \in roles /\ s \in roles
      BY <2>1, <2>2, <3>3
    <3>. QED
      BY <3>1, <3>2, <3>3
  <2>. QED
    BY <2>2
<1>13. \A x \in written \cup {c} : \E q \in all, s \in held : Carries(q, s, x)
  BY <1>5 DEF PartnersKept
<1>14. \A x \in all, s \in held :
          s.partner = x.id /\ s.type = "CUSTOMER" => Written(x.id, written \cup {c}) \/ x.code \in SeedCodes
  <2>1. \A x \in partners, s \in roles :
          s.partner = x.id /\ s.type = "CUSTOMER" => Written(x.id, written) \/ x.code \in SeedCodes
    BY DEF PartnersKept
  <2>2. ASSUME NEW x \in all, NEW s \in held, s.partner = x.id, s.type = "CUSTOMER"
        PROVE  Written(x.id, written \cup {c}) \/ x.code \in SeedCodes
    <3>1. CASE x = p \/ s = r
      BY <1>1, <1>3, <1>8, <2>2, <3>1
    <3>2. CASE x # p /\ s # r
      BY <1>8, <2>1, <2>2, <3>2
    <3>. QED
      BY <3>1, <3>2
  <2>. QED
    BY <2>2
<1>15. \A x \in all : x.id = WpgId => x.tenant = Home /\ x.code = "WPG"
  BY <1>1, <1>7 DEF PartnersKept
<1>. QED
  BY <1>9, <1>10, <1>11, <1>12, <1>13, <1>14, <1>15 DEF PartnersKept

\* ... a new supplier ...
LEMMA NewSupplierKeeps ==
    ASSUME NEW partners, NEW roles, NEW written, PartnersKept(partners, roles, written),
           NEW i \in Ids, NEW tenant \in Tenants, NEW code \in Codes, code = Upper(code),
           \A x \in partners : x.id # i,
           NEW p, p = Partner(Customer(i, tenant, code, FALSE, 1)),
           NEW r, r = Role(i, "SUPPLIER", FALSE, FALSE)
    PROVE  PartnersKept(partners \cup {p}, roles \cup {r}, written)
<1>1. p.id = i /\ p.tenant = tenant /\ p.code = code /\ p.version = 1
  BY DEF Customer, Partner
<1>2. p \in PartnerRow
  BY DEF Customer, Partner, PartnerRow, RowIds
<1>3. r \in RoleRow /\ r.partner = i /\ r.type = "SUPPLIER"
  BY DEF Role, RoleRow, RowIds
<1>4. \A q \in roles : q.partner # i
  BY DEF PartnersKept
<1>5. i # WpgId
  BY SeedsAssumption
<1>. DEFINE all == partners \cup {p}
            held == roles \cup {r}
<1>6. all \subseteq PartnerRow /\ held \subseteq RoleRow
  BY <1>2, <1>3 DEF PartnersKept
<1>7. \A x, y \in all : x.id = y.id => x = y
  <2>1. \A x, y \in partners : x.id = y.id => x = y
    BY DEF PartnersKept
  <2>2. \A x \in all : x \in partners \/ x = p
    OBVIOUS
  <2>. HIDE DEF all
  <2>. QED
    BY <1>1, <2>1, <2>2
<1>8. \A q \in held : \E x \in all : x.id = q.partner
  BY <1>1, <1>3 DEF PartnersKept
<1>9. \A q, s \in held :
         q.type = "CUSTOMER" /\ s.type = "CUSTOMER" /\ q.partner = s.partner => q = s
  BY <1>3 DEF PartnersKept
<1>10. \A x \in written : \E q \in all, s \in held : Carries(q, s, x)
  BY DEF PartnersKept
<1>11. \A x \in all, s \in held :
          s.partner = x.id /\ s.type = "CUSTOMER" => Written(x.id, written) \/ x.code \in SeedCodes
  <2>1. \A x \in partners, s \in roles :
          s.partner = x.id /\ s.type = "CUSTOMER" => Written(x.id, written) \/ x.code \in SeedCodes
    BY DEF PartnersKept
  <2>2. ASSUME NEW x \in all, NEW s \in held, s.partner = x.id, s.type = "CUSTOMER"
        PROVE  Written(x.id, written) \/ x.code \in SeedCodes
    <3>1. s \in roles /\ x # p
      BY <1>1, <1>3, <1>4, <2>2
    <3>2. x \in partners
      BY <3>1
    <3>. QED
      BY <2>1, <2>2, <3>1, <3>2
  <2>. QED
    BY <2>2
<1>12. \A x \in all : x.id = WpgId => x.tenant = Home /\ x.code = "WPG"
  BY <1>1, <1>5 DEF PartnersKept
<1>. QED
  BY <1>6, <1>7, <1>8, <1>9, <1>10, <1>11, <1>12 DEF PartnersKept

\* ... and a customer deleted, which all of its rows tell.
LEMMA DeletedIs ==
    ASSUME NEW codes, NEW ids,
           NEW c \in Rows(ids, codes)
    PROVE  /\ Deleted(c) \in Rows(ids, codes)
           /\ Deleted(c).id = c.id /\ Deleted(c).tenant = c.tenant /\ Deleted(c).code = c.code
           /\ Deleted(c).gone = TRUE /\ Deleted(c).version = c.version + 1
<1>1. Deleted(c) = [[c EXCEPT !.gone = TRUE] EXCEPT !.version = c.version + 1]
  BY DEF Deleted
<1>. DEFINE gone == [c EXCEPT !.gone = TRUE]
<1>2. /\ gone \in Rows(ids, codes)
      /\ gone.id = c.id /\ gone.tenant = c.tenant /\ gone.code = c.code
      /\ gone.gone = TRUE /\ gone.version = c.version
  BY DEF Rows
<1>3. Deleted(c) = [gone EXCEPT !.version = gone.version + 1]
  BY <1>1, <1>2
<1>. HIDE DEF gone
<1>. QED
  BY <1>2, <1>3 DEF Rows

\* No two customers that the program has written have one id.
Distinct(written) ==
    written \subseteq LedgerRow /\ \A c, d \in written : c.id = d.id => c = d

LEMMA DeletionIsDistinct ==
    ASSUME NEW written, Distinct(written), NEW c \in written
    PROVE  LET left == (written \ {c}) \cup {Deleted(c)}
           IN  /\ Distinct(left) /\ \A i : Written(i, written) <=> Written(i, left)
               /\ \A d \in left : d = Deleted(c) \/ (d \in written /\ d.id # c.id)
<1>. DEFINE left == (written \ {c}) \cup {Deleted(c)}
<1>1. c \in LedgerRow
  BY DEF Distinct
<1>2. Deleted(c) \in LedgerRow /\ Deleted(c).id = c.id
  <2>1. c \in Rows(Ids, Codes)
    BY <1>1 DEF LedgerRow
  <2>2. /\ Deleted(c) \in Rows(Ids, Codes)
        /\ Deleted(c).id = c.id
    BY <2>1, DeletedIs
  <2>. QED
    BY <2>2 DEF LedgerRow
<1>3. \A d \in left : d = Deleted(c) \/ (d \in written /\ d.id # c.id)
  BY DEF Distinct
<1>4. Distinct(left)
  BY <1>2, <1>3 DEF Distinct
<1>5. \A d \in written : d = c \/ d \in left
  OBVIOUS
<1>6. Deleted(c) \in left
  OBVIOUS
<1>7. \A i : Written(i, written) <=> Written(i, left)
  BY <1>2, <1>3, <1>5, <1>6 DEF Written
<1>. QED
  BY <1>3, <1>4, <1>7

LEMMA DeletionKeeps ==
    ASSUME NEW customers, NEW written, CustomersKept(customers, written), Distinct(written),
           NEW c \in written
    PROVE  CustomersKept({IF x.id = c.id THEN Deleted(x) ELSE x : x \in customers},
                         (written \ {c}) \cup {Deleted(c)})
<1>. DEFINE D(x) == IF x.id = c.id THEN Deleted(x) ELSE x
            after == {D(x) : x \in customers}
            left == (written \ {c}) \cup {Deleted(c)}
<1>1. \A x \in customers : x \in Rows(RowIds, Codes \cup SeedCodes)
  BY DEF CustomersKept, CustomerRow
<1>2. c \in Rows(Ids, Codes)
  BY DEF Distinct, LedgerRow
<1>3. \A x \in customers :
         /\ D(x) \in CustomerRow /\ D(x).id = x.id /\ D(x).tenant = x.tenant /\ D(x).code = x.code
         /\ x.id = c.id => D(x).gone = TRUE /\ D(x).version = x.version + 1
         /\ x.id # c.id => D(x) = x
  BY <1>1, DeletedIs DEF CustomerRow
<1>4. /\ Deleted(c).id = c.id /\ Deleted(c).tenant = c.tenant /\ Deleted(c).code = c.code
      /\ Deleted(c).gone = TRUE /\ Deleted(c).version = c.version + 1
  BY <1>2, DeletedIs
<1>5. /\ \A i : Written(i, written) <=> Written(i, left)
      /\ \A d \in left : d = Deleted(c) \/ (d \in written /\ d.id # c.id)
  BY DeletionIsDistinct
<1>6. \A y \in after : \E x \in customers : y = D(x)
  OBVIOUS
<1>7. \A x \in customers : D(x) \in after
  OBVIOUS
<1>. HIDE DEF D, after, left
<1>8. after \subseteq CustomerRow
  BY <1>3, <1>6
<1>9. ASSUME NEW y \in after, NEW z \in after, y.id = z.id PROVE y = z
  <2>1. PICK u \in customers : y = D(u)
    BY <1>6
  <2>2. PICK v \in customers : z = D(v)
    BY <1>6
  <2>3. u = v
    BY <1>3, <1>9, <2>1, <2>2 DEF CustomersKept
  <2>. QED
    BY <2>1, <2>2, <2>3
<1>10. ASSUME NEW d \in left PROVE \E y \in after : SameCustomer(y, d)
  <2>1. CASE d = Deleted(c)
    <3>1. PICK x \in customers : SameCustomer(x, c)
      BY DEF CustomersKept
    <3>2. SameCustomer(D(x), d)
      BY <1>3, <1>4, <2>1, <3>1 DEF SameCustomer
    <3>. QED
      BY <1>7, <3>2
  <2>2. CASE d \in written /\ d.id # c.id
    <3>1. PICK x \in customers : SameCustomer(x, d)
      BY <2>2 DEF CustomersKept
    <3>2. D(x) = x
      BY <1>3, <2>2, <3>1 DEF SameCustomer
    <3>. QED
      BY <1>7, <3>1, <3>2
  <2>. QED
    BY <1>5, <2>1, <2>2
<1>11. ASSUME NEW y \in after
       PROVE  /\ Written(y.id, left) \/ y.code \in SeedCodes
              /\ y.id = WpgId => y.tenant = Home /\ y.code = "WPG"
  <2>1. PICK x \in customers : y = D(x)
    BY <1>6
  <2>2. /\ Written(x.id, written) \/ x.code \in SeedCodes
        /\ x.id = WpgId => x.tenant = Home /\ x.code = "WPG"
    BY DEF CustomersKept
  <2>. QED
    BY <1>3, <1>5, <2>1, <2>2
<1>12. CustomersKept(after, left)
  BY <1>8, <1>9, <1>10, <1>11 DEF CustomersKept
<1>. QED
  BY <1>12 DEF after, left, D

LEMMA PartnerDeletionKeeps ==
    ASSUME NEW partners, NEW roles, NEW written, PartnersKept(partners, roles, written),
           Distinct(written), NEW c \in written
    PROVE  PartnersKept({IF x.id = c.id THEN [x EXCEPT !.version = @ + 1] ELSE x : x \in partners},
                        {IF x.partner = c.id THEN [x EXCEPT !.gone = TRUE] ELSE x : x \in roles},
                        (written \ {c}) \cup {Deleted(c)})
<1>. DEFINE P(x) == IF x.id = c.id THEN [x EXCEPT !.version = @ + 1] ELSE x
            R(x) == IF x.partner = c.id THEN [x EXCEPT !.gone = TRUE] ELSE x
            all == {P(x) : x \in partners}
            held == {R(x) : x \in roles}
            left == (written \ {c}) \cup {Deleted(c)}
<1>1. \A x \in partners : x \in PartnerRow
  BY DEF PartnersKept
<1>2. \A x \in roles : x \in RoleRow
  BY DEF PartnersKept
<1>3. c \in Rows(Ids, Codes)
  BY DEF Distinct, LedgerRow
<1>4. \A x \in partners :
         /\ P(x) \in PartnerRow /\ P(x).id = x.id /\ P(x).tenant = x.tenant /\ P(x).code = x.code
         /\ x.id = c.id => P(x).version = x.version + 1
         /\ x.id # c.id => P(x) = x
  BY <1>1 DEF PartnerRow
<1>5. \A x \in roles :
         /\ R(x) \in RoleRow /\ R(x).partner = x.partner /\ R(x).type = x.type
         /\ R(x).seeded = x.seeded
         /\ x.partner = c.id => R(x).gone = TRUE
         /\ x.partner # c.id => R(x) = x
  BY <1>2 DEF RoleRow
<1>6. /\ Deleted(c).id = c.id /\ Deleted(c).tenant = c.tenant /\ Deleted(c).code = c.code
      /\ Deleted(c).gone = TRUE /\ Deleted(c).version = c.version + 1
  BY <1>3, DeletedIs
<1>7. /\ \A i : Written(i, written) <=> Written(i, left)
      /\ \A d \in left : d = Deleted(c) \/ (d \in written /\ d.id # c.id)
  BY DeletionIsDistinct
<1>8. /\ \A y \in all : \E x \in partners : y = P(x)
      /\ \A y \in held : \E x \in roles : y = R(x)
      /\ \A x \in partners : P(x) \in all
      /\ \A x \in roles : R(x) \in held
  OBVIOUS
<1>. HIDE DEF P, R, all, held, left
<1>9. all \subseteq PartnerRow /\ held \subseteq RoleRow
  BY <1>4, <1>5, <1>8
<1>10. ASSUME NEW y \in all, NEW z \in all, y.id = z.id PROVE y = z
  <2>1. PICK u \in partners : y = P(u)
    BY <1>8
  <2>2. PICK v \in partners : z = P(v)
    BY <1>8
  <2>3. u = v
    BY <1>4, <1>10, <2>1, <2>2 DEF PartnersKept
  <2>. QED
    BY <2>1, <2>2, <2>3
<1>11. ASSUME NEW y \in held PROVE \E x \in all : x.id = y.partner
  <2>1. PICK r \in roles : y = R(r)
    BY <1>8
  <2>2. PICK p \in partners : p.id = r.partner
    BY DEF PartnersKept
  <2>. QED
    BY <1>4, <1>5, <1>8, <2>1, <2>2
<1>12. ASSUME NEW y \in held, NEW z \in held,
              y.type = "CUSTOMER", z.type = "CUSTOMER", y.partner = z.partner
       PROVE  y = z
  <2>1. PICK u \in roles : y = R(u)
    BY <1>8
  <2>2. PICK v \in roles : z = R(v)
    BY <1>8
  <2>3. u = v
    BY <1>5, <1>12, <2>1, <2>2 DEF PartnersKept
  <2>. QED
    BY <2>1, <2>2, <2>3
<1>13. ASSUME NEW d \in left PROVE \E p \in all, r \in held : Carries(p, r, d)
  <2>1. CASE d = Deleted(c)
    <3>1. PICK p \in partners, r \in roles : Carries(p, r, c)
      BY DEF PartnersKept
    <3>2. Carries(P(p), R(r), d)
      BY <1>4, <1>5, <1>6, <2>1, <3>1 DEF Carries
    <3>. QED
      BY <1>8, <3>2
  <2>2. CASE d \in written /\ d.id # c.id
    <3>1. PICK p \in partners, r \in roles : Carries(p, r, d)
      BY <2>2 DEF PartnersKept
    <3>2. P(p) = p /\ R(r) = r
      BY <1>4, <1>5, <2>2, <3>1 DEF Carries
    <3>3. p \in all /\ r \in held
      BY <1>8, <3>2
    <3>. QED
      BY <3>1, <3>3
  <2>. QED
    BY <1>7, <2>1, <2>2
<1>14. ASSUME NEW y \in all, NEW s \in held, s.partner = y.id, s.type = "CUSTOMER"
       PROVE  Written(y.id, left) \/ y.code \in SeedCodes
  <2>1. PICK p \in partners : y = P(p)
    BY <1>8
  <2>2. PICK r \in roles : s = R(r)
    BY <1>8
  <2>3. r.partner = p.id /\ r.type = "CUSTOMER"
    BY <1>4, <1>5, <1>14, <2>1, <2>2
  <2>4. Written(p.id, written) \/ p.code \in SeedCodes
    BY <2>3 DEF PartnersKept
  <2>. QED
    BY <1>4, <1>7, <2>1, <2>4
<1>15. ASSUME NEW y \in all PROVE y.id = WpgId => y.tenant = Home /\ y.code = "WPG"
  <2>1. PICK p \in partners : y = P(p)
    BY <1>8
  <2>2. p.id = WpgId => p.tenant = Home /\ p.code = "WPG"
    BY DEF PartnersKept
  <2>. QED
    BY <1>4, <2>1, <2>2
<1>16. PartnersKept(all, held, left)
  BY <1>9, <1>10, <1>11, <1>12, <1>13, <1>14, <1>15 DEF PartnersKept
<1>. QED
  BY <1>16 DEF all, held, left, P, R

-----------------------------------------------------------------------------
\* The inductive invariant: where the program's customers are at revision r.

KeptAt(r, d, written) ==
    /\ r = 0 => d.customers = {} /\ d.partners = {} /\ d.roles = {}
    /\ r = 1 => CustomersKept(d.customers, written) /\ d.partners = {} /\ d.roles = {}
    /\ r >= 2 => d.customers = {} /\ PartnersKept(d.partners, d.roles, written)

\* Revision 0001 comes with no customer of the program, and its downgrade drops them.
LEMMA UpgradeKeeps ==
    ASSUME NEW d, DOMAIN d = Fields, NEW written, Distinct(written),
           NEW r \in 1..19, r = 1 => written = {}, KeptAt(r - 1, d, written)
    PROVE  /\ DOMAIN Upgrade(r, d) = Fields /\ Upgrade(r, d).rev = d.rev
           /\ Sound(Upgrade(r, d)) => KeptAt(r, Upgrade(r, d), written)
<1>1. CASE r = 1
  <2>. DEFINE seed == Customer(SeedId, Home, "CUST001", FALSE, 1)
  <2>1. /\ seed \in CustomerRow /\ seed.code \in SeedCodes /\ seed.id # WpgId
    BY HomeAssumption DEF Customer, CustomerRow, Rows, RowIds, SeedCodes, SeedId, WpgId
  <2>2. d.customers = {} /\ d.partners = {} /\ d.roles = {}
    BY <1>1 DEF KeptAt
  <2>3. Moves(d, Upgrade(r, d), d.customers \cup {seed}, d.partners, d.roles)
    BY <1>1, Upgrade1
  <2>. HIDE DEF seed
  <2>4. CustomersKept({seed}, {})
    BY <2>1 DEF CustomersKept
  <2>5. d.customers \cup {seed} = {seed}
    BY <2>2
  <2>6. CustomersKept(d.customers \cup {seed}, written)
    BY <1>1, <2>4, <2>5
  <2>. QED
    BY <1>1, <2>2, <2>3, <2>6 DEF Moves, KeptAt
<1>2. CASE r = 2
  <2>. DEFINE partners == {Partner(c) : c \in d.customers}
              roles == {Role(c.id, "CUSTOMER", c.gone, FALSE) : c \in d.customers}
  <2>1. CustomersKept(d.customers, written)
    BY <1>2 DEF KeptAt
  <2>2. PartnersKept(partners, roles, written)
    BY <2>1, MoveKeeps
  <2>3. Moves(d, Upgrade(r, d), {}, partners, roles)
    BY <1>2, Upgrade2
  <2>. HIDE DEF partners, roles
  <2>. QED
    BY <1>2, <2>2, <2>3 DEF Moves, KeptAt
<1>3. CASE r \in (3..16) \cup {19}
  <2>1. Quiet(d, Upgrade(r, d))
    BY <1>3, QuietUpgrades
  <2>. QED
    BY <1>3, <2>1 DEF Quiet, SamePeople, KeptAt
<1>4. CASE r = 17
  <2>1. d.customers = {} /\ PartnersKept(d.partners, d.roles, written)
    BY <1>4 DEF KeptAt
  <2>2. PartnersKept(WpgPartners(d), WpgRoles(WpgPartners(d), d.roles), written)
    BY <2>1, SeedKeeps
  <2>3. CASE Quiet(d, Upgrade(17, d))
    BY <1>4, <2>1, <2>3 DEF Quiet, SamePeople, KeptAt
  <2>4. CASE Moves(d, Upgrade(17, d), d.customers, WpgPartners(d), WpgRoles(WpgPartners(d), d.roles))
    BY <1>4, <2>1, <2>2, <2>4 DEF Moves, KeptAt
  <2>. QED
    BY <2>3, <2>4, Upgrade17
<1>5. CASE r = 18
  <2>1. Keeps(d, Upgrade(18, d))
    BY Upgrade18
  <2>. QED
    BY <1>5, <2>1 DEF Keeps, SamePeople, KeptAt
<1>. QED
  BY <1>1, <1>2, <1>3, <1>4, <1>5

LEMMA DowngradeKeeps ==
    ASSUME NEW d, DOMAIN d = Fields, NEW written, Distinct(written),
           NEW r \in 1..19, KeptAt(r, d, written)
    PROVE  /\ DOMAIN Downgrade(r, d) = Fields /\ Downgrade(r, d).rev = d.rev
           /\ Sound(Downgrade(r, d)) => KeptAt(r - 1, Downgrade(r, d), written)
<1>1. CASE r = 1
  <2>1. Moves(d, Downgrade(r, d), {}, d.partners, d.roles)
    BY <1>1, Downgrade1
  <2>. QED
    BY <1>1, <2>1 DEF Moves, KeptAt
<1>2. CASE r = 2
  <2>1. PartnersKept(d.partners, d.roles, written)
    BY <1>2 DEF KeptAt
  <2>2. CustomersKept(CustomersOf(d.partners, d.roles), written)
    BY <2>1, RestoreKeeps
  <2>3. Moves(d, Downgrade(r, d), CustomersOf(d.partners, d.roles), {}, {})
    BY <1>2, Downgrade2
  <2>. QED
    BY <1>2, <2>2, <2>3 DEF Moves, KeptAt
<1>3. CASE r \in (3..5) \cup (7..16) \cup {19}
  <2>1. Quiet(d, Downgrade(r, d))
    BY <1>3, QuietDowngrades
  <2>. QED
    BY <1>3, <2>1 DEF Quiet, SamePeople, KeptAt
<1>4. CASE r = 17
  <2>. DEFINE left == {p \in d.partners : p.id # WpgId}
              kept == Unseeded(d.roles)
  <2>1. d.customers = {} /\ PartnersKept(d.partners, d.roles, written)
    BY <1>4 DEF KeptAt
  <2>2. ASSUME \/ \A p \in d.partners : p.id # WpgId
               \/ \A q \in kept : q.partner # WpgId
        PROVE  PartnersKept(left, kept, written)
    BY <2>1, <2>2, UnseedKeeps DEF Distinct
  <2>3. CASE Quiet(d, Downgrade(17, d))
    BY <1>4, <2>1, <2>3 DEF Quiet, SamePeople, KeptAt
  <2>4. CASE ~Quiet(d, Downgrade(17, d))
    <3>1. /\ Moves(d, Downgrade(17, d), d.customers, left, kept)
          /\ Sound(Downgrade(17, d)) => \/ \A p \in d.partners : p.id # WpgId
                                           \/ \A q \in kept : q.partner # WpgId
      BY <2>4, Downgrade17
    <3>. HIDE DEF left, kept
    <3>. QED
      BY <1>4, <2>1, <2>2, <3>1 DEF Moves, KeptAt
  <2>. QED
    BY <2>3, <2>4
<1>5. CASE r \in {6, 18}
  <2>1. Keeps(d, Downgrade(r, d))
    BY <1>5, Downgrade6, Downgrade18
  <2>. QED
    BY <1>5, <2>1 DEF Keeps, SamePeople, KeptAt
<1>. QED
  BY <1>1, <1>2, <1>3, <1>4, <1>5

KeptInv ==
    /\ DOMAIN db = Fields /\ DOMAIN work = Fields
    /\ db.rev \in 0..19 /\ work.rev \in 0..19 /\ goal \in 0..19 \cup {Idle}
    /\ Sound(db)
    /\ goal = Idle => work = Empty
    /\ Distinct(ledger)
    /\ db.rev = 0 => ledger = {}
    /\ goal > 0 /\ work.rev = 0 => ledger = {}
    /\ KeptAt(db.rev, db, ledger)
    /\ Sound(work) => KeptAt(work.rev, work, ledger)

LEMMA EmptyIs ==
    /\ DOMAIN Empty = Fields /\ Empty.rev = 0 /\ Sound(Empty)
    /\ Empty.customers = {} /\ Empty.partners = {} /\ Empty.roles = {}
    /\ Empty.orders = {} /\ Empty.messages = {}
BY DEF Empty, Fields, Sound

LEMMA EmptyIsKept == ASSUME NEW written PROVE KeptAt(Empty.rev, Empty, written)
BY EmptyIs DEF KeptAt

LEMMA KeptInit == Init => KeptInv
<1>1. Distinct({})
  BY DEF Distinct
<1>. QED
  BY <1>1, EmptyIs, EmptyIsKept DEF Init, KeptInv, Idle

\* A record with another revision.
LEMMA RevisionOnly ==
    ASSUME NEW d, DOMAIN d = Fields, NEW r
    PROVE  LET e == [d EXCEPT !.rev = r]
           IN  /\ DOMAIN e = Fields /\ e.rev = r /\ (Sound(e) <=> Sound(d))
               /\ SamePeople(d, e) /\ SameTraffic(d, e)
BY DEF Sound, Fields, SamePeople, SameTraffic

\* What a revision does to the database of a run.
LEMMA StepIs ==
    ASSUME KeptInv, Step
    PROVE  /\ goal \in 0..19 /\ work.rev \in 0..19 /\ Sound(work) /\ DOMAIN work = Fields
           /\ UNCHANGED <<db, goal, env, ledger, writes>>
           /\ \/ /\ goal > work.rev
                 /\ work' = [Upgrade(work.rev + 1, work) EXCEPT !.rev = Upgrade(work.rev + 1, work).rev + 1]
              \/ /\ goal < work.rev
                 /\ work' = [Downgrade(work.rev, work) EXCEPT !.rev = Downgrade(work.rev, work).rev - 1]
<1>1. goal \in 0..19 /\ work.rev # goal /\ work.rev \in 0..19 /\ Sound(work) /\ DOMAIN work = Fields
  BY DEF Step, KeptInv, Idle
<1>2. CASE goal > work.rev
  BY <1>1, <1>2 DEF Step
<1>3. CASE goal < work.rev
  BY <1>1, <1>3 DEF Step
<1>. QED
  BY <1>1, <1>2, <1>3 DEF Step

LEMMA KeptStep == ASSUME KeptInv, Step PROVE KeptInv'
<1>1. /\ goal \in 0..19 /\ work.rev \in 0..19 /\ Sound(work) /\ DOMAIN work = Fields
      /\ UNCHANGED <<db, goal, env, ledger, writes>>
  BY StepIs
<1>2. Distinct(ledger) /\ KeptAt(work.rev, work, ledger)
  BY <1>1 DEF KeptInv
<1>3. CASE goal > work.rev
  <2>. DEFINE r == work.rev + 1
              next == Upgrade(r, work)
  <2>1. work' = [next EXCEPT !.rev = next.rev + 1] /\ r \in 1..19
    BY <1>1, <1>3, StepIs
  <2>2. r = 1 => ledger = {}
    BY <1>1, <1>3 DEF KeptInv
  <2>3. KeptAt(r - 1, work, ledger)
    BY <1>1, <1>2
  <2>4. /\ DOMAIN next = Fields /\ next.rev = work.rev
        /\ Sound(next) => KeptAt(r, next, ledger)
    BY <1>1, <1>2, <2>1, <2>2, <2>3, UpgradeKeeps
  <2>. HIDE DEF next
  <2>5. /\ DOMAIN work' = Fields /\ work'.rev = r /\ (Sound(work') <=> Sound(next)) /\ SamePeople(next, work')
    BY <2>1, <2>4, RevisionOnly
  <2>6. Sound(work') => KeptAt(work'.rev, work', ledger)
    BY <2>4, <2>5 DEF SamePeople, KeptAt
  <2>. QED
    BY <1>1, <2>1, <2>5, <2>6 DEF KeptInv, Idle
<1>4. CASE goal < work.rev
  <2>. DEFINE r == work.rev
              next == Downgrade(r, work)
  <2>1. work' = [next EXCEPT !.rev = next.rev - 1] /\ r \in 1..19
    BY <1>1, <1>4, StepIs
  <2>2. /\ DOMAIN next = Fields /\ next.rev = work.rev
        /\ Sound(next) => KeptAt(r - 1, next, ledger)
    BY <1>1, <1>2, <2>1, DowngradeKeeps
  <2>. HIDE DEF next
  <2>3. /\ DOMAIN work' = Fields /\ work'.rev = r - 1 /\ (Sound(work') <=> Sound(next)) /\ SamePeople(next, work')
    BY <2>1, <2>2, RevisionOnly
  <2>4. Sound(work') => KeptAt(work'.rev, work', ledger)
    BY <2>2, <2>3 DEF SamePeople, KeptAt
  <2>5. work'.rev \in 0..19 /\ goal # Idle /\ (work'.rev = 0 => ~(goal > 0))
    <3>1. r - 1 \in 0..19 /\ goal # Idle /\ (r - 1 = 0 => ~(goal > 0))
      BY <1>1, <1>4 DEF Idle
    <3>. QED
      BY <2>3, <3>1
  <2>. QED
    BY <1>1, <2>3, <2>4, <2>5 DEF KeptInv
<1>. QED
  BY <1>1, <1>3, <1>4, StepIs

\* The start and the end of a run.
LEMMA KeptRun ==
    ASSUME KeptInv, (\E t \in Targets, e \in {"local", "prod"} : Begin(t, e)) \/ Commit \/ Rollback
    PROVE  KeptInv'
<1>1. CASE \E t \in Targets, e \in {"local", "prod"} : Begin(t, e)
  BY <1>1, TargetsAssumption DEF Begin, KeptInv, Idle
<1>2. CASE Commit
  <2>1. Distinct({})
    BY DEF Distinct
  <2>2. work.rev = 0 => KeptAt(0, work, {}) /\ KeptAt(0, work, ledger)
    BY <1>2 DEF Commit, KeptInv, KeptAt
  <2>3. KeptAt(work.rev, work, ledger')
    BY <1>2, <2>2 DEF Commit, KeptInv
  <2>. QED
    BY <1>2, <2>1, <2>3, EmptyIs, EmptyIsKept DEF Commit, KeptInv, Idle
<1>3. CASE Rollback
  BY <1>3, EmptyIs, EmptyIsKept DEF Rollback, KeptInv, Idle
<1>. QED
  BY <1>1, <1>2, <1>3

\* The writes of the program.
LEMMA WriteKeeps ==
    ASSUME KeptInv, NEW d, Write(d), DOMAIN d = Fields, d.rev = db.rev, Sound(d),
           Distinct(ledger'), db.rev = 0 => ledger' = {}, KeptAt(db.rev, d, ledger')
    PROVE  KeptInv'
<1>1. /\ goal = Idle /\ work = Empty /\ UNCHANGED <<work, goal>> /\ db' = d
  BY DEF Write, KeptInv
<1>. QED
  BY <1>1, EmptyIs, EmptyIsKept DEF KeptInv, Idle

LEMMA KeptCreateCustomer ==
    ASSUME KeptInv, NEW i \in Ids, NEW tenant \in Tenants, NEW code \in Codes,
           CreateCustomer(i, tenant, code)
    PROVE  KeptInv'
<1>. DEFINE c == Customer(i, tenant, code, FALSE, 1)
            p == Partner(c)
            r == Role(i, "CUSTOMER", FALSE, FALSE)
<1>1. /\ db.rev \in 1..19 /\ DOMAIN db = Fields /\ Sound(db) /\ Distinct(ledger)
      /\ ledger' = ledger \cup {c}
      /\ \A x \in db.customers \cup db.partners \cup ledger : x.id # i
      /\ db.rev >= 2 => code = Upper(code)
  BY DEF CreateCustomer, KeptInv, Fresh
<1>2. c \in LedgerRow /\ c.id = i
  BY DEF Customer, LedgerRow, Rows
<1>3. Distinct(ledger')
  BY <1>1, <1>2 DEF Distinct
<1>4. CASE db.rev = 1
  <2>. DEFINE d == [db EXCEPT !.customers = @ \cup {c}]
  <2>1. Write(d)
    BY <1>4 DEF CreateCustomer
  <2>2. CustomersKept(db.customers, ledger) /\ db.partners = {} /\ db.roles = {}
    BY <1>4 DEF KeptInv, KeptAt
  <2>3. CustomersKept(db.customers \cup {c}, ledger')
    BY <1>1, <2>2, NewCustomerKeeps
  <2>. HIDE DEF c
  <2>4. /\ DOMAIN d = Fields /\ d.rev = db.rev /\ (Sound(d) <=> Sound(db))
        /\ d.customers = db.customers \cup {c} /\ d.partners = db.partners /\ d.roles = db.roles
    BY <1>1 DEF Sound, Fields
  <2>. HIDE DEF d
  <2>5. KeptAt(db.rev, d, ledger')
    BY <1>4, <2>2, <2>3, <2>4 DEF KeptAt
  <2>6. db.rev # 0 /\ Sound(d)
    BY <1>1, <2>4
  <2>. QED
    BY <1>3, <2>1, <2>4, <2>5, <2>6, WriteKeeps
<1>5. CASE db.rev >= 2
  <2>. DEFINE d == [db EXCEPT !.partners = @ \cup {p}, !.roles = @ \cup {r}]
  <2>1. Write(d)
    BY <1>1, <1>5 DEF CreateCustomer
  <2>2. db.customers = {} /\ PartnersKept(db.partners, db.roles, ledger)
    BY <1>5 DEF KeptInv, KeptAt
  <2>3. PartnersKept(db.partners \cup {p}, db.roles \cup {r}, ledger')
    BY <1>1, <1>5, <2>2, NewPartnerKeeps
  <2>. HIDE DEF p, r
  <2>4. /\ DOMAIN d = Fields /\ d.rev = db.rev /\ (Sound(d) <=> Sound(db)) /\ d.customers = db.customers
        /\ d.partners = db.partners \cup {p} /\ d.roles = db.roles \cup {r}
    BY <1>1 DEF Sound, Fields
  <2>. HIDE DEF d
  <2>5. KeptAt(db.rev, d, ledger')
    BY <1>5, <2>2, <2>3, <2>4 DEF KeptAt
  <2>6. db.rev # 0 /\ Sound(d)
    BY <1>1, <2>4
  <2>. QED
    BY <1>3, <2>1, <2>4, <2>5, <2>6, WriteKeeps
<1>. QED
  BY <1>1, <1>4, <1>5

LEMMA KeptCreateSupplier ==
    ASSUME KeptInv, NEW i \in Ids, NEW tenant \in Tenants, NEW code \in Codes,
           CreateSupplier(i, tenant, code)
    PROVE  KeptInv'
<1>. DEFINE p == Partner(Customer(i, tenant, code, FALSE, 1))
            r == Role(i, "SUPPLIER", FALSE, FALSE)
            d == [db EXCEPT !.partners = @ \cup {p}, !.roles = @ \cup {r}]
<1>1. /\ db.rev \in 13..19 /\ DOMAIN db = Fields /\ Sound(db) /\ Distinct(ledger)
      /\ ledger' = ledger /\ \A x \in db.partners : x.id # i
      /\ code = Upper(code) /\ Write(d)
  BY DEF CreateSupplier, KeptInv, Fresh
<1>2. db.customers = {} /\ PartnersKept(db.partners, db.roles, ledger)
  BY <1>1 DEF KeptInv, KeptAt
<1>3. PartnersKept(db.partners \cup {p}, db.roles \cup {r}, ledger)
  BY <1>1, <1>2, NewSupplierKeeps
<1>. HIDE DEF p, r
<1>4. /\ DOMAIN d = Fields /\ d.rev = db.rev /\ (Sound(d) <=> Sound(db)) /\ d.customers = db.customers
      /\ d.partners = db.partners \cup {p} /\ d.roles = db.roles \cup {r}
  BY <1>1 DEF Sound, Fields
<1>. HIDE DEF d
<1>5. KeptAt(db.rev, d, ledger')
  BY <1>1, <1>2, <1>3, <1>4 DEF KeptAt
<1>. QED
  BY <1>1, <1>4, <1>5, WriteKeeps

LEMMA KeptSoftDelete ==
    ASSUME KeptInv, NEW c \in ledger, SoftDeleteCustomer(c)
    PROVE  KeptInv'
<1>. DEFINE left == (ledger \ {c}) \cup {Deleted(c)}
<1>1. /\ db.rev \in 1..19 /\ DOMAIN db = Fields /\ Sound(db) /\ Distinct(ledger)
      /\ ledger' = left
  BY DEF SoftDeleteCustomer, KeptInv
<1>2. Distinct(left)
  BY <1>1, DeletionIsDistinct
<1>. HIDE DEF left
<1>3. CASE db.rev = 1
  <2>. DEFINE customers == {IF x.id = c.id THEN Deleted(x) ELSE x : x \in db.customers}
              d == [db EXCEPT !.customers = {IF x.id = c.id THEN Deleted(x) ELSE x : x \in @}]
  <2>1. Write(d)
    BY <1>3 DEF SoftDeleteCustomer
  <2>2. CustomersKept(db.customers, ledger) /\ db.partners = {} /\ db.roles = {}
    BY <1>3 DEF KeptInv, KeptAt
  <2>3. CustomersKept(customers, left)
    BY <1>1, <2>2, DeletionKeeps DEF left
  <2>4. d = [db EXCEPT !.customers = customers]
    OBVIOUS
  <2>. HIDE DEF customers, d
  <2>5. /\ DOMAIN d = Fields /\ d.rev = db.rev /\ (Sound(d) <=> Sound(db))
        /\ d.customers = customers /\ d.partners = db.partners /\ d.roles = db.roles
    BY <1>1, <2>4 DEF Sound, Fields
  <2>6. KeptAt(db.rev, d, ledger')
    BY <1>1, <1>3, <2>2, <2>3, <2>5 DEF KeptAt
  <2>. QED
    BY <1>1, <1>2, <2>1, <2>5, <2>6, WriteKeeps
<1>4. CASE db.rev >= 2
  <2>. DEFINE partners == {IF x.id = c.id THEN [x EXCEPT !.version = @ + 1] ELSE x : x \in db.partners}
              roles == {IF x.partner = c.id THEN [x EXCEPT !.gone = TRUE] ELSE x : x \in db.roles}
              d == [db EXCEPT !.partners = {IF x.id = c.id THEN [x EXCEPT !.version = @ + 1] ELSE x : x \in @},
                              !.roles = {IF x.partner = c.id THEN [x EXCEPT !.gone = TRUE] ELSE x : x \in @}]
  <2>1. Write(d)
    <3>1. db.rev # 1
      BY <1>1, <1>4
    <3>. QED
      BY <3>1, Zenon DEF SoftDeleteCustomer
  <2>2. db.customers = {} /\ PartnersKept(db.partners, db.roles, ledger)
    BY <1>4 DEF KeptInv, KeptAt
  <2>3. PartnersKept(partners, roles, left)
    BY <1>1, <2>2, PartnerDeletionKeeps DEF left
  <2>4. d = [db EXCEPT !.partners = partners, !.roles = roles]
    BY <1>1 DEF Sound, Fields
  <2>. HIDE DEF partners, roles, d
  <2>5. /\ DOMAIN d = Fields /\ d.rev = db.rev /\ (Sound(d) <=> Sound(db)) /\ d.customers = db.customers
        /\ d.partners = partners /\ d.roles = roles
    BY <1>1, <2>4 DEF Sound, Fields
  <2>6. KeptAt(db.rev, d, ledger')
    BY <1>1, <1>4, <2>2, <2>3, <2>5 DEF KeptAt
  <2>. QED
    BY <1>1, <1>2, <2>1, <2>5, <2>6, WriteKeeps
<1>. QED
  BY <1>1, <1>3, <1>4

\* A write that leaves the people alone.
LEMMA OtherWriteKeeps ==
    ASSUME KeptInv, NEW d, Write(d), DOMAIN d = Fields, d.rev = db.rev, (Sound(d) <=> Sound(db)),
           SamePeople(db, d), UNCHANGED ledger
    PROVE  KeptInv'
<1>1. KeptAt(db.rev, d, ledger')
  BY DEF KeptInv, KeptAt, SamePeople
<1>2. Distinct(ledger') /\ (db.rev = 0 => ledger' = {}) /\ Sound(d)
  BY DEF KeptInv
<1>. QED
  BY <1>1, <1>2, WriteKeeps

LEMMA KeptOtherWrites ==
    ASSUME KeptInv,
           \/ \E p \in Customers, s \in Senders, x \in Exts, l \in Logs \cup {None} : CreateOrder(p, s, x, l)
           \/ \E p \in Customers, s \in Senders, x \in Exts : ReceiveDocument(p, s, x)
           \/ \E f \in HandFamilies : RegisterPermission(f) \/ MapPermission(f)
    PROVE  KeptInv'
<1>1. ASSUME NEW p \in Customers, NEW s \in Senders, NEW x \in Exts, NEW l \in Logs \cup {None},
             CreateOrder(p, s, x, l)
      PROVE  KeptInv'
  <2>. DEFINE order == [id |-> Cardinality(db.orders) + 1, tenant |-> p.tenant, customer |-> p.id,
                        sender |-> s, ext |-> x, link |-> l]
              d == [db EXCEPT !.orders = db.orders \cup {order}]
  <2>1. Write(d) /\ UNCHANGED ledger
    BY <1>1 DEF CreateOrder
  <2>. HIDE DEF order
  <2>2. DOMAIN d = Fields /\ d.rev = db.rev /\ (Sound(d) <=> Sound(db)) /\ SamePeople(db, d)
    BY DEF KeptInv, Sound, Fields, SamePeople
  <2>. HIDE DEF d
  <2>. QED
    BY <2>1, <2>2, OtherWriteKeeps
<1>2. ASSUME NEW p \in Customers, NEW s \in Senders, NEW x \in Exts, ReceiveDocument(p, s, x)
      PROVE  KeptInv'
  <2>1. PICK orders, messages : Write([db EXCEPT !.messages = messages, !.orders = orders])
    BY <1>2, Zenon DEF ReceiveDocument
  <2>. DEFINE d == [db EXCEPT !.messages = messages, !.orders = orders]
  <2>2. UNCHANGED ledger
    BY <1>2 DEF ReceiveDocument
  <2>3. DOMAIN d = Fields /\ d.rev = db.rev /\ (Sound(d) <=> Sound(db)) /\ SamePeople(db, d)
    BY DEF KeptInv, Sound, Fields, SamePeople
  <2>. HIDE DEF d
  <2>. QED
    BY <2>1, <2>2, <2>3, OtherWriteKeeps DEF d
<1>3. ASSUME NEW f \in HandFamilies, RegisterPermission(f) PROVE KeptInv'
  <2>. DEFINE d == [db EXCEPT !.perms = @ \cup {f}]
  <2>1. Write(d) /\ UNCHANGED ledger
    BY <1>3 DEF RegisterPermission
  <2>2. DOMAIN d = Fields /\ d.rev = db.rev /\ (Sound(d) <=> Sound(db)) /\ SamePeople(db, d)
    BY DEF KeptInv, Sound, Fields, SamePeople
  <2>. HIDE DEF d
  <2>. QED
    BY <2>1, <2>2, OtherWriteKeeps
<1>4. ASSUME NEW f \in HandFamilies, MapPermission(f) PROVE KeptInv'
  <2>. DEFINE d == [db EXCEPT !.maps = @ \cup {<<"other", f>>}]
  <2>1. Write(d) /\ UNCHANGED ledger
    BY <1>4 DEF MapPermission
  <2>2. DOMAIN d = Fields /\ d.rev = db.rev /\ (Sound(d) <=> Sound(db)) /\ SamePeople(db, d)
    BY DEF KeptInv, Sound, Fields, SamePeople
  <2>. HIDE DEF d
  <2>. QED
    BY <2>1, <2>2, OtherWriteKeeps
<1>. QED
  BY <1>1, <1>2, <1>3, <1>4

\* The customers of the program are where the revision has them, at every moment of
\* every run.
LEMMA KeptAlways == Spec => []KeptInv
<1>1. ASSUME KeptInv, [Next]_vars PROVE KeptInv'
  <2>1. CASE \E t \in Targets, e \in {"local", "prod"} : Begin(t, e)
    BY <1>1, <2>1, KeptRun
  <2>2. CASE Step
    BY <1>1, <2>2, KeptStep
  <2>3. CASE Commit \/ Rollback
    BY <1>1, <2>3, KeptRun
  <2>4. CASE \E i \in Ids, t \in Tenants, c \in Codes : CreateCustomer(i, t, c) \/ CreateSupplier(i, t, c)
    BY <1>1, <2>4, KeptCreateCustomer, KeptCreateSupplier
  <2>5. CASE \E c \in ledger : SoftDeleteCustomer(c)
    BY <1>1, <2>5, KeptSoftDelete
  <2>6. CASE \/ \E p \in Customers, s \in Senders, x \in Exts :
                   (\E l \in Logs \cup {None} : CreateOrder(p, s, x, l)) \/ ReceiveDocument(p, s, x)
             \/ \E f \in HandFamilies : RegisterPermission(f) \/ MapPermission(f)
    BY <1>1, <2>6, KeptOtherWrites
  <2>7. CASE UNCHANGED vars
    BY <1>1, <2>7 DEF vars, KeptInv, KeptAt, Distinct, Sound
  <2>. QED
    BY <1>1, <2>1, <2>2, <2>3, <2>4, <2>5, <2>6, <2>7, Zenon DEF Next
<1>. QED
  BY <1>1, KeptInit, PTL DEF Spec

\* The invariant, seen through the normalisation of codes, is the property.
LEMMA KeptIsSurvival == KeptInv => CustomersSurvive
<1>. SUFFICES ASSUME KeptInv, db.rev >= 1 PROVE CustomersSurvive
  BY DEF CustomersSurvive
<1>. DEFINE normal(c) == [c EXCEPT !.code = Upper(@)]
            view == IF db.rev <= 1 THEN db.customers ELSE CustomersOf(db.partners, db.roles)
<1>1. db.rev \in 1..19 /\ ledger \subseteq LedgerRow
  BY DEF KeptInv, Distinct
<1>2. CustomersKept(view, ledger)
  <2>1. CASE db.rev = 1
    BY <2>1 DEF KeptInv, KeptAt
  <2>2. CASE db.rev >= 2
    <3>1. PartnersKept(db.partners, db.roles, ledger)
      BY <2>2 DEF KeptInv, KeptAt
    <3>2. view = CustomersOf(db.partners, db.roles)
      BY <1>1, <2>2
    <3>. QED
      BY <3>1, <3>2, RestoreKeeps
  <2>. QED
    BY <1>1, <2>1, <2>2
<1>. HIDE DEF view
<1>3. ASSUME NEW c \in ledger PROVE normal(c) \in {normal(x) : x \in view}
  <2>1. PICK x \in view : SameCustomer(x, c)
    BY <1>2 DEF CustomersKept
  <2>2. x \in CustomerRow /\ c \in LedgerRow
    BY <1>1, <1>2 DEF CustomersKept
  <2>3. normal(x) = normal(c)
    BY <2>1, <2>2 DEF SameCustomer, CustomerRow, LedgerRow, Rows
  <2>. QED
    BY <2>3
<1>4. \A c \in view : c.id \in {x.id : x \in ledger} \/ c.code \in {"CUST001", "WPG"}
  BY <1>2 DEF CustomersKept, Written, SeedCodes
<1>5. \A c1, c2 \in view : c1.id = c2.id => c1 = c2
  BY <1>2 DEF CustomersKept
<1>. QED
  BY <1>3, <1>4, <1>5 DEF CustomersSurvive, view

\* A customer that the program wrote is neither lost nor duplicated, revived or put back
\* to an earlier version by any runs of the revisions that leave 0001 applied, whatever
\* was written between them.
THEOREM CustomersAreKept == Spec => []CustomersSurvive
BY KeptAlways, KeptIsSurvival, PTL

-----------------------------------------------------------------------------
\* Orders and their messages.

Resolved(r, orders, messages) ==
    \A o \in orders : o.link # None =>
        \E m \in messages : m.id = o.link /\ (r = 19 => m.tenant = o.tenant)

\* 0018 makes a message for every link.
LEMMA LegacyResolves == ASSUME NEW orders PROVE Resolved(18, orders, LegacyMessages(orders))
<1>. SUFFICES ASSUME NEW o \in orders, o.link # None
              PROVE  \E m \in LegacyMessages(orders) : m.id = o.link
  BY DEF Resolved
<1>. DEFINE m == Message(o.link, FirstOf(orders, o.link).tenant, FirstOf(orders, o.link).ext, TRUE)
<1>1. m \in LegacyMessages(orders)
  BY DEF LegacyMessages
<1>2. m.id = o.link
  BY DEF Message
<1>. QED
  BY <1>1, <1>2

\* 0019 goes through only if every link stays in its tenant.
LEMMA Upgrade19 ==
    ASSUME NEW d, DOMAIN d = Fields, Sound(Upgrade(19, d))
    PROVE  LinksStayInTenant(d)
<1>. DEFINE freed == RemoveReference(d, {PoTable}, "fk_customer_pos_edi_message", "edi_messages")
            next == AddReference(freed, {PoTable}, "fk_customer_pos_tenant_edi_message", "edi_messages")
<1>1. Upgrade(19, d) = Run(freed, LinksStayInTenant(d), "data", next)
  BY DEF Upgrade, Up0019
<1>2. DOMAIN freed = Fields
  BY StatementsAreQuiet DEF Quiet
<1>. HIDE DEF freed, next
<1>3. ~Sound([freed EXCEPT !.fail = "data"])
  BY <1>2 DEF Sound, Fields
<1>. QED
  BY <1>1, <1>3 DEF Run

\* One revision up, one revision down.
LEMMA UpgradeResolves ==
    ASSUME NEW d, DOMAIN d = Fields, NEW r \in 18..19, Sound(Upgrade(r, d)),
           r = 19 => Resolved(18, d.orders, d.messages)
    PROVE  Resolved(r, Upgrade(r, d).orders, Upgrade(r, d).messages)
<1>1. CASE r = 18
  BY <1>1, Upgrade18, LegacyResolves
<1>2. CASE r = 19
  <2>1. LinksStayInTenant(d) /\ Resolved(18, d.orders, d.messages)
    BY <1>2, Upgrade19
  <2>2. Resolved(19, d.orders, d.messages)
    BY <2>1 DEF LinksStayInTenant, Resolved
  <2>3. Quiet(d, Upgrade(19, d))
    BY QuietUpgrades
  <2>. QED
    BY <1>2, <2>2, <2>3 DEF Quiet, SameTraffic
<1>. QED
  BY <1>1, <1>2

LEMMA DowngradeResolves ==
    ASSUME NEW d, DOMAIN d = Fields, Sound(Downgrade(19, d)), Resolved(19, d.orders, d.messages)
    PROVE  Resolved(18, Downgrade(19, d).orders, Downgrade(19, d).messages)
<1>1. Quiet(d, Downgrade(19, d))
  BY QuietDowngrades
<1>2. Resolved(18, d.orders, d.messages)
  BY DEF Resolved
<1>. QED
  BY <1>1, <1>2 DEF Quiet, SameTraffic

ResolvedAt(d) == d.rev >= 18 => Resolved(d.rev, d.orders, d.messages)
LinkInv == ResolvedAt(db) /\ (Sound(work) => ResolvedAt(work))

LEMMA LinkInit == Init => LinkInv
BY EmptyIs DEF Init, LinkInv, ResolvedAt

LEMMA LinkStep == ASSUME KeptInv, LinkInv, Step PROVE LinkInv'
<1>1. /\ goal \in 0..19 /\ work.rev \in 0..19 /\ Sound(work) /\ DOMAIN work = Fields
      /\ UNCHANGED <<db, goal, env, ledger, writes>>
  BY StepIs
<1>2. CASE goal > work.rev
  <2>. DEFINE r == work.rev + 1
              next == Upgrade(r, work)
  <2>1. work' = [next EXCEPT !.rev = next.rev + 1] /\ r \in 1..19
    BY <1>1, <1>2, StepIs
  <2>2. DOMAIN next = Fields /\ next.rev = work.rev
    BY <1>1, <1>2, UpgradeKeeps DEF KeptInv
  <2>3. r >= 18 /\ Sound(next) => Resolved(r, next.orders, next.messages)
    <3>1. r = 19 => Resolved(18, work.orders, work.messages)
      BY <1>1 DEF LinkInv, ResolvedAt
    <3>. QED
      BY <1>1, <2>1, <3>1, UpgradeResolves
  <2>. HIDE DEF next
  <2>4. /\ work'.rev = r /\ (Sound(work') <=> Sound(next)) /\ SameTraffic(next, work')
    BY <2>1, <2>2, RevisionOnly
  <2>5. Sound(work') => ResolvedAt(work')
    BY <2>3, <2>4 DEF ResolvedAt, SameTraffic
  <2>. QED
    BY <1>1, <2>5 DEF LinkInv
<1>3. CASE goal < work.rev
  <2>. DEFINE r == work.rev
              next == Downgrade(r, work)
  <2>1. work' = [next EXCEPT !.rev = next.rev - 1] /\ r \in 1..19
    BY <1>1, <1>3, StepIs
  <2>2. DOMAIN next = Fields /\ next.rev = work.rev
    BY <1>1, <2>1, DowngradeKeeps DEF KeptInv
  <2>3. r = 19 /\ Sound(next) => Resolved(18, next.orders, next.messages)
    <3>1. r = 19 => Resolved(19, work.orders, work.messages)
      BY <1>1 DEF LinkInv, ResolvedAt
    <3>. QED
      BY <1>1, <3>1, DowngradeResolves
  <2>. HIDE DEF next
  <2>4. /\ work'.rev = r - 1 /\ (Sound(work') <=> Sound(next)) /\ SameTraffic(next, work')
    BY <2>1, <2>2, RevisionOnly
  <2>5. work'.rev >= 18 => r = 19 /\ work'.rev = 18
    <3>1. r - 1 >= 18 => r = 19
      BY <2>1
    <3>. QED
      BY <2>4, <3>1
  <2>6. Sound(work') => ResolvedAt(work')
    BY <2>3, <2>4, <2>5 DEF ResolvedAt, SameTraffic
  <2>. QED
    BY <1>1, <2>6 DEF LinkInv
<1>. QED
  BY <1>1, <1>2, <1>3, StepIs

LEMMA LinkRun ==
    ASSUME LinkInv, (\E t \in Targets, e \in {"local", "prod"} : Begin(t, e)) \/ Commit \/ Rollback
    PROVE  LinkInv'
<1>1. CASE \E t \in Targets, e \in {"local", "prod"} : Begin(t, e)
  BY <1>1 DEF Begin, LinkInv, ResolvedAt
<1>2. ResolvedAt(Empty)
  BY EmptyIs DEF ResolvedAt
<1>3. CASE Commit
  BY <1>2, <1>3 DEF Commit, LinkInv, ResolvedAt
<1>4. CASE Rollback
  BY <1>2, <1>4 DEF Rollback, LinkInv, ResolvedAt
<1>. QED
  BY <1>1, <1>3, <1>4

\* The program writes an order from 0018 on only together with its message.
LEMMA WriteResolves ==
    ASSUME KeptInv, LinkInv, NEW d, Write(d), d.rev = db.rev,
           \/ SameTraffic(db, d)
           \/ db.rev < 18
           \/ \E m, o : /\ m.id = o.link /\ m.tenant = o.tenant
                        /\ d.orders = db.orders \cup {o} /\ d.messages = db.messages \cup {m}
    PROVE  LinkInv'
<1>1. work = Empty /\ UNCHANGED work /\ db' = d /\ db.rev \in 0..19
  BY DEF Write, KeptInv
<1>2. ResolvedAt(d)
  <2>1. CASE SameTraffic(db, d)
    BY <2>1 DEF LinkInv, ResolvedAt, SameTraffic
  <2>2. CASE db.rev < 18
    BY <1>1, <2>2 DEF ResolvedAt
  <2>3. CASE \E m, o : /\ m.id = o.link /\ m.tenant = o.tenant
                       /\ d.orders = db.orders \cup {o} /\ d.messages = db.messages \cup {m}
    <3>1. PICK m, o : /\ m.id = o.link /\ m.tenant = o.tenant
                      /\ d.orders = db.orders \cup {o} /\ d.messages = db.messages \cup {m}
      BY <2>3
    <3>2. Resolved(db.rev, db.orders, db.messages) => Resolved(db.rev, d.orders, d.messages)
      BY <3>1 DEF Resolved
    <3>. QED
      BY <3>2 DEF LinkInv, ResolvedAt
  <2>. QED
    BY <2>1, <2>2, <2>3
<1>. QED
  BY <1>1, <1>2 DEF LinkInv

\* A customer or a supplier is a row among the customers, or a partner with a role.
LEMMA RowsWritten ==
    ASSUME \/ \E i \in Ids, t \in Tenants, c \in Codes : CreateCustomer(i, t, c) \/ CreateSupplier(i, t, c)
           \/ \E c \in ledger : SoftDeleteCustomer(c)
    PROVE  \E customers, partners, roles :
              \/ Write([db EXCEPT !.customers = customers])
              \/ Write([db EXCEPT !.partners = partners, !.roles = roles])
<1>1. ASSUME NEW i \in Ids, NEW t \in Tenants, NEW c \in Codes, CreateCustomer(i, t, c)
      PROVE  \E customers, partners, roles :
                \/ Write([db EXCEPT !.customers = customers])
                \/ Write([db EXCEPT !.partners = partners, !.roles = roles])
  <2>1. CASE db.rev = 1
    BY <1>1, <2>1, Zenon DEF CreateCustomer
  <2>2. CASE db.rev # 1
    BY <1>1, <2>2, Zenon DEF CreateCustomer
  <2>. QED
    BY <2>1, <2>2
<1>2. ASSUME NEW i \in Ids, NEW t \in Tenants, NEW c \in Codes, CreateSupplier(i, t, c)
      PROVE  \E customers, partners, roles :
                \/ Write([db EXCEPT !.customers = customers])
                \/ Write([db EXCEPT !.partners = partners, !.roles = roles])
  BY <1>2, Zenon DEF CreateSupplier
<1>3. ASSUME NEW c \in ledger, SoftDeleteCustomer(c)
      PROVE  \E customers, partners, roles :
                \/ Write([db EXCEPT !.customers = customers])
                \/ Write([db EXCEPT !.partners = partners, !.roles = roles])
  <2>1. CASE db.rev = 1
    BY <1>3, <2>1, Zenon DEF SoftDeleteCustomer
  <2>2. CASE db.rev # 1
    BY <1>3, <2>2, Zenon DEF SoftDeleteCustomer
  <2>. QED
    BY <2>1, <2>2
<1>. QED
  BY <1>1, <1>2, <1>3, Zenon

LEMMA LinkCustomers ==
    ASSUME KeptInv, LinkInv,
           \/ \E i \in Ids, t \in Tenants, c \in Codes : CreateCustomer(i, t, c) \/ CreateSupplier(i, t, c)
           \/ \E c \in ledger : SoftDeleteCustomer(c)
    PROVE  LinkInv'
<1>1. PICK customers, partners, roles :
         \/ Write([db EXCEPT !.customers = customers])
         \/ Write([db EXCEPT !.partners = partners, !.roles = roles])
  BY RowsWritten
<1>. DEFINE c == [db EXCEPT !.customers = customers]
            p == [db EXCEPT !.partners = partners, !.roles = roles]
<1>2. /\ c.rev = db.rev /\ SameTraffic(db, c)
      /\ p.rev = db.rev /\ SameTraffic(db, p)
  BY DEF KeptInv, Fields, SameTraffic
<1>3. Write(c) \/ Write(p)
  BY <1>1
<1>. HIDE DEF c, p
<1>. QED
  BY <1>2, <1>3, WriteResolves

LEMMA LinkOthers ==
    ASSUME KeptInv, LinkInv,
           \/ \E p \in Customers, s \in Senders, x \in Exts, l \in Logs \cup {None} : CreateOrder(p, s, x, l)
           \/ \E p \in Customers, s \in Senders, x \in Exts : ReceiveDocument(p, s, x)
           \/ \E f \in HandFamilies : RegisterPermission(f) \/ MapPermission(f)
    PROVE  LinkInv'
<1>0. DOMAIN db = Fields
  BY DEF KeptInv
<1>1. ASSUME NEW p \in Customers, NEW s \in Senders, NEW x \in Exts, NEW l \in Logs \cup {None},
             CreateOrder(p, s, x, l)
      PROVE  LinkInv'
  <2>1. PICK orders : Write([db EXCEPT !.orders = orders])
    BY <1>1, Zenon DEF CreateOrder
  <2>2. db.rev < 18
    BY <1>1 DEF CreateOrder
  <2>. DEFINE d == [db EXCEPT !.orders = orders]
  <2>3. d.rev = db.rev
    BY <1>0 DEF Fields
  <2>. HIDE DEF d
  <2>. QED
    BY <2>1, <2>2, <2>3, WriteResolves DEF d
<1>2. ASSUME NEW p \in Customers, NEW s \in Senders, NEW x \in Exts, ReceiveDocument(p, s, x)
      PROVE  LinkInv'
  <2>. DEFINE id == Cardinality(db.orders) + 1
              m == Message(id, p.tenant, x, FALSE)
              o == [id |-> id, tenant |-> p.tenant, customer |-> p.id, sender |-> s, ext |-> x, link |-> id]
              d == [db EXCEPT !.messages = db.messages \cup {m}, !.orders = db.orders \cup {o}]
  <2>1. Write(d)
    BY <1>2 DEF ReceiveDocument
  <2>2. m.id = o.link /\ m.tenant = o.tenant
    BY DEF Message
  <2>. HIDE DEF m, o
  <2>3. d.rev = db.rev /\ d.orders = db.orders \cup {o} /\ d.messages = db.messages \cup {m}
    BY <1>0 DEF Fields
  <2>. HIDE DEF d
  <2>. QED
    BY <2>1, <2>2, <2>3, WriteResolves
<1>3. ASSUME NEW f \in HandFamilies, RegisterPermission(f) \/ MapPermission(f) PROVE LinkInv'
  <2>1. PICK perms, maps : Write([db EXCEPT !.perms = perms]) \/ Write([db EXCEPT !.maps = maps])
    BY <1>3, Zenon DEF RegisterPermission, MapPermission
  <2>. DEFINE c == [db EXCEPT !.perms = perms]
              d == [db EXCEPT !.maps = maps]
  <2>2. c.rev = db.rev /\ SameTraffic(db, c) /\ d.rev = db.rev /\ SameTraffic(db, d)
    BY <1>0 DEF Fields, SameTraffic
  <2>3. Write(c) \/ Write(d)
    BY <2>1
  <2>. HIDE DEF c, d
  <2>. QED
    BY <2>2, <2>3, WriteResolves
<1>. QED
  BY <1>1, <1>2, <1>3

\* From 0018 on every order that carries a link has its message, from 0019 on in its own
\* tenant, in the database and in every run that has not failed.
THEOREM LinksAlwaysResolve == Spec => []LinksResolve
<1>1. ASSUME KeptInv, LinkInv, [Next]_vars PROVE LinkInv'
  <2>1. CASE \E t \in Targets, e \in {"local", "prod"} : Begin(t, e)
    BY <1>1, <2>1, LinkRun
  <2>2. CASE Step
    BY <1>1, <2>2, LinkStep
  <2>3. CASE Commit \/ Rollback
    BY <1>1, <2>3, LinkRun
  <2>4. CASE \/ \E i \in Ids, t \in Tenants, c \in Codes : CreateCustomer(i, t, c) \/ CreateSupplier(i, t, c)
             \/ \E c \in ledger : SoftDeleteCustomer(c)
    BY <1>1, <2>4, LinkCustomers
  <2>5. CASE \/ \E p \in Customers, s \in Senders, x \in Exts :
                   (\E l \in Logs \cup {None} : CreateOrder(p, s, x, l)) \/ ReceiveDocument(p, s, x)
             \/ \E f \in HandFamilies : RegisterPermission(f) \/ MapPermission(f)
    BY <1>1, <2>5, LinkOthers
  <2>6. CASE UNCHANGED vars
    BY <1>1, <2>6 DEF vars, LinkInv, ResolvedAt
  <2>. QED
    BY <1>1, <2>1, <2>2, <2>3, <2>4, <2>5, <2>6, Zenon DEF Next
<1>2. LinkInv => LinksResolve
  BY DEF LinkInv, ResolvedAt, Resolved, LinksResolve
<1>. QED
  BY <1>1, <1>2, LinkInit, KeptAlways, PTL DEF Spec

-----------------------------------------------------------------------------
\* The schema of each revision.

IamTables ==
    {"tenants", "roles", "groups", "profiles", "user_groups", "permissions", "policies",
     "policy_permissions", "role_policies", "group_policies", "user_policies", "audit_logs"}
PartnerTables == {"payment_terms", "business_partners", "partner_roles", "partner_addresses"}
TokenTables == {"user_credentials", "refresh_tokens"}
AllTables ==
    IamTables \cup Assignments \cup {"customers"} \cup PartnerTables \cup TokenTables
    \cup AuditTables \cup PoTables \cup {"customer_po_events", "attachments"}
    \cup SupplierTables \cup ProductTables \cup EdiTables

\* The revision that creates a table.
Since(t) ==
    IF t \in IamTables \cup Assignments \cup {"customers"} THEN 1
    ELSE IF t \in PartnerTables THEN 2
    ELSE IF t \in TokenTables THEN 3
    ELSE IF t \in AuditTables THEN 4
    ELSE IF t \in PoTables THEN 6
    ELSE IF t = "customer_po_events" THEN 11
    ELSE IF t = "attachments" THEN 12
    ELSE IF t \in SupplierTables THEN 13
    ELSE IF t \in ProductTables THEN 15
    ELSE 18
Created(r) == {t \in AllTables : Since(t) = r}
\* 0002 drops the customers of 0001.
Gone(r) == IF r = 2 THEN {"customers"} ELSE {}
Tables(r) == {t \in AllTables : Since(t) <= r /\ (t = "customers" => r < 2)}

\* The tables with a tenant key; those of them that have it as a reference of its own;
\* those that row-level security is enabled for.
WithTenant ==
    {"groups", "profiles", "policies", "audit_logs", "customers", "payment_terms",
     "business_partners", "audit_events", PoTable, "attachments", "products", "edi_messages"}
WithKey ==
    WithTenant \cup {"partner_roles", "partner_addresses", "customer_purchase_order_lines",
                     "customer_po_status_events", "customer_po_events", "edi_message_events"}
               \cup SupplierTables \cup {"product_user_assignments", "product_group_assignments"}
Secured ==
    PartnerTables \cup AuditTables \cup PoTables \cup {"customer_po_events", "attachments"}
                  \cup SupplierTables \cup ProductTables \cup EdiTables

\* t refers to p at revision r: 0002 turns the assignments from customers to partners, 0018
\* links the orders to the messages.
Refers(r, t, p) ==
    \/ p = "tenants" /\ t \in WithTenant
    \/ /\ p = "profiles"
       /\ t \in {"user_groups", "user_policies", "audit_logs", "customers", "customer_user_assignments",
                "business_partners", "partner_roles", "user_credentials", "refresh_tokens",
                "audit_events", PoTable, "customer_po_status_events", "customer_po_events",
                "attachments", "supplier_user_assignments", "products", "product_user_assignments"}
    \/ p = "roles" /\ t \in {"profiles", "role_policies"}
    \/ /\ p = "groups"
       /\ t \in {"user_groups", "group_policies", "customer_group_assignments",
                "supplier_group_assignments", "product_group_assignments"}
    \/ p = "permissions" /\ t = "policy_permissions"
    \/ /\ p = "policies"
       /\ t \in {"policy_permissions", "role_policies", "group_policies", "user_policies"}
    \/ p = "customers" /\ t \in Assignments /\ r < 2
    \/ p = "payment_terms" /\ t \in {"business_partners", PoTable}
    \/ p = "business_partners" /\ t \in {"partner_roles", "partner_addresses", PoTable} \cup SupplierTables
    \/ p = "business_partners" /\ t \in Assignments /\ r >= 2
    \/ p = "audit_events" /\ t = "audit_changes"
    \/ /\ p = PoTable
       /\ t \in {"customer_purchase_order_lines", "customer_po_status_events", "customer_po_events"}
    \/ p = "products" /\ t \in {"product_user_assignments", "product_group_assignments"}
    \/ p = "edi_messages" /\ t = "edi_message_events"
    \/ p = "edi_messages" /\ t = PoTable /\ r >= 18
Parents(r, t) == {p \in AllTables : Refers(r, t, p)}
References(r, tables) == [t \in tables |-> Parents(r, t)]

-----------------------------------------------------------------------------
\* No statement has met a schema that it was not written for; and if none has failed, d has
\* these references among its tables, row-level security, named objects, rights, permissions
\* and mappings.
Fit(d) == d.fail # "schema"
Is(d, R, L, N, G, P, M) ==
    /\ DOMAIN d = Fields /\ Fit(d)
    /\ Sound(d) => /\ d.refs = R /\ d.keyed = WithKey \cap DOMAIN R
                   /\ d.rls = L /\ d.named = N /\ d.grants = G
                   /\ d.perms = P /\ d.maps = M

\* A statement whose condition holds takes one schema to the next.
LEMMA RunIs ==
    ASSUME NEW d, NEW condition, NEW cause \in {"schema", "data", ""}, NEW next,
           NEW R, NEW L, NEW N, NEW G, NEW P, NEW M,
           DOMAIN d = Fields, Fit(d),
           Sound(d) /\ cause # "data" => condition,
           Sound(d) /\ condition => Is(next, R, L, N, G, P, M)
    PROVE  Is(Run(d, condition, cause, next), R, L, N, G, P, M)
<1>1. CASE ~Sound(d)
  BY <1>1 DEF Run, Is
<1>2. CASE Sound(d) /\ condition
  BY <1>2 DEF Run
<1>3. CASE Sound(d) /\ ~condition
  <2>. DEFINE failed == [d EXCEPT !.fail = "data"]
  <2>1. DOMAIN failed = Fields /\ failed.fail = "data"
    BY DEF Fields
  <2>2. Is(failed, R, L, N, G, P, M)
    BY <2>1 DEF Is, Sound, Fit
  <2>. QED
    BY <1>3, <2>2 DEF Run
<1>. QED
  BY <1>1, <1>2, <1>3

\* What each statement makes of a schema that it was written for.
LEMMA EnableRlsIs ==
    ASSUME NEW d, NEW R, NEW L, NEW N, NEW G, NEW P, NEW M, Is(d, R, L, N, G, P, M),
           NEW tables, tables \subseteq (WithKey \cap DOMAIN R) \cup {"audit_changes"}
    PROVE  Is(EnableRls(d, tables), R, L \cup tables, N, G, P, M)
<1>. DEFINE next == [d EXCEPT !.rls = @ \cup tables]
            condition == tables \subseteq d.keyed \cup {"audit_changes"}
<1>1. Sound(d) => Is(next, R, L \cup tables, N, G, P, M)
  BY DEF Is, Sound, Fit, Fields
<1>2. Sound(d) => condition
  BY DEF Is
<1>3. DOMAIN d = Fields /\ Fit(d)
  BY DEF Is
<1>. HIDE DEF next, condition
<1>4. Is(Run(d, condition, "schema", next), R, L \cup tables, N, G, P, M)
  BY <1>1, <1>2, <1>3, RunIs
<1>. QED
  BY <1>4 DEF EnableRls, next, condition

LEMMA GrantIs ==
    ASSUME NEW d, NEW R, NEW L, NEW N, NEW G, NEW P, NEW M, Is(d, R, L, N, G, P, M),
           NEW rights, NEW tables, tables \subseteq DOMAIN R
    PROVE  Is(Grant(d, rights, tables), R, L, N, G \cup (tables \X rights), P, M)
<1>. DEFINE next == [d EXCEPT !.grants = @ \cup (tables \X rights)]
            condition == tables \subseteq DOMAIN d.refs
<1>1. Sound(d) => Is(next, R, L, N, G \cup (tables \X rights), P, M)
  BY DEF Is, Sound, Fit, Fields
<1>2. Sound(d) => condition
  BY DEF Is
<1>3. DOMAIN d = Fields /\ Fit(d)
  BY DEF Is
<1>. HIDE DEF next, condition
<1>4. Is(Run(d, condition, "schema", next), R, L, N, G \cup (tables \X rights), P, M)
  BY <1>1, <1>2, <1>3, RunIs
<1>. QED
  BY <1>4 DEF Grant, next, condition

LEMMA RevokeIs ==
    ASSUME NEW d, NEW R, NEW L, NEW N, NEW G, NEW P, NEW M, Is(d, R, L, N, G, P, M),
           NEW rights, NEW tables
    PROVE  Is(Revoke(d, rights, tables), R, L, N, G \ (tables \X rights), P, M)
<1>. DEFINE next == [d EXCEPT !.grants = @ \ (tables \X rights)]
<1>1. Sound(d) => Is(next, R, L, N, G \ (tables \X rights), P, M)
  BY DEF Is, Sound, Fit, Fields
<1>2. DOMAIN d = Fields /\ Fit(d)
  BY DEF Is
<1>. HIDE DEF next
<1>3. Is(Run(d, TRUE, "", next), R, L, N, G \ (tables \X rights), P, M)
  BY <1>1, <1>2, RunIs
<1>. QED
  BY <1>3 DEF Revoke, next

LEMMA AddObjectsIs ==
    ASSUME NEW d, NEW R, NEW L, NEW N, NEW G, NEW P, NEW M, Is(d, R, L, N, G, P, M),
           NEW tables, NEW names, tables \subseteq DOMAIN R, (tables \X names) \cap N = {}
    PROVE  Is(AddObjects(d, tables, names), R, L, N \cup (tables \X names), G, P, M)
<1>. DEFINE next == [d EXCEPT !.named = @ \cup (tables \X names)]
            condition == tables \subseteq DOMAIN d.refs /\ (tables \X names) \cap d.named = {}
<1>1. Sound(d) => Is(next, R, L, N \cup (tables \X names), G, P, M)
  BY DEF Is, Sound, Fit, Fields
<1>2. Sound(d) => condition
  BY DEF Is
<1>3. DOMAIN d = Fields /\ Fit(d)
  BY DEF Is
<1>. HIDE DEF next, condition
<1>4. Is(Run(d, condition, "schema", next), R, L, N \cup (tables \X names), G, P, M)
  BY <1>1, <1>2, <1>3, RunIs
<1>. QED
  BY <1>4 DEF AddObjects, next, condition

LEMMA DropObjectsIs ==
    ASSUME NEW d, NEW R, NEW L, NEW N, NEW G, NEW P, NEW M, Is(d, R, L, N, G, P, M),
           NEW tables, NEW names, tables \X names \subseteq N
    PROVE  Is(DropObjects(d, tables, names), R, L, N \ (tables \X names), G, P, M)
<1>. DEFINE next == [d EXCEPT !.named = @ \ (tables \X names)]
            condition == tables \X names \subseteq d.named
<1>1. Sound(d) => Is(next, R, L, N \ (tables \X names), G, P, M)
  BY DEF Is, Sound, Fit, Fields
<1>2. Sound(d) => condition
  BY DEF Is
<1>3. DOMAIN d = Fields /\ Fit(d)
  BY DEF Is
<1>. HIDE DEF next, condition
<1>4. Is(Run(d, condition, "schema", next), R, L, N \ (tables \X names), G, P, M)
  BY <1>1, <1>2, <1>3, RunIs
<1>. QED
  BY <1>4 DEF DropObjects, next, condition

LEMMA RenameIs ==
    ASSUME NEW d, NEW R, NEW L, NEW N, NEW G, NEW P, NEW M, Is(d, R, L, N, G, P, M),
           NEW table \in DOMAIN R, NEW old, NEW new, <<table, old>> \in N, <<table, new>> \notin N
    PROVE  Is(Rename(d, table, old, new), R, L, (N \ {<<table, old>>}) \cup {<<table, new>>}, G, P, M)
<1>. DEFINE left == N \ {<<table, old>>}
<1>1. /\ {table} \X {old} = {<<table, old>>} /\ {table} \X {new} = {<<table, new>>}
      /\ {table} \subseteq DOMAIN R
  OBVIOUS
<1>2. Is(DropObjects(d, {table}, {old}), R, L, left, G, P, M)
  BY <1>1, DropObjectsIs
<1>3. ({table} \X {new}) \cap left = {}
  BY <1>1
<1>. HIDE DEF left
<1>4. Is(AddObjects(DropObjects(d, {table}, {old}), {table}, {new}), R, L,
         left \cup ({table} \X {new}), G, P, M)
  BY <1>1, <1>2, <1>3, AddObjectsIs
<1>. QED
  BY <1>1, <1>4 DEF Rename, left

LEMMA AddReferenceIs ==
    ASSUME NEW d, NEW R, NEW L, NEW N, NEW G, NEW P, NEW M, Is(d, R, L, N, G, P, M),
           NEW tables, NEW object, NEW parent \in DOMAIN R,
           tables \subseteq DOMAIN R, (tables \X {object}) \cap N = {}
    PROVE  Is(AddReference(d, tables, object, parent),
              [t \in DOMAIN R |-> IF t \in tables THEN R[t] \cup {parent} ELSE R[t]],
              L, N \cup (tables \X {object}), G, P, M)
<1>. DEFINE named == AddObjects(d, tables, {object})
            refs == [t \in DOMAIN R |-> IF t \in tables THEN R[t] \cup {parent} ELSE R[t]]
            next == [named EXCEPT !.refs = [t \in DOMAIN @ |-> IF t \in tables THEN @[t] \cup {parent} ELSE @[t]]]
            condition == parent \in DOMAIN d.refs
            all == N \cup (tables \X {object})
<1>1. Is(named, R, L, all, G, P, M)
  BY AddObjectsIs
<1>2. AddReference(d, tables, object, parent) = Run(named, condition, "schema", next)
  BY Zenon DEF AddReference
<1>3. Sound(named) => Sound(d)
  BY DEF AddObjects, Run
<1>4. Sound(d) => condition
  BY DEF Is
<1>5. DOMAIN refs = DOMAIN R
  OBVIOUS
<1>. HIDE DEF named, all
<1>6. DOMAIN named = Fields /\ Fit(named) /\ (Sound(named) => named.refs = R)
  BY <1>1 DEF Is
<1>7. Sound(named) => next = [named EXCEPT !.refs = refs]
  BY <1>6, Zenon
<1>. HIDE DEF next, refs
<1>8. Sound(named) => Is(next, refs, L, all, G, P, M)
  BY <1>1, <1>5, <1>6, <1>7 DEF Is, Sound, Fit, Fields
<1>. HIDE DEF condition
<1>9. Is(Run(named, condition, "schema", next), refs, L, all, G, P, M)
  BY <1>3, <1>4, <1>6, <1>8, RunIs
<1>. QED
  BY <1>2, <1>9 DEF all, refs

LEMMA RemoveReferenceIs ==
    ASSUME NEW d, NEW R, NEW L, NEW N, NEW G, NEW P, NEW M, Is(d, R, L, N, G, P, M),
           NEW tables, NEW object, NEW parent, tables \X {object} \subseteq N
    PROVE  Is(RemoveReference(d, tables, object, parent),
              [t \in DOMAIN R |-> IF t \in tables THEN R[t] \ {parent} ELSE R[t]],
              L, N \ (tables \X {object}), G, P, M)
<1>. DEFINE freed == DropObjects(d, tables, {object})
            refs == [t \in DOMAIN R |-> IF t \in tables THEN R[t] \ {parent} ELSE R[t]]
            next == [freed EXCEPT !.refs = [t \in DOMAIN @ |-> IF t \in tables THEN @[t] \ {parent} ELSE @[t]]]
            left == N \ (tables \X {object})
<1>1. Is(freed, R, L, left, G, P, M)
  BY DropObjectsIs
<1>2. RemoveReference(d, tables, object, parent) = Run(freed, TRUE, "", next)
  BY Zenon DEF RemoveReference
<1>3. DOMAIN refs = DOMAIN R
  OBVIOUS
<1>. HIDE DEF freed, left
<1>4. DOMAIN freed = Fields /\ Fit(freed) /\ (Sound(freed) => freed.refs = R)
  BY <1>1 DEF Is
<1>5. Sound(freed) => next = [freed EXCEPT !.refs = refs]
  BY <1>4, Zenon
<1>. HIDE DEF next, refs
<1>6. Sound(freed) => Is(next, refs, L, left, G, P, M)
  BY <1>1, <1>3, <1>4, <1>5 DEF Is, Sound, Fit, Fields
<1>7. Is(Run(freed, TRUE, "", next), refs, L, left, G, P, M)
  BY <1>4, <1>6, RunIs
<1>. QED
  BY <1>2, <1>7 DEF left, refs

LEMMA SeedIs ==
    ASSUME NEW d, NEW R, NEW L, NEW N, NEW G, NEW P, NEW M, Is(d, R, L, N, G, P, M), NEW F
    PROVE  /\ Is(Seed(d, F), R, L, N, G, P \cup F, M \cup ({"admin"} \X F))
           /\ Sound(Seed(d, F)) => P \cap F = {}
<1>. DEFINE next == [d EXCEPT !.perms = @ \cup F, !.maps = @ \cup ({"admin"} \X F)]
            condition == F \cap d.perms = {}
<1>1. Sound(d) => Is(next, R, L, N, G, P \cup F, M \cup ({"admin"} \X F))
  BY DEF Is, Sound, Fit, Fields
<1>2. DOMAIN d = Fields /\ Fit(d)
  BY DEF Is
<1>. HIDE DEF next
<1>3. Is(Run(d, condition, "data", next), R, L, N, G, P \cup F, M \cup ({"admin"} \X F))
  BY <1>1, <1>2, RunIs
<1>4. Sound(Run(d, condition, "data", next)) => Sound(d) /\ condition
  <2>1. ~Sound([d EXCEPT !.fail = "data"])
    BY <1>2 DEF Sound, Fields
  <2>. QED
    BY <2>1 DEF Run
<1>5. Sound(d) /\ condition => P \cap F = {}
  BY DEF Is
<1>6. Seed(d, F) = Run(d, condition, "data", next)
  BY DEF Seed, next
<1>. QED
  BY <1>3, <1>4, <1>5, <1>6

LEMMA AdoptIs ==
    ASSUME NEW d, NEW R, NEW L, NEW N, NEW G, NEW P, NEW M, Is(d, R, L, N, G, P, M), NEW F
    PROVE  Is(Adopt(d, F), R, L, N, G, P \cup F, M \cup ({"admin"} \X F))
<1>. DEFINE next == [d EXCEPT !.perms = @ \cup F, !.maps = @ \cup ({"admin"} \X F)]
<1>1. Sound(d) => Is(next, R, L, N, G, P \cup F, M \cup ({"admin"} \X F))
  BY DEF Is, Sound, Fit, Fields
<1>2. DOMAIN d = Fields /\ Fit(d)
  BY DEF Is
<1>. HIDE DEF next
<1>3. Is(Run(d, TRUE, "", next), R, L, N, G, P \cup F, M \cup ({"admin"} \X F))
  BY <1>1, <1>2, RunIs
<1>. QED
  BY <1>3 DEF Adopt, next

LEMMA UnseedIs ==
    ASSUME NEW d, NEW R, NEW L, NEW N, NEW G, NEW P, NEW M, Is(d, R, L, N, G, P, M), NEW F
    PROVE  /\ Is(Unseed(d, F), R, L, N, G, P \ F, {m \in M : m[2] \notin F})
           /\ Is(UnseedForAll(d, F), R, L, N, G, P \ F, {m \in M : m[2] \notin F})
<1>. DEFINE next == [d EXCEPT !.perms = @ \ F, !.maps = {m \in @ : m[2] \notin F}]
            condition == \A m \in d.maps : m[2] \in F => m[1] = "admin"
            left == {m \in M : m[2] \notin F}
<1>1. Sound(d) => Is(next, R, L, N, G, P \ F, left)
  BY DEF Is, Sound, Fit, Fields
<1>2. DOMAIN d = Fields /\ Fit(d)
  BY DEF Is
<1>. HIDE DEF next, condition, left
<1>3. Is(Run(d, condition, "data", next), R, L, N, G, P \ F, left)
  BY <1>1, <1>2, RunIs
<1>4. Is(Run(d, TRUE, "", next), R, L, N, G, P \ F, left)
  BY <1>1, <1>2, RunIs
<1>. QED
  BY <1>3, <1>4 DEF Unseed, UnseedForAll, next, condition, left

\* Statements about rows.
SameSchema(d, e) ==
    /\ DOMAIN d = Fields => DOMAIN e = Fields
    /\ e.fail = d.fail /\ e.refs = d.refs /\ e.keyed = d.keyed /\ e.rls = d.rls
    /\ e.named = d.named /\ e.grants = d.grants /\ e.perms = d.perms /\ e.maps = d.maps

\* A statement about rows leaves the schema alone, and fails for the data at most.
LEMMA RowsIs ==
    ASSUME NEW d, NEW R, NEW L, NEW N, NEW G, NEW P, NEW M, Is(d, R, L, N, G, P, M),
           NEW condition, NEW cause \in {"data", ""}, cause # "data" => condition,
           NEW next, SameSchema(d, next)
    PROVE  Is(Run(d, condition, cause, next), R, L, N, G, P, M)
<1>1. Is(next, R, L, N, G, P, M)
  BY DEF Is, Sound, Fit, SameSchema
<1>2. DOMAIN d = Fields /\ Fit(d)
  BY DEF Is
<1>. QED
  BY <1>1, <1>2, RunIs

\* What CREATE TABLE makes of tables that are written for this schema.
Creatable(e, T, tables) ==
    /\ DOMAIN tables = 1..Len(tables) /\ Len(tables) \in Nat
    /\ \A k \in DOMAIN tables :
         /\ tables[k].name \notin T
         /\ \A j \in DOMAIN tables : tables[j].name = tables[k].name => j = k
         /\ \A p \in tables[k].refs : p \in T \/ \E j \in 1..k : tables[j].name = p
         /\ tables[k].refs \ {tables[k].name} = Parents(e, tables[k].name)
         /\ tables[k].keyed = TRUE <=> tables[k].name \in WithKey
NamesOf(tables) == {tables[j].name : j \in 1..Len(tables)}

LEMMA CreateIs ==
    ASSUME NEW d, NEW e, NEW T, NEW L, NEW N, NEW G, NEW P, NEW M, Is(d, References(e, T), L, N, G, P, M),
           NEW tables, Creatable(e, T, tables)
    PROVE  Is(Create(d, tables), References(e, T \cup NamesOf(tables)), L, N, G, P, M)
<1>. DEFINE new == NamesOf(tables)
            parents(n) == UNION {t.refs \ {n} : t \in {x \in Range(tables) : x.name = n}}
            refs == [n \in DOMAIN d.refs \cup new |-> IF n \in DOMAIN d.refs THEN d.refs[n] ELSE parents(n)]
            keyed == d.keyed \cup {t.name : t \in {x \in Range(tables) : x.keyed}}
            next == [d EXCEPT !.refs = refs, !.keyed = keyed]
            condition == \A k \in DOMAIN tables :
               /\ tables[k].name \notin DOMAIN d.refs \cup {tables[j].name : j \in 1..(k - 1)}
               /\ tables[k].refs \subseteq DOMAIN d.refs \cup {tables[j].name : j \in 1..k}
<1>0. \A tt : DOMAIN References(e, tt) = tt
  BY DEF References
<1>1. Create(d, tables) = Run(d, condition, "schema", next)
  BY Zenon DEF Create, NamesOf
<1>2. DOMAIN d = Fields /\ Fit(d)
  BY DEF Is
<1>3. Sound(d) => condition
  <2>1. Sound(d) => DOMAIN d.refs = T
    BY DEF Is, References
  <2>. QED
    BY <2>1 DEF Creatable
<1>4. Range(tables) = {tables[k] : k \in DOMAIN tables}
  BY DEF Range
<1>5. ASSUME NEW k \in DOMAIN tables PROVE parents(tables[k].name) = Parents(e, tables[k].name)
  <2>1. {x \in Range(tables) : x.name = tables[k].name} = {tables[k]}
    BY <1>4 DEF Creatable
  <2>2. parents(tables[k].name) = tables[k].refs \ {tables[k].name}
    BY <2>1
  <2>. QED
    BY <2>2 DEF Creatable
<1>6. Sound(d) => refs = References(e, T \cup new)
  <2>. SUFFICES ASSUME Sound(d) PROVE refs = References(e, T \cup new)
    OBVIOUS
  <2>1. d.refs = References(e, T) /\ DOMAIN d.refs = T
    BY DEF Is, References
  <2>2. \A n \in T : d.refs[n] = Parents(e, n)
    BY <2>1 DEF References
  <2>3. \A n \in new : parents(n) = Parents(e, n)
    BY <1>5 DEF NamesOf, Creatable
  <2>. HIDE DEF parents, new
  <2>. QED
    BY <2>1, <2>2, <2>3 DEF References
<1>7. Sound(d) => keyed = WithKey \cap (T \cup new)
  <2>1. {t.name : t \in {x \in Range(tables) : x.keyed}} = WithKey \cap new
    BY <1>4 DEF Creatable, NamesOf
  <2>. HIDE DEF new
  <2>2. Sound(d) => d.keyed = WithKey \cap T
    BY <1>0 DEF Is
  <2>. QED
    BY <2>1, <2>2
<1>. HIDE DEF refs, keyed
<1>8. Sound(d) => Is(next, References(e, T \cup new), L, N, G, P, M)
  BY <1>0, <1>6, <1>7 DEF Is, Sound, Fit, Fields
<1>. HIDE DEF next, condition, new
<1>9. Is(Run(d, condition, "schema", next), References(e, T \cup new), L, N, G, P, M)
  BY <1>2, <1>3, <1>8, RunIs
<1>. QED
  BY <1>1, <1>9 DEF new

\* DROP TABLE of tables that only tables dropped before refer to.
Droppable(e, T, names) ==
    /\ DOMAIN names = 1..Len(names) /\ Len(names) \in Nat
    /\ \A k \in DOMAIN names : /\ names[k] \in T
                               /\ \A t \in T : names[k] \in Parents(e, t) => \E j \in 1..(k - 1) : names[j] = t

LEMMA DropIs ==
    ASSUME NEW d, NEW e, NEW T, NEW L, NEW N, NEW G, NEW P, NEW M, Is(d, References(e, T), L, N, G, P, M),
           NEW names, Droppable(e, T, names), NEW S, S = Range(names)
    PROVE  Is(Drop(d, names), References(e, T \ S), L \ S, {n \in N : n[1] \notin S}, {g \in G : g[1] \notin S}, P,
              M)
<1>. DEFINE refs == [t \in DOMAIN d.refs \ Range(names) |-> d.refs[t]]
            next == [d EXCEPT !.refs = refs,
                              !.keyed = @ \ Range(names), !.rls = @ \ Range(names),
                              !.grants = {g \in @ : g[1] \notin Range(names)},
                              !.named = {n \in @ : n[1] \notin Range(names)}]
            condition == \A k \in DOMAIN names :
               /\ names[k] \in DOMAIN d.refs
               /\ \A t \in DOMAIN d.refs : names[k] \in d.refs[t] => t \in {names[j] : j \in 1..(k - 1)}
            objects == {n \in N : n[1] \notin S}
            rights == {g \in G : g[1] \notin S}
<1>0. \A tt : DOMAIN References(e, tt) = tt
  BY DEF References
<1>1. Drop(d, names) = Run(d, condition, "schema", next)
  BY Zenon DEF Drop
<1>2. DOMAIN d = Fields /\ Fit(d)
  BY DEF Is
<1>3. Sound(d) => condition
  <2>1. Sound(d) => DOMAIN d.refs = T /\ \A t \in T : d.refs[t] = Parents(e, t)
    BY DEF Is, References
  <2>. QED
    BY <2>1 DEF Droppable
<1>4. Sound(d) => refs = References(e, T \ S)
  BY DEF Is, References
<1>. HIDE DEF refs
<1>5. Sound(d) => Is(next, References(e, T \ S), L \ S, objects, rights, P, M)
  BY <1>0, <1>4 DEF Is, Sound, Fit, Fields
<1>. HIDE DEF next, condition, objects, rights
<1>6. Is(Run(d, condition, "schema", next), References(e, T \ S), L \ S, objects, rights, P, M)
  BY <1>2, <1>3, <1>5, RunIs
<1>. QED
  BY <1>1, <1>6 DEF objects, rights

CustomerIndexes == {"ix_customers_tenant_owner", "ix_customers_tenant_status"}
\* The columns, indexes and constraints that later statements name again.
Objects(r) ==
    (IF r >= 1 THEN Assignments \X {"customer_id_fkey"} ELSE {})
    \cup (IF r = 1 THEN {"customers"} \X CustomerIndexes ELSE {})
    \cup (IF r >= 2 THEN {"business_partners"} \X PartnerIndexes ELSE {})
    \cup (IF r >= 3 THEN {"refresh_tokens"} \X TokenIndexes ELSE {})
    \cup (IF r >= 6 THEN {PoTable, "customer_po_status_events"}
                          \X {IF r < 18 THEN "edi_log_id" ELSE "edi_message_id"} ELSE {})
    \cup (IF r >= 6 THEN {PoTable} \X {IF r < 18 THEN "ix_customer_pos_edi_log_id"
                                       ELSE "ix_customer_pos_edi_message_id"} ELSE {})
    \cup (IF r >= 7 THEN {"groups", "roles", "policies"} \X Timestamps ELSE {})
    \cup (IF r >= 8 THEN {"audit_events"} \X {"actor_type", "ck_audit_events_actor_type"} ELSE {})
    \cup (IF r >= 9 THEN {"business_partners"} \X DateIndexes ELSE {})
    \cup (IF r >= 16 THEN {PoTable} \X {"uq_customer_pos_edi_external_message"} ELSE {})
    \cup (IF r >= 18 THEN {PoTable} \X {IF r = 18 THEN "fk_customer_pos_edi_message"
                                        ELSE "fk_customer_pos_tenant_edi_message"} ELSE {})

\* The rights of app_runtime: the revision that makes a table gives them.
Rights ==
    ((IamTables \cup Assignments \cup {"payment_terms", "user_credentials"}) \X ReadOnly)
    \cup (({"customers", "refresh_tokens", "attachments", "edi_messages",
            "business_partners", "partner_roles", "partner_addresses"} \cup PoTables) \X Write3)
    \cup ((AuditTables \cup {"customer_po_events", "edi_message_events"}) \X Append2)
    \cup {<<"customer_purchase_order_lines", "DELETE">>}
    \cup ((SupplierTables \cup ProductTables) \X All4)
Given(r) == {g \in Rights : g[1] \in AllTables /\ Since(g[1]) = r}
Without(G, S) == {g \in G : g[1] \notin S}

\* d has the schema of revision r, and some rights, permissions and mappings.
Fits(d, r, G, P, M) ==
    Is(d, References(r, Tables(r)), Secured \cap Tables(r), Objects(r), G, P, M)

\* The references change at 0002 and at 0018 only.
LEMMA SameReferences ==
    ASSUME NEW e \in Int, NEW f \in Int, (e < 2) <=> (f < 2), (e < 18) <=> (f < 18), NEW T
    PROVE  References(e, T) = References(f, T)
<1>1. \A t, p : Refers(e, t, p) <=> Refers(f, t, p)
  BY DEF Refers
<1>. QED
  BY <1>1 DEF References, Parents

\* The catalogue, revision by revision: tables, rights, objects.
LEMMA CreatedAre ==
    /\ Created(1) = IamTables \cup Assignments \cup {"customers"}
    /\ Created(2) = PartnerTables /\ Created(3) = TokenTables /\ Created(4) = AuditTables
    /\ Created(6) = PoTables /\ Created(11) = {"customer_po_events"} /\ Created(12) = {"attachments"}
    /\ Created(13) = SupplierTables /\ Created(15) = ProductTables /\ Created(18) = EdiTables
    /\ \A r \in {5, 7, 8, 9, 10, 14, 16, 17, 19} : Created(r) = {}
BY DEF Created, AllTables, Since, IamTables, PartnerTables, TokenTables, AuditTables, PoTables,
       SupplierTables, ProductTables, EdiTables, Assignments, PoTable

LEMMA TablesGrow ==
    ASSUME NEW r \in 1..19
    PROVE  /\ Tables(r) = (Tables(r - 1) \ Gone(r)) \cup Created(r)
           /\ Tables(r - 1) = (Tables(r) \ Created(r)) \cup Gone(r)
           /\ Tables(r - 1) \cap Created(r) = {}
<1>1. \A t : Since(t) \in 1..18
  BY DEF Since
<1>2. Since("customers") = 1 /\ "customers" \in AllTables
  BY DEF Since, AllTables
<1>. QED
  BY <1>1, <1>2 DEF Tables, Created, Gone

LEMMA GivenAre ==
    /\ Given(1) = ((IamTables \cup Assignments) \X ReadOnly) \cup ({"customers"} \X Write3)
    /\ Given(2) = ({"business_partners", "partner_roles", "partner_addresses"} \X Write3)
                  \cup ({"payment_terms"} \X ReadOnly)
    /\ Given(3) = ({"user_credentials"} \X ReadOnly) \cup ({"refresh_tokens"} \X Write3)
    /\ Given(4) = AuditTables \X Append2
    /\ Given(6) = (PoTables \X Write3) \cup ({"customer_purchase_order_lines"} \X {"DELETE"})
    /\ Given(11) = {"customer_po_events"} \X Append2
    /\ Given(12) = {"attachments"} \X Write3
    /\ Given(13) = SupplierTables \X All4
    /\ Given(15) = ProductTables \X All4
    /\ Given(18) = ({"edi_messages"} \X Write3) \cup ({"edi_message_events"} \X Append2)
    /\ \A r \in {5, 7, 8, 9, 10, 14, 16, 17, 19} : Given(r) = {}
BY DEF Given, Rights, AllTables, Since, IamTables, PartnerTables, TokenTables, AuditTables, PoTables,
       SupplierTables, ProductTables, EdiTables, Assignments, PoTable, ReadOnly, Append2, Write3, All4

\* Revisions that leave the tables as they are.
LEMMA Steady ==
    ASSUME NEW r \in {5, 7, 8, 9, 10, 14, 16, 17, 19}
    PROVE  Tables(r) = Tables(r - 1) /\ References(r, Tables(r)) = References(r - 1, Tables(r - 1))
<1>1. Created(r) = {} /\ Gone(r) = {} /\ r \in 1..19
  BY CreatedAre DEF Gone
<1>2. Tables(r) = Tables(r - 1)
  BY <1>1, TablesGrow
<1>. QED
  BY <1>2, SameReferences

\* Revisions that make tables, and change nothing between others.
LEMMA Growing ==
    ASSUME NEW r \in {3, 4, 6, 11, 12, 13, 15}
    PROVE  /\ Tables(r) = Tables(r - 1) \cup Created(r) /\ Tables(r - 1) = Tables(r) \ Created(r)
           /\ References(r, Tables(r)) = References(r - 1, Tables(r - 1) \cup Created(r))
           /\ References(r - 1, Tables(r - 1)) = References(r, Tables(r) \ Created(r))
<1>1. Tables(r) = Tables(r - 1) \cup Created(r) /\ Tables(r - 1) = Tables(r) \ Created(r)
  BY TablesGrow DEF Gone
<1>2. \A T : References(r, T) = References(r - 1, T)
  BY SameReferences
<1>. QED
  BY <1>1, <1>2

LEMMA ObjectsAre ==
    /\ Objects(1) = Objects(0) \cup (Assignments \X {"customer_id_fkey"}) \cup ({"customers"} \X CustomerIndexes)
    /\ Objects(3) = Objects(2) \cup ({"refresh_tokens"} \X TokenIndexes)
    /\ Objects(6) = (Objects(5) \cup ({PoTable, "customer_po_status_events"} \X {"edi_log_id"}))
                      \cup ({PoTable} \X {"ix_customer_pos_edi_log_id"})
    /\ Objects(7) = Objects(6) \cup ({"groups", "roles", "policies"} \X Timestamps)
    /\ Objects(8) = Objects(7) \cup ({"audit_events"} \X {"actor_type", "ck_audit_events_actor_type"})
    /\ Objects(9) = Objects(8) \cup ({"business_partners"} \X DateIndexes)
    /\ Objects(16) = Objects(15) \cup ({PoTable} \X {"uq_customer_pos_edi_external_message"})
    /\ \A r \in {4, 5, 10, 11, 12, 13, 14, 15, 17} : Objects(r) = Objects(r - 1)
BY DEF Objects, CustomerIndexes

\* What a revision names was not named before.
LEMMA ObjectsAreNew ==
    /\ (Assignments \X {"customer_id_fkey"}) \cap Objects(0) = {}
    /\ ({"refresh_tokens"} \X TokenIndexes) \cap Objects(2) = {}
    /\ ({PoTable, "customer_po_status_events"} \X {"edi_log_id"}) \cap Objects(5) = {}
    /\ ({"groups", "roles", "policies"} \X Timestamps) \cap Objects(6) = {}
    /\ ({"audit_events"} \X {"actor_type", "ck_audit_events_actor_type"}) \cap Objects(7) = {}
    /\ ({"business_partners"} \X DateIndexes) \cap Objects(8) = {}
    /\ ({PoTable} \X {"uq_customer_pos_edi_external_message"}) \cap Objects(15) = {}
BY DEF Objects, CustomerIndexes, Assignments, PartnerIndexes, TokenIndexes, PoTable, Timestamps, DateIndexes

\* What each table refers to, as CREATE TABLE has it.
LEMMA ParentsAre ==
    ASSUME NEW e \in Int
    PROVE  /\ Parents(e, "tenants") = {} /\ Parents(e, "roles") = {} /\ Parents(e, "permissions") = {}
           /\ Parents(e, "groups") = {"tenants"} /\ Parents(e, "policies") = {"tenants"}
           /\ Parents(e, "profiles") = {"tenants", "roles"}
           /\ Parents(e, "user_groups") = {"profiles", "groups"}
           /\ Parents(e, "policy_permissions") = {"policies", "permissions"}
           /\ Parents(e, "role_policies") = {"roles", "policies"}
           /\ Parents(e, "group_policies") = {"groups", "policies"}
           /\ Parents(e, "user_policies") = {"profiles", "policies"}
           /\ Parents(e, "audit_logs") = {"profiles", "tenants"}
           /\ Parents(e, "customers") = {"profiles", "tenants"}
           /\ e < 2 => /\ Parents(e, "customer_user_assignments") = {"customers", "profiles"}
                       /\ Parents(e, "customer_group_assignments") = {"customers", "groups"}
           /\ Parents(e, "payment_terms") = {"tenants"}
           /\ Parents(e, "business_partners") = {"payment_terms", "profiles", "tenants"}
           /\ Parents(e, "partner_roles") = {"business_partners", "profiles"}
           /\ Parents(e, "partner_addresses") = {"business_partners"}
           /\ Parents(e, "user_credentials") = {"profiles"} /\ Parents(e, "refresh_tokens") = {"profiles"}
           /\ Parents(e, "audit_events") = {"profiles", "tenants"} /\ Parents(e, "audit_changes") = {"audit_events"}
           /\ e < 18 => Parents(e, PoTable) = {"profiles", "business_partners", "payment_terms", "tenants"}
           /\ Parents(e, "customer_purchase_order_lines") = {PoTable}
           /\ Parents(e, "customer_po_status_events") = {PoTable, "profiles"}
           /\ Parents(e, "customer_po_events") = {PoTable, "profiles"}
           /\ Parents(e, "attachments") = {"profiles", "tenants"}
           /\ Parents(e, "supplier_user_assignments") = {"profiles", "business_partners"}
           /\ Parents(e, "supplier_group_assignments") = {"groups", "business_partners"}
           /\ Parents(e, "products") = {"profiles", "tenants"}
           /\ Parents(e, "product_user_assignments") = {"profiles", "products"}
           /\ Parents(e, "product_group_assignments") = {"groups", "products"}
           /\ Parents(e, "edi_messages") = {"tenants"}
           /\ Parents(e, "edi_message_events") = {"edi_messages"}
BY DEF Parents, Refers, WithTenant, AllTables, IamTables, PartnerTables, TokenTables, AuditTables, PoTables, 
         SupplierTables, ProductTables, EdiTables, Assignments, PoTable

\* 0002 makes its tables in an order that finds their parents.
LEMMA Made2 == Creatable(1, Tables(1), PartnerTables0002) /\ NamesOf(PartnerTables0002) = PartnerTables
<1>1. /\ DOMAIN PartnerTables0002 = 1..4 /\ Len(PartnerTables0002) = 4
      /\ PartnerTables0002[1] = [name |-> "payment_terms", refs |-> {"tenants"}, keyed |-> TRUE]
      /\ PartnerTables0002[2] = [name |-> "business_partners", refs |-> {"payment_terms", "profiles", "tenants"},
                                 keyed |-> TRUE]
      /\ PartnerTables0002[3] = [name |-> "partner_roles", refs |-> {"business_partners", "profiles"},
                                 keyed |-> TRUE]
      /\ PartnerTables0002[4] = [name |-> "partner_addresses", refs |-> {"business_partners"}, keyed |-> TRUE]
  BY DEF PartnerTables0002, Keyed, Composite
<1>2. /\ PartnerTables \cap Tables(1) = {} /\ {"tenants", "profiles"} \subseteq Tables(1)
      /\ PartnerTables \subseteq WithKey
  BY DEF Tables, AllTables, Since, IamTables, PartnerTables, Assignments, WithKey, WithTenant
<1>3. Creatable(1, Tables(1), PartnerTables0002)
  BY <1>1, <1>2, ParentsAre DEF Creatable, PartnerTables
<1>4. NamesOf(PartnerTables0002) = PartnerTables
  BY <1>1 DEF NamesOf, PartnerTables
<1> QED BY <1>3, <1>4

-----------------------------------------------------------------------------
\* Each revision, forth and back.  First those that leave the tables as they are.

\* Permissions only: 0005, 0010, 0014; nothing of the schema: 0017.
LEMMA SteadyFits ==
    ASSUME NEW d, NEW G, NEW P, NEW M, NEW r \in {5, 10, 14, 17}
    PROVE  Fits(d, r, G, P, M) <=> Fits(d, r - 1, G, P, M)
BY Steady, ObjectsAre DEF Fits

\* 0005.
LEMMA Schema5 ==
    ASSUME NEW d, NEW G, NEW P, NEW M
    PROVE  /\ Fits(d, 4, G, P, M) => Fits(Up0005(d), 5, G, P \cup {"iam"}, M \cup ({"admin"} \X {"iam"}))
           /\ Fits(d, 5, G, P, M) => Fits(Down0005(d), 4, G, P \ {"iam"}, {m \in M : m[2] \notin {"iam"}})
<1>1. ASSUME Fits(d, 4, G, P, M)
      PROVE  Fits(Up0005(d), 4, G, P \cup {"iam"}, M \cup ({"admin"} \X {"iam"}))
  BY <1>1, SeedIs DEF Fits, Up0005
<1>2. ASSUME Fits(d, 5, G, P, M)
      PROVE  Fits(Down0005(d), 5, G, P \ {"iam"}, {m \in M : m[2] \notin {"iam"}})
  BY <1>2, UnseedIs DEF Fits, Down0005
<1>3. \A c, A, B : Fits(c, 5, G, A, B) <=> Fits(c, 4, G, A, B)
  BY SteadyFits
<1>. QED
  BY <1>1, <1>2, <1>3

\* 0010.
LEMMA Schema10 ==
    ASSUME NEW d, NEW G, NEW P, NEW M
    PROVE  /\ Fits(d, 9, G, P, M) =>
                Fits(Up0010(d), 10, G, P \cup {"dashboard"}, M \cup ({"admin"} \X {"dashboard"}))
           /\ Fits(d, 10, G, P, M) =>
                Fits(Down0010(d), 9, G, P \ {"dashboard"}, {m \in M : m[2] \notin {"dashboard"}})
<1>1. ASSUME Fits(d, 9, G, P, M)
      PROVE  Fits(Up0010(d), 9, G, P \cup {"dashboard"}, M \cup ({"admin"} \X {"dashboard"}))
  BY <1>1, SeedIs DEF Fits, Up0010
<1>2. ASSUME Fits(d, 10, G, P, M)
      PROVE  Fits(Down0010(d), 10, G, P \ {"dashboard"}, {m \in M : m[2] \notin {"dashboard"}})
  BY <1>2, UnseedIs DEF Fits, Down0010
<1>3. \A c, A, B : Fits(c, 10, G, A, B) <=> Fits(c, 9, G, A, B)
  BY SteadyFits
<1>. QED
  BY <1>1, <1>2, <1>3

\* 0014.
LEMMA Schema14 ==
    ASSUME NEW d, NEW G, NEW P, NEW M
    PROVE  /\ Fits(d, 13, G, P, M) =>
                Fits(Up0014(d), 14, G, P \cup {"suppliers.export"}, M \cup ({"admin"} \X {"suppliers.export"}))
           /\ Fits(d, 14, G, P, M) =>
                Fits(Down0014(d), 13, G, P \ {"suppliers.export"}, {m \in M : m[2] \notin {"suppliers.export"}})
<1>1. ASSUME Fits(d, 13, G, P, M)
      PROVE  Fits(Up0014(d), 13, G, P \cup {"suppliers.export"}, M \cup ({"admin"} \X {"suppliers.export"}))
  BY <1>1, AdoptIs DEF Fits, Up0014
<1>2. ASSUME Fits(d, 14, G, P, M)
      PROVE  Fits(Down0014(d), 14, G, P \ {"suppliers.export"}, {m \in M : m[2] \notin {"suppliers.export"}})
  BY <1>2, UnseedIs DEF Fits, Down0014
<1>3. \A c, A, B : Fits(c, 14, G, A, B) <=> Fits(c, 13, G, A, B)
  BY SteadyFits
<1>. QED
  BY <1>1, <1>2, <1>3

\* Columns, indexes and constraints of tables that are there: 0007 to 0009, 0016.
LEMMA ObjectsFit ==
    ASSUME NEW d, NEW G, NEW P, NEW M, NEW r \in {7, 8, 9, 16}, NEW tables, NEW names,
           tables \subseteq Tables(r), (tables \X names) \cap Objects(r - 1) = {},
           Objects(r) = Objects(r - 1) \cup (tables \X names)
    PROVE  /\ Fits(d, r - 1, G, P, M) => Fits(AddObjects(d, tables, names), r, G, P, M)
           /\ Fits(d, r, G, P, M) => Fits(DropObjects(d, tables, names), r - 1, G, P, M)
<1>1. /\ Tables(r) = Tables(r - 1) /\ References(r, Tables(r)) = References(r - 1, Tables(r - 1))
      /\ DOMAIN References(r - 1, Tables(r - 1)) = Tables(r)
  BY Steady DEF References
<1>2. ASSUME Fits(d, r - 1, G, P, M) PROVE Fits(AddObjects(d, tables, names), r, G, P, M)
  BY <1>1, <1>2, AddObjectsIs DEF Fits
<1>3. ASSUME Fits(d, r, G, P, M) PROVE Fits(DropObjects(d, tables, names), r - 1, G, P, M)
  <2>1. tables \X names \subseteq Objects(r) /\ Objects(r) \ (tables \X names) = Objects(r - 1)
    OBVIOUS
  <2>. QED
    BY <1>1, <1>3, <2>1, DropObjectsIs DEF Fits
<1>. QED
  BY <1>2, <1>3

\* 0007.
LEMMA Schema7 ==
    ASSUME NEW d, NEW G, NEW P, NEW M
    PROVE  /\ Fits(d, 6, G, P, M) => Fits(Up0007(d), 7, G, P, M)
           /\ Fits(d, 7, G, P, M) => Fits(Down0007(d), 6, G, P, M)
<1>. DEFINE stamped == {"groups", "roles", "policies"}
<1>1. stamped \subseteq Tables(7) /\ {"policies", "roles", "groups"} = stamped
  BY DEF Tables, AllTables, Since, IamTables
<1>. HIDE DEF stamped
<1>2. /\ (stamped \X Timestamps) \cap Objects(6) = {}
      /\ Objects(7) = Objects(6) \cup (stamped \X Timestamps)
  BY ObjectsAre, ObjectsAreNew DEF stamped
<1>3. /\ Fits(d, 6, G, P, M) => Fits(AddObjects(d, stamped, Timestamps), 7, G, P, M)
      /\ Fits(d, 7, G, P, M) => Fits(DropObjects(d, stamped, Timestamps), 6, G, P, M)
  BY <1>1, <1>2, ObjectsFit
<1>. QED
  BY <1>1, <1>3, Zenon DEF Up0007, Down0007, stamped

\* 0008.
LEMMA Schema8 ==
    ASSUME NEW d, NEW G, NEW P, NEW M
    PROVE  /\ Fits(d, 7, G, P, M) => Fits(Up0008(d), 8, G, P, M)
           /\ Fits(d, 8, G, P, M) => Fits(Down0008(d), 7, G, P, M)
<1>. DEFINE names == {"actor_type", "ck_audit_events_actor_type"}
<1>1. {"audit_events"} \subseteq Tables(8) /\ {"ck_audit_events_actor_type", "actor_type"} = names
  BY DEF Tables, AllTables, Since, IamTables, Assignments, PartnerTables, TokenTables, AuditTables
<1>. HIDE DEF names
<1>2. ({"audit_events"} \X names) \cap Objects(7) = {} /\ Objects(8) = Objects(7) \cup ({"audit_events"} \X names)
  BY ObjectsAre, ObjectsAreNew DEF names
<1>3. /\ Fits(d, 7, G, P, M) => Fits(AddObjects(d, {"audit_events"}, names), 8, G, P, M)
      /\ Fits(d, 8, G, P, M) => Fits(DropObjects(d, {"audit_events"}, names), 7, G, P, M)
  BY <1>1, <1>2, ObjectsFit
<1>. QED
  BY <1>1, <1>3, Zenon DEF Up0008, Down0008, names

\* 0009.
LEMMA Schema9 ==
    ASSUME NEW d, NEW G, NEW P, NEW M
    PROVE  /\ Fits(d, 8, G, P, M) => Fits(Up0009(d), 9, G, P, M)
           /\ Fits(d, 9, G, P, M) => Fits(Down0009(d), 8, G, P, M)
<1>1. {"business_partners"} \subseteq Tables(9)
  BY DEF Tables, AllTables, Since, IamTables, Assignments, PartnerTables
<1>2. /\ ({"business_partners"} \X DateIndexes) \cap Objects(8) = {}
      /\ Objects(9) = Objects(8) \cup ({"business_partners"} \X DateIndexes)
  BY ObjectsAre, ObjectsAreNew
<1>. QED
  BY <1>1, <1>2, ObjectsFit DEF Up0009, Down0009

\* 0016.
LEMMA Schema16 ==
    ASSUME NEW d, NEW G, NEW P, NEW M
    PROVE  /\ Fits(d, 15, G, P, M) => Fits(Up0016(d), 16, G, P, M)
           /\ Fits(d, 16, G, P, M) => Fits(Down0016(d), 15, G, P, M)
<1>. DEFINE index == {"uq_customer_pos_edi_external_message"}
            next == AddObjects(d, {PoTable}, index)
<1>1. {PoTable} \subseteq Tables(16)
  BY DEF Tables, AllTables, Since, IamTables, Assignments, PartnerTables, TokenTables, AuditTables, PoTables,
         PoTable
<1>2. ({PoTable} \X index) \cap Objects(15) = {} /\ Objects(16) = Objects(15) \cup ({PoTable} \X index)
  BY ObjectsAre, ObjectsAreNew
<1>3. /\ Fits(d, 15, G, P, M) => Fits(next, 16, G, P, M)
      /\ Fits(d, 16, G, P, M) => Fits(DropObjects(d, {PoTable}, index), 15, G, P, M)
  BY <1>1, <1>2, ObjectsFit
<1>. HIDE DEF next
<1>4. ASSUME Fits(d, 15, G, P, M) PROVE Fits(Run(d, Identified(d.orders), "data", next), 16, G, P, M)
  <2>1. DOMAIN d = Fields /\ Fit(d)
    BY <1>4 DEF Fits, Is
  <2>2. Is(next, References(16, Tables(16)), Secured \cap Tables(16), Objects(16), G, P, M)
    BY <1>3, <1>4 DEF Fits
  <2>. QED
    BY <2>1, <2>2, RunIs DEF Fits
<1>. QED
  BY <1>3, <1>4 DEF Up0016, Down0016, next

-----------------------------------------------------------------------------
\* The revisions that make tables.

\* Tables that a revision makes and its downgrade drops: 0003 to 0015.
LEMMA CreateFits ==
    ASSUME NEW d, NEW G, NEW P, NEW M, NEW r \in {3, 4, 6, 11, 12, 13, 15}, Fits(d, r - 1, G, P, M),
           NEW tables, Creatable(r - 1, Tables(r - 1), tables), NamesOf(tables) = Created(r)
    PROVE  Is(Create(d, tables), References(r, Tables(r)), Secured \cap Tables(r - 1), Objects(r - 1), G, P, M)
BY CreateIs, Growing DEF Fits

LEMMA DropFits ==
    ASSUME NEW d, NEW N, NEW G, NEW P, NEW M, NEW r \in {3, 4, 6, 11, 12, 13, 15},
           Is(d, References(r, Tables(r)), Secured \cap Tables(r), N, G, P, M),
           NEW names, Droppable(r, Tables(r), names), Range(names) = Created(r),
           {n \in N : n[1] \notin Created(r)} = Objects(r - 1)
    PROVE  Fits(Drop(d, names), r - 1, Without(G, Created(r)), P, M)
<1>1. Is(Drop(d, names), References(r, Tables(r) \ Created(r)), (Secured \cap Tables(r)) \ Created(r),
         {n \in N : n[1] \notin Created(r)}, {g \in G : g[1] \notin Created(r)}, P, M)
  BY DropIs
<1>2. (Secured \cap Tables(r)) \ Created(r) = Secured \cap Tables(r - 1)
  BY Growing
<1>. QED
  BY <1>1, <1>2, Growing DEF Fits, Without

\* Objects of other tables stay when tables are dropped.
LEMMA ObjectsLeft ==
    /\ {n \in Objects(2) : n[1] \notin Created(3)} = Objects(2)
    /\ {n \in Objects(4) : n[1] \notin Created(4)} = Objects(3)
    /\ {n \in Objects(6) : n[1] \notin Created(6)} = Objects(5)
    /\ {n \in Objects(11) : n[1] \notin Created(11)} = Objects(10)
    /\ {n \in Objects(12) : n[1] \notin Created(12)} = Objects(11)
    /\ {n \in Objects(13) : n[1] \notin Created(13)} = Objects(12)
    /\ {n \in Objects(15) : n[1] \notin Created(15)} = Objects(14)
BY CreatedAre DEF Objects, TokenTables, AuditTables, PoTables, SupplierTables, ProductTables, PoTable, Assignments

\* 0003: its tables find their parents, and are dropped after what refers to them.
LEMMA Made3 ==
    LET made == <<Plain("user_credentials", {"profiles"}), Plain("refresh_tokens", {"profiles"})>>
        gone == <<"refresh_tokens", "user_credentials">>
    IN  /\ Creatable(2, Tables(2), made) /\ NamesOf(made) = Created(3)
        /\ Droppable(3, Tables(3), gone) /\ Range(gone) = Created(3)
<1>. DEFINE made == <<Plain("user_credentials", {"profiles"}), Plain("refresh_tokens", {"profiles"})>>
            gone == <<"refresh_tokens", "user_credentials">>
<1>1. /\ DOMAIN made = 1..2 /\ Len(made) = 2
      /\ made[1] = [name |-> "user_credentials", refs |-> {"profiles"}, keyed |-> FALSE]
      /\ made[2] = [name |-> "refresh_tokens", refs |-> {"profiles"}, keyed |-> FALSE]
  BY DEF Plain
<1>2. /\ TokenTables \cap Tables(2) = {} /\ "profiles" \in Tables(2) /\ TokenTables \cap WithKey = {}
      /\ TokenTables \subseteq Tables(3)
  BY DEF Tables, AllTables, Since, IamTables, Assignments, PartnerTables, TokenTables, WithKey, WithTenant,
         SupplierTables, PoTable
<1>3. DOMAIN gone = 1..2 /\ Len(gone) = 2 /\ gone[1] = "refresh_tokens" /\ gone[2] = "user_credentials"
  OBVIOUS
<1>4. Range(gone) = TokenTables
  BY <1>3 DEF Range, TokenTables
<1>. HIDE DEF made, gone
<1>5. Creatable(2, Tables(2), made)
  BY <1>1, <1>2, ParentsAre DEF Creatable, TokenTables
<1>6. NamesOf(made) = TokenTables
  BY <1>1 DEF NamesOf, TokenTables
<1>7. ASSUME NEW t, NEW p \in TokenTables PROVE p \notin Parents(3, t)
  BY DEF Parents, Refers, TokenTables, PoTable
<1>8. Droppable(3, Tables(3), gone)
  BY <1>2, <1>3, <1>7 DEF Droppable, TokenTables
<1>. QED
  BY <1>4, <1>5, <1>6, <1>8, CreatedAre DEF made, gone

\* 0003, forth and back.
LEMMA Schema3 ==
    ASSUME NEW d, NEW G, NEW P, NEW M
    PROVE  /\ Fits(d, 2, G, P, M) => Fits(Up0003(d), 3, G \cup Given(3), P, M)
           /\ Fits(d, 3, G, P, M) => Fits(Down0003(d), 2, Without(G, Created(3)), P, M)
<1>. DEFINE R == References(3, Tables(3))
            L == Secured \cap Tables(3)
            made == <<Plain("user_credentials", {"profiles"}), Plain("refresh_tokens", {"profiles"})>>
            gone == <<"refresh_tokens", "user_credentials">>
<1>1. DOMAIN R = Tables(3) /\ {"refresh_tokens"} \subseteq DOMAIN R /\ {"user_credentials"} \subseteq DOMAIN R
  BY DEF References, Tables, AllTables, Since, IamTables, Assignments, PartnerTables, TokenTables
<1>2. Secured \cap Tables(2) = L
  BY Growing, CreatedAre DEF Secured, TokenTables, PartnerTables, AuditTables, PoTables, PoTable,
     SupplierTables, ProductTables, EdiTables
<1>3. /\ Creatable(2, Tables(2), made) /\ NamesOf(made) = Created(3)
      /\ Droppable(3, Tables(3), gone) /\ Range(gone) = Created(3)
  BY Made3
<1>. HIDE DEF R, L, made, gone
<1>4. ASSUME Fits(d, 2, G, P, M) PROVE Fits(Up0003(d), 3, G \cup Given(3), P, M)
  <2>. DEFINE tables == Create(d, made)
              index == AddObjects(tables, {"refresh_tokens"}, TokenIndexes)
              read == Grant(index, ReadOnly, {"user_credentials"})
              last == Grant(read, Write3, {"refresh_tokens"})
              given == (G \cup ({"user_credentials"} \X ReadOnly)) \cup ({"refresh_tokens"} \X Write3)
  <2>1. Is(tables, R, L, Objects(2), G, P, M)
    BY <1>2, <1>3, <1>4, CreateFits DEF R
  <2>. HIDE DEF tables
  <2>2. Is(index, R, L, Objects(3), G, P, M)
    BY <1>1, <2>1, AddObjectsIs, ObjectsAre, ObjectsAreNew
  <2>. HIDE DEF index
  <2>3. Is(read, R, L, Objects(3), G \cup ({"user_credentials"} \X ReadOnly), P, M)
    BY <1>1, <2>2, GrantIs
  <2>. HIDE DEF read
  <2>4. Is(last, R, L, Objects(3), given, P, M)
    BY <1>1, <2>3, GrantIs
  <2>5. given = G \cup Given(3)
    BY GivenAre
  <2>. HIDE DEF given
  <2>6. Up0003(d) = last
    BY Zenon DEF Up0003, last, read, index, tables, made
  <2>. QED
    BY <2>4, <2>5, <2>6 DEF Fits, R, L
<1>5. ASSUME Fits(d, 3, G, P, M) PROVE Fits(Down0003(d), 2, Without(G, Created(3)), P, M)
  <2>1. /\ {"refresh_tokens"} \X TokenIndexes \subseteq Objects(3)
        /\ Objects(3) \ ({"refresh_tokens"} \X TokenIndexes) = Objects(2)
    BY ObjectsAre, ObjectsAreNew
  <2>. DEFINE freed == DropObjects(d, {"refresh_tokens"}, TokenIndexes)
  <2>2. Is(freed, R, L, Objects(2), G, P, M)
    BY <1>5, <2>1, DropObjectsIs DEF Fits, R, L
  <2>. HIDE DEF freed
  <2>3. Fits(Drop(freed, gone), 2, Without(G, Created(3)), P, M)
    <3>1. 3 \in {3, 4, 6, 11, 12, 13, 15} /\ 3 - 1 = 2
      OBVIOUS
    <3>2. {n \in Objects(2) : n[1] \notin Created(3)} = Objects(3 - 1)
      BY <3>1, ObjectsLeft
    <3>3. Is(freed, References(3, Tables(3)), Secured \cap Tables(3), Objects(2), G, P, M)
      BY <2>2 DEF R, L
    <3>4. Fits(Drop(freed, gone), 3 - 1, Without(G, Created(3)), P, M)
      BY <1>3, <3>1, <3>2, <3>3, DropFits
    <3>. QED
      BY <3>1, <3>4
  <2>. QED
    BY <2>3 DEF Down0003, freed, gone
<1>. QED
  BY <1>4, <1>5

\* The same of 0004, 0006, 0011, 0012, 0013, 0015 and 0018.
LEMMA Made4 ==
    LET made == <<Keyed("audit_events", {"profiles"}), Plain("audit_changes", {"audit_events"})>>
        gone == <<"audit_changes", "audit_events">>
    IN  /\ Creatable(3, Tables(3), made) /\ NamesOf(made) = Created(4)
        /\ Droppable(4, Tables(4), gone) /\ Range(gone) = Created(4)
<1>. DEFINE made == <<Keyed("audit_events", {"profiles"}), Plain("audit_changes", {"audit_events"})>>
            gone == <<"audit_changes", "audit_events">>
<1>1. /\ DOMAIN made = 1..2 /\ Len(made) = 2
      /\ made[1] = [name |-> "audit_events", refs |-> {"profiles", "tenants"}, keyed |-> TRUE]
      /\ made[2] = [name |-> "audit_changes", refs |-> {"audit_events"}, keyed |-> FALSE]
  BY DEF Keyed, Plain
<1>2. /\ AuditTables \cap Tables(3) = {}
      /\ {"profiles", "tenants"} \subseteq Tables(3)
      /\ AuditTables \subseteq Tables(4)
      /\ {"audit_events"} \subseteq WithKey
      /\ {"audit_changes"} \cap WithKey = {}
  BY DEF Tables, AllTables, Since, IamTables, Assignments, PartnerTables, TokenTables, AuditTables, PoTables,
         PoTable,
         SupplierTables, ProductTables, EdiTables, WithKey, WithTenant
<1>3. DOMAIN gone = 1..2 /\ Len(gone) = 2 /\ gone[1] = "audit_changes" /\ gone[2] = "audit_events"
  OBVIOUS
<1>4. Range(gone) = AuditTables
  BY <1>3 DEF Range, AuditTables
<1>. HIDE DEF made, gone
<1>5. Creatable(3, Tables(3), made)
  BY <1>1, <1>2, ParentsAre DEF Creatable, AuditTables
<1>6. NamesOf(made) = AuditTables
  BY <1>1 DEF NamesOf, AuditTables
<1>7. ASSUME NEW t, NEW p \in AuditTables, p \in Parents(4, t)
      PROVE  p = "audit_events" /\ t = "audit_changes"
  BY <1>7 DEF Parents, Refers, AuditTables, PoTable
<1>8. Droppable(4, Tables(4), gone)
  BY <1>2, <1>3, <1>7 DEF Droppable, AuditTables
<1>. QED
  BY <1>4, <1>5, <1>6, <1>8, CreatedAre DEF made, gone

LEMMA Made6 ==
    LET made == <<Keyed(PoTable, {"profiles", "business_partners", "payment_terms"}),
                  Composite("customer_purchase_order_lines", {PoTable}),
                  Composite("customer_po_status_events", {PoTable, "profiles"})>>
        gone == <<"customer_po_status_events", "customer_purchase_order_lines", PoTable>>
    IN  /\ Creatable(5, Tables(5), made) /\ NamesOf(made) = Created(6)
        /\ Droppable(6, Tables(6), gone) /\ Range(gone) = Created(6)
<1>. DEFINE made == <<Keyed(PoTable, {"profiles", "business_partners", "payment_terms"}),
                      Composite("customer_purchase_order_lines", {PoTable}),
                      Composite("customer_po_status_events", {PoTable, "profiles"})>>
            gone == <<"customer_po_status_events", "customer_purchase_order_lines", PoTable>>
<1>1. /\ DOMAIN made = 1..3 /\ Len(made) = 3
      /\ made[1] = [name |-> PoTable, refs |-> {"profiles", "business_partners", "payment_terms", "tenants"},
                    keyed |-> TRUE]
      /\ made[2] = [name |-> "customer_purchase_order_lines", refs |-> {PoTable}, keyed |-> TRUE]
      /\ made[3] = [name |-> "customer_po_status_events", refs |-> {PoTable, "profiles"}, keyed |-> TRUE]
  BY DEF Composite, Keyed
<1>2. /\ PoTables \cap Tables(5) = {}
      /\ {"profiles", "tenants", "business_partners", "payment_terms"} \subseteq Tables(5)
      /\ PoTables \subseteq Tables(6)
      /\ {PoTable, "customer_purchase_order_lines", "customer_po_status_events"} \subseteq WithKey
      /\ "customer_po_events" \notin Tables(6)
  BY DEF Tables, AllTables, Since, IamTables, Assignments, PartnerTables, TokenTables, AuditTables, PoTables,
         PoTable,
         SupplierTables, ProductTables, EdiTables, WithKey, WithTenant
<1>3. /\ DOMAIN gone = 1..3 /\ Len(gone) = 3 /\ gone[1] = "customer_po_status_events"
      /\ gone[2] = "customer_purchase_order_lines" /\ gone[3] = PoTable
  OBVIOUS
<1>4. Range(gone) = PoTables
  BY <1>3 DEF Range, PoTables, PoTable
<1>. HIDE DEF made, gone
<1>5. Creatable(5, Tables(5), made)
  BY <1>1, <1>2, ParentsAre DEF Creatable, PoTables, PoTable
<1>6. NamesOf(made) = PoTables
  BY <1>1 DEF NamesOf, PoTables, PoTable
<1>7. ASSUME NEW t, NEW p \in PoTables, p \in Parents(6, t)
      PROVE  /\ p = PoTable
             /\ t \in {"customer_purchase_order_lines", "customer_po_status_events", "customer_po_events"}
  BY <1>7 DEF Parents, Refers, PoTables, PoTable
<1>8. Droppable(6, Tables(6), gone)
  BY <1>2, <1>3, <1>7 DEF Droppable, PoTables, PoTable
<1>. QED
  BY <1>4, <1>5, <1>6, <1>8, CreatedAre DEF made, gone

LEMMA Made11 ==
    LET made == <<Composite("customer_po_events", {PoTable, "profiles"})>>
        gone == <<"customer_po_events">>
    IN  /\ Creatable(10, Tables(10), made) /\ NamesOf(made) = Created(11)
        /\ Droppable(11, Tables(11), gone) /\ Range(gone) = Created(11)
<1>. DEFINE made == <<Composite("customer_po_events", {PoTable, "profiles"})>>
            gone == <<"customer_po_events">>
<1>1. /\ DOMAIN made = 1..1 /\ Len(made) = 1
      /\ made[1] = [name |-> "customer_po_events", refs |-> {PoTable, "profiles"}, keyed |-> TRUE]
  BY DEF Composite
<1>2. /\ {"customer_po_events"} \cap Tables(10) = {}
      /\ {PoTable, "profiles"} \subseteq Tables(10)
      /\ {"customer_po_events"} \subseteq Tables(11)
      /\ {"customer_po_events"} \subseteq WithKey
  BY DEF Tables, AllTables, Since, IamTables, Assignments, PartnerTables, TokenTables, AuditTables, PoTables,
         PoTable,
         SupplierTables, ProductTables, EdiTables, WithKey, WithTenant
<1>3. DOMAIN gone = 1..1 /\ Len(gone) = 1 /\ gone[1] = "customer_po_events"
  OBVIOUS
<1>4. Range(gone) = {"customer_po_events"}
  BY <1>3 DEF Range
<1>. HIDE DEF made, gone
<1>5. Creatable(10, Tables(10), made)
  BY <1>1, <1>2, ParentsAre DEF Creatable
<1>6. NamesOf(made) = {"customer_po_events"}
  BY <1>1 DEF NamesOf
<1>7. ASSUME NEW t, NEW p \in {"customer_po_events"}, p \in Parents(11, t)
      PROVE  FALSE
  BY <1>7 DEF Parents, Refers, PoTable
<1>8. Droppable(11, Tables(11), gone)
  BY <1>2, <1>3, <1>7 DEF Droppable
<1>. QED
  BY <1>4, <1>5, <1>6, <1>8, CreatedAre DEF made, gone

LEMMA Made12 ==
    LET made == <<Keyed("attachments", {"profiles"})>>
        gone == <<"attachments">>
    IN  /\ Creatable(11, Tables(11), made) /\ NamesOf(made) = Created(12)
        /\ Droppable(12, Tables(12), gone) /\ Range(gone) = Created(12)
<1>. DEFINE made == <<Keyed("attachments", {"profiles"})>>
            gone == <<"attachments">>
<1>1. /\ DOMAIN made = 1..1 /\ Len(made) = 1
      /\ made[1] = [name |-> "attachments", refs |-> {"profiles", "tenants"}, keyed |-> TRUE]
  BY DEF Keyed
<1>2. /\ {"attachments"} \cap Tables(11) = {}
      /\ {"profiles", "tenants"} \subseteq Tables(11)
      /\ {"attachments"} \subseteq Tables(12)
      /\ {"attachments"} \subseteq WithKey
  BY DEF Tables, AllTables, Since, IamTables, Assignments, PartnerTables, TokenTables, AuditTables, PoTables,
         PoTable,
         SupplierTables, ProductTables, EdiTables, WithKey, WithTenant
<1>3. DOMAIN gone = 1..1 /\ Len(gone) = 1 /\ gone[1] = "attachments"
  OBVIOUS
<1>4. Range(gone) = {"attachments"}
  BY <1>3 DEF Range
<1>. HIDE DEF made, gone
<1>5. Creatable(11, Tables(11), made)
  BY <1>1, <1>2, ParentsAre DEF Creatable
<1>6. NamesOf(made) = {"attachments"}
  BY <1>1 DEF NamesOf
<1>7. ASSUME NEW t, NEW p \in {"attachments"}, p \in Parents(12, t)
      PROVE  FALSE
  BY <1>7 DEF Parents, Refers, PoTable
<1>8. Droppable(12, Tables(12), gone)
  BY <1>2, <1>3, <1>7 DEF Droppable
<1>. QED
  BY <1>4, <1>5, <1>6, <1>8, CreatedAre DEF made, gone

LEMMA Made13 ==
    LET made == <<Composite("supplier_user_assignments", {"profiles", "business_partners"}),
                  Composite("supplier_group_assignments", {"groups", "business_partners"})>>
        gone == <<"supplier_group_assignments", "supplier_user_assignments">>
    IN  /\ Creatable(12, Tables(12), made) /\ NamesOf(made) = Created(13)
        /\ Droppable(13, Tables(13), gone) /\ Range(gone) = Created(13)
<1>. DEFINE made == <<Composite("supplier_user_assignments", {"profiles", "business_partners"}),
                      Composite("supplier_group_assignments", {"groups", "business_partners"})>>
            gone == <<"supplier_group_assignments", "supplier_user_assignments">>
<1>1. /\ DOMAIN made = 1..2 /\ Len(made) = 2
      /\ made[1] = [name |-> "supplier_user_assignments", refs |-> {"profiles", "business_partners"},
                    keyed |-> TRUE]
      /\ made[2] = [name |-> "supplier_group_assignments", refs |-> {"groups", "business_partners"}, keyed |-> TRUE]
  BY DEF Composite
<1>2. /\ SupplierTables \cap Tables(12) = {}
      /\ {"profiles", "groups", "business_partners"} \subseteq Tables(12)
      /\ SupplierTables \subseteq Tables(13)
      /\ {"supplier_user_assignments", "supplier_group_assignments"} \subseteq WithKey
  BY DEF Tables, AllTables, Since, IamTables, Assignments, PartnerTables, TokenTables, AuditTables, PoTables,
         PoTable,
         SupplierTables, ProductTables, EdiTables, WithKey, WithTenant
<1>3. /\ DOMAIN gone = 1..2 /\ Len(gone) = 2 /\ gone[1] = "supplier_group_assignments"
      /\ gone[2] = "supplier_user_assignments"
  OBVIOUS
<1>4. Range(gone) = SupplierTables
  BY <1>3 DEF Range, SupplierTables
<1>. HIDE DEF made, gone
<1>5. Creatable(12, Tables(12), made)
  BY <1>1, <1>2, ParentsAre DEF Creatable, SupplierTables
<1>6. NamesOf(made) = SupplierTables
  BY <1>1 DEF NamesOf, SupplierTables
<1>7. ASSUME NEW t, NEW p \in SupplierTables, p \in Parents(13, t)
      PROVE  FALSE
  BY <1>7 DEF Parents, Refers, SupplierTables, PoTable
<1>8. Droppable(13, Tables(13), gone)
  BY <1>2, <1>3, <1>7 DEF Droppable, SupplierTables
<1>. QED
  BY <1>4, <1>5, <1>6, <1>8, CreatedAre DEF made, gone

LEMMA Made15 ==
    LET made == <<Keyed("products", {"profiles"}), Composite("product_user_assignments", {"profiles", "products"}),
                  Composite("product_group_assignments", {"groups", "products"})>>
        gone == <<"product_group_assignments", "product_user_assignments", "products">>
    IN  /\ Creatable(14, Tables(14), made) /\ NamesOf(made) = Created(15)
        /\ Droppable(15, Tables(15), gone) /\ Range(gone) = Created(15)
<1>. DEFINE made == <<Keyed("products", {"profiles"}),
                      Composite("product_user_assignments", {"profiles", "products"}),
                      Composite("product_group_assignments", {"groups", "products"})>>
            gone == <<"product_group_assignments", "product_user_assignments", "products">>
<1>1. /\ DOMAIN made = 1..3 /\ Len(made) = 3
      /\ made[1] = [name |-> "products", refs |-> {"profiles", "tenants"}, keyed |-> TRUE]
      /\ made[2] = [name |-> "product_user_assignments", refs |-> {"profiles", "products"}, keyed |-> TRUE]
      /\ made[3] = [name |-> "product_group_assignments", refs |-> {"groups", "products"}, keyed |-> TRUE]
  BY DEF Composite, Keyed
<1>2. /\ ProductTables \cap Tables(14) = {}
      /\ {"profiles", "groups", "tenants"} \subseteq Tables(14)
      /\ ProductTables \subseteq Tables(15)
      /\ {"products", "product_user_assignments", "product_group_assignments"} \subseteq WithKey
  BY DEF Tables, AllTables, Since, IamTables, Assignments, PartnerTables, TokenTables, AuditTables, PoTables,
         PoTable,
         SupplierTables, ProductTables, EdiTables, WithKey, WithTenant
<1>3. /\ DOMAIN gone = 1..3 /\ Len(gone) = 3 /\ gone[1] = "product_group_assignments"
      /\ gone[2] = "product_user_assignments" /\ gone[3] = "products"
  OBVIOUS
<1>4. Range(gone) = ProductTables
  BY <1>3 DEF Range, ProductTables
<1>. HIDE DEF made, gone
<1>5. Creatable(14, Tables(14), made)
  BY <1>1, <1>2, ParentsAre DEF Creatable, ProductTables
<1>6. NamesOf(made) = ProductTables
  BY <1>1 DEF NamesOf, ProductTables
<1>7. ASSUME NEW t, NEW p \in ProductTables, p \in Parents(15, t)
      PROVE  p = "products" /\ t \in {"product_user_assignments", "product_group_assignments"}
  BY <1>7 DEF Parents, Refers, ProductTables, PoTable
<1>8. Droppable(15, Tables(15), gone)
  BY <1>2, <1>3, <1>7 DEF Droppable, ProductTables
<1>. QED
  BY <1>4, <1>5, <1>6, <1>8, CreatedAre DEF made, gone

LEMMA Made18 ==
    LET made == <<Keyed("edi_messages", {}), Composite("edi_message_events", {"edi_messages"})>>
        gone == <<"edi_message_events", "edi_messages">>
    IN  /\ Creatable(17, Tables(17), made) /\ NamesOf(made) = Created(18)
        /\ Droppable(17, Tables(18), gone) /\ Range(gone) = Created(18)
<1>. DEFINE made == <<Keyed("edi_messages", {}), Composite("edi_message_events", {"edi_messages"})>>
            gone == <<"edi_message_events", "edi_messages">>
<1>1. /\ DOMAIN made = 1..2 /\ Len(made) = 2
      /\ made[1] = [name |-> "edi_messages", refs |-> {"tenants"}, keyed |-> TRUE]
      /\ made[2] = [name |-> "edi_message_events", refs |-> {"edi_messages"}, keyed |-> TRUE]
  BY DEF Composite, Keyed
<1>2. /\ EdiTables \cap Tables(17) = {}
      /\ {"tenants"} \subseteq Tables(17)
      /\ EdiTables \subseteq Tables(18)
      /\ {"edi_messages", "edi_message_events"} \subseteq WithKey
  BY DEF Tables, AllTables, Since, IamTables, Assignments, PartnerTables, TokenTables, AuditTables, PoTables,
         PoTable,
         SupplierTables, ProductTables, EdiTables, WithKey, WithTenant
<1>3. DOMAIN gone = 1..2 /\ Len(gone) = 2 /\ gone[1] = "edi_message_events" /\ gone[2] = "edi_messages"
  OBVIOUS
<1>4. Range(gone) = EdiTables
  BY <1>3 DEF Range, EdiTables
<1>. HIDE DEF made, gone
<1>5. Creatable(17, Tables(17), made)
  BY <1>1, <1>2, ParentsAre DEF Creatable, EdiTables
<1>6. NamesOf(made) = EdiTables
  BY <1>1 DEF NamesOf, EdiTables
<1>7. ASSUME NEW t, NEW p \in EdiTables, p \in Parents(17, t)
      PROVE  p = "edi_messages" /\ t = "edi_message_events"
  BY <1>7 DEF Parents, Refers, EdiTables, PoTable
<1>8. Droppable(17, Tables(18), gone)
  BY <1>2, <1>3, <1>7 DEF Droppable, EdiTables
<1>. QED
  BY <1>4, <1>5, <1>6, <1>8, CreatedAre DEF made, gone

\* The new tables are secured.
LEMMA GuardFits ==
    ASSUME NEW d, NEW G, NEW P, NEW M, NEW N, NEW r \in {4, 6, 11, 12, 13, 15},
           Is(d, References(r, Tables(r)), Secured \cap Tables(r - 1), N, G, P, M)
    PROVE  Is(EnableRls(d, Created(r)), References(r, Tables(r)), Secured \cap Tables(r), N, G, P, M)
<1>1. Created(r) \subseteq Secured /\ Created(r) \subseteq WithKey \cup {"audit_changes"}
  BY CreatedAre DEF Secured, WithKey, WithTenant, AuditTables, PoTables, SupplierTables, ProductTables
<1>2. Tables(r) = Tables(r - 1) \cup Created(r) /\ DOMAIN References(r, Tables(r)) = Tables(r)
  BY Growing DEF References
<1>3. (Secured \cap Tables(r - 1)) \cup Created(r) = Secured \cap Tables(r)
  BY <1>1, <1>2
<1>. QED
  BY <1>1, <1>2, <1>3, EnableRlsIs

\* Rights on tables that are there.
LEMMA GrantFits ==
    ASSUME NEW d, NEW L, NEW G, NEW P, NEW M, NEW N, NEW r, NEW rights, NEW tables \in SUBSET Tables(r),
           Is(d, References(r, Tables(r)), L, N, G, P, M)
    PROVE  Is(Grant(d, rights, tables), References(r, Tables(r)), L, N, G \cup (tables \X rights), P, M)
<1>1. DOMAIN References(r, Tables(r)) = Tables(r)
  BY DEF References
<1>. QED
  BY <1>1, GrantIs

\* The downgrade drops the tables with their rights.
LEMMA DropAllFits ==
    ASSUME NEW d, NEW G, NEW P, NEW M, NEW r \in {4, 6, 11, 12, 13, 15}, Fits(d, r, G, P, M),
           NEW names, Droppable(r, Tables(r), names), Range(names) = Created(r)
    PROVE  Fits(Drop(d, names), r - 1, Without(G, Created(r)), P, M)
<1>1. {n \in Objects(r) : n[1] \notin Created(r)} = Objects(r - 1)
  <2>1. r \in {4, 11, 12, 13, 15} => {n \in Objects(r) : n[1] \notin Created(r)} = Objects(r - 1)
    BY ObjectsLeft
  <2>2. r = 6 => {n \in Objects(r) : n[1] \notin Created(r)} = Objects(r - 1)
    BY ObjectsLeft
  <2>. QED
    BY <2>1, <2>2
<1>2. Is(d, References(r, Tables(r)), Secured \cap Tables(r), Objects(r), G, P, M)
  BY DEF Fits
<1>. QED
  BY <1>1, <1>2, DropFits

\* 0004, forth and back.
LEMMA Schema4 ==
    ASSUME NEW d, NEW G, NEW P, NEW M
    PROVE  /\ Fits(d, 3, G, P, M) => Fits(Up0004(d), 4, G \cup Given(4), P \cup {"audit"},
                                          M \cup ({"admin"} \X {"audit"}))
           /\ Fits(d, 4, G, P, M) => Fits(Down0004(d), 3, Without(G, Created(4)), P \ {"audit"},
                                          {m \in M : m[2] \notin {"audit"}})
<1>. DEFINE R == References(4, Tables(4))
            L == Secured \cap Tables(4)
            made == <<Keyed("audit_events", {"profiles"}), Plain("audit_changes", {"audit_events"})>>
            gone == <<"audit_changes", "audit_events">>
<1>1. 4 \in {4, 6, 11, 12, 13, 15} /\ 4 - 1 = 3
  OBVIOUS
<1>2. Created(4) = AuditTables /\ AuditTables \subseteq Tables(4)
  BY <1>1, CreatedAre, Growing
<1>3. /\ Creatable(3, Tables(3), made) /\ NamesOf(made) = Created(4)
      /\ Droppable(4, Tables(4), gone) /\ Range(gone) = Created(4)
  BY Made4
<1>0. Objects(4) = Objects(3)
  BY <1>1, ObjectsAre
<1>. HIDE DEF made, gone
<1>4. ASSUME Fits(d, 3, G, P, M)
      PROVE  Fits(Up0004(d), 4, G \cup Given(4), P \cup {"audit"}, M \cup ({"admin"} \X {"audit"}))
  <2>. DEFINE tables == Create(d, made)
              guard == EnableRls(tables, AuditTables)
              seeded == Seed(guard, {"audit"})
              last == Grant(seeded, Append2, AuditTables)
  <2>1. Is(tables, R, Secured \cap Tables(3), Objects(3), G, P, M)
    BY <1>1, <1>3, <1>4, CreateFits
  <2>. HIDE DEF tables
  <2>2. Is(guard, R, L, Objects(3), G, P, M)
    BY <1>1, <1>2, <2>1, GuardFits
  <2>. HIDE DEF guard
  <2>3. Is(seeded, R, L, Objects(3), G, P \cup {"audit"}, M \cup ({"admin"} \X {"audit"}))
    BY <2>2, SeedIs
  <2>. HIDE DEF seeded
  <2>4. Is(last, R, L, Objects(3), G \cup (AuditTables \X Append2), P \cup {"audit"},
           M \cup ({"admin"} \X {"audit"}))
    BY <1>2, <2>3, GrantFits
  <2>. HIDE DEF last
  <2>5. G \cup (AuditTables \X Append2) = G \cup Given(4)
    BY GivenAre
  <2>6. Up0004(d) = last
    BY Zenon DEF Up0004, tables, made, guard, seeded, last
  <2>. QED
    BY <2>4, <2>5, <2>6, <1>0 DEF Fits
<1>5. ASSUME Fits(d, 4, G, P, M)
      PROVE  Fits(Down0004(d), 3, Without(G, Created(4)), P \ {"audit"}, {m \in M : m[2] \notin {"audit"}})
  <2>. DEFINE left == UnseedForAll(d, {"audit"})
              names == {m \in M : m[2] \notin {"audit"}}
  <2>1. Fits(left, 4, G, P \ {"audit"}, names)
    BY <1>5, UnseedIs DEF Fits
  <2>. HIDE DEF left, names
  <2>2. Fits(Drop(left, gone), 4 - 1, Without(G, Created(4)), P \ {"audit"}, names)
    BY <1>1, <1>3, <2>1, DropAllFits
  <2>. QED
    BY <1>1, <2>2 DEF Down0004, gone, left, names
<1>. QED
  BY <1>4, <1>5

\* The downgrade of 0006 drops the rows with their tables.
LEMMA OrdersGo ==
    ASSUME NEW d, NEW R, NEW L, NEW N, NEW G, NEW P, NEW M, Is(d, R, L, N, G, P, M)
    PROVE  Is(Run(d, TRUE, "", [d EXCEPT !.orders = {}]), R, L, N, G, P, M)
<1>1. SameSchema(d, [d EXCEPT !.orders = {}])
  BY DEF Is, SameSchema, Fields
<1>. QED
  BY <1>1, RowsIs

\* 0006, forth and back.
LEMMA Schema6 ==
    ASSUME NEW d, NEW G, NEW P, NEW M
    PROVE  /\ Fits(d, 5, G, P, M) => Fits(Up0006(d), 6, G \cup Given(6), P \cup {"customer_pos"},
                                          M \cup ({"admin"} \X {"customer_pos"}))
           /\ Fits(d, 6, G, P, M) => Fits(Down0006(d), 5, Without(G, Created(6)), P \ {"customer_pos"},
                                          {m \in M : m[2] \notin {"customer_pos"}})
<1>. DEFINE R == References(6, Tables(6))
            L == Secured \cap Tables(6)
            made == << Keyed(PoTable, {"profiles", "business_partners", "payment_terms"}),
                       Composite("customer_purchase_order_lines", {PoTable}),
                       Composite("customer_po_status_events", {PoTable, "profiles"}) >>
            gone == <<"customer_po_status_events", "customer_purchase_order_lines", PoTable>>
<1>1. 6 \in {4, 6, 11, 12, 13, 15} /\ 6 - 1 = 5
  OBVIOUS
<1>2. Created(6) = PoTables /\ PoTables \subseteq Tables(6)
  BY <1>1, CreatedAre, Growing
<1>3. /\ Creatable(5, Tables(5), made) /\ NamesOf(made) = Created(6)
      /\ Droppable(6, Tables(6), gone) /\ Range(gone) = Created(6)
  BY Made6
<1>. HIDE DEF made, gone
<1>4. ASSUME Fits(d, 5, G, P, M)
      PROVE  Fits(Up0006(d), 6, G \cup Given(6), P \cup {"customer_pos"}, M \cup ({"admin"} \X {"customer_pos"}))
  <2>. DEFINE tables == Create(d, made)
              ids == AddObjects(tables, {PoTable, "customer_po_status_events"}, {"edi_log_id"})
              named == AddObjects(ids, {PoTable}, {"ix_customer_pos_edi_log_id"})
              guard == EnableRls(named, PoTables)
              seeded == Seed(guard, {"customer_pos"})
              write == Grant(seeded, Write3, PoTables)
              last == Grant(write, {"DELETE"}, {"customer_purchase_order_lines"})
  <2>1. Is(tables, R, Secured \cap Tables(5), Objects(5), G, P, M)
    BY <1>1, <1>3, <1>4, CreateFits
  <2>. HIDE DEF tables
  <2>2. Is(ids, R, Secured \cap Tables(5),
           Objects(5) \cup ({PoTable, "customer_po_status_events"} \X {"edi_log_id"}), G, P, M)
    <3>1. {PoTable, "customer_po_status_events"} \subseteq DOMAIN R
      BY <1>2 DEF References, PoTables
    <3>. QED
      BY <3>1, <2>1, AddObjectsIs, ObjectsAreNew
  <2>. HIDE DEF ids
  <2>3. Is(named, R, Secured \cap Tables(5), Objects(6), G, P, M)
    <3>1. {PoTable} \subseteq DOMAIN R
      BY <1>2 DEF References, PoTables
    <3>2. ({PoTable} \X {"ix_customer_pos_edi_log_id"})
            \cap (Objects(5) \cup ({PoTable, "customer_po_status_events"} \X {"edi_log_id"})) = {}
      BY DEF Objects, PoTable, Assignments, PartnerIndexes, TokenIndexes
    <3>. QED
      BY <3>1, <3>2, <2>2, AddObjectsIs, ObjectsAre
  <2>. HIDE DEF named
  <2>4. Is(guard, R, L, Objects(6), G, P, M)
    BY <1>1, <1>2, <2>3, GuardFits
  <2>. HIDE DEF guard
  <2>5. Is(seeded, R, L, Objects(6), G, P \cup {"customer_pos"}, M \cup ({"admin"} \X {"customer_pos"}))
    BY <2>4, SeedIs
  <2>. HIDE DEF seeded
  <2>6. Is(write, R, L, Objects(6), G \cup (PoTables \X Write3), P \cup {"customer_pos"},
           M \cup ({"admin"} \X {"customer_pos"}))
    BY <1>2, <2>5, GrantFits
  <2>. HIDE DEF write
  <2>7. Is(last, R, L, Objects(6),
           (G \cup (PoTables \X Write3)) \cup ({"customer_purchase_order_lines"} \X {"DELETE"}),
           P \cup {"customer_pos"}, M \cup ({"admin"} \X {"customer_pos"}))
    <3>1. {"customer_purchase_order_lines"} \subseteq Tables(6)
      BY <1>2 DEF PoTables
    <3>. QED
      BY <3>1, <2>6, GrantFits
  <2>. HIDE DEF last
  <2>8. (G \cup (PoTables \X Write3)) \cup ({"customer_purchase_order_lines"} \X {"DELETE"}) = G \cup Given(6)
    BY GivenAre
  <2>9. Up0006(d) = last
    BY Zenon DEF Up0006, tables, made, ids, named, guard, seeded, write, last
  <2>. QED
    BY <2>7, <2>8, <2>9 DEF Fits
<1>5. ASSUME Fits(d, 6, G, P, M)
      PROVE  Fits(Down0006(d), 5, Without(G, Created(6)), P \ {"customer_pos"},
                  {m \in M : m[2] \notin {"customer_pos"}})
  <2>. DEFINE left == Unseed(d, {"customer_pos"})
              names == {m \in M : m[2] \notin {"customer_pos"}}
  <2>1. Fits(left, 6, G, P \ {"customer_pos"}, names)
    BY <1>5, UnseedIs DEF Fits
  <2>. HIDE DEF left, names
  <2>2. Fits(Drop(left, gone), 6 - 1, Without(G, Created(6)), P \ {"customer_pos"}, names)
    BY <1>1, <1>3, <2>1, DropAllFits
  <2>. DEFINE dropped == Drop(left, gone)
  <2>3. Is(dropped, References(5, Tables(5)), Secured \cap Tables(5), Objects(5), Without(G, Created(6)),
           P \ {"customer_pos"}, names)
    BY <1>1, <2>2 DEF Fits
  <2>. HIDE DEF dropped
  <2>4. Is(Run(dropped, TRUE, "", [dropped EXCEPT !.orders = {}]), References(5, Tables(5)),
           Secured \cap Tables(5), Objects(5),
           Without(G, Created(6)), P \ {"customer_pos"}, names)
    BY <2>3, OrdersGo
  <2>5. Down0006(d) = Run(dropped, TRUE, "", [dropped EXCEPT !.orders = {}])
    BY DEF Down0006, dropped, left, gone
  <2>. QED
    BY <2>4, <2>5 DEF Fits, names
<1>. QED
  BY <1>4, <1>5

\* 0011, forth and back: it revokes what app_runtime never had.
LEMMA Schema11 ==
    ASSUME NEW d, NEW G, NEW P, NEW M
    PROVE  /\ Fits(d, 10, G, P, M) /\ (\A g \in G : g[1] = "customer_po_events" => g[2] \in Append2)
                  => Fits(Up0011(d), 11, G \cup Given(11), P, M)
           /\ Fits(d, 11, G, P, M) => Fits(Down0011(d), 10, Without(G, Created(11)), P, M)
<1>. DEFINE R == References(11, Tables(11))
            L == Secured \cap Tables(11)
            made == <<Composite("customer_po_events", {PoTable, "profiles"})>>
            gone == <<"customer_po_events">>
<1>1. 11 \in {4, 6, 11, 12, 13, 15} /\ 11 - 1 = 10
  OBVIOUS
<1>2. Created(11) = {"customer_po_events"} /\ {"customer_po_events"} \subseteq Tables(11)
  BY <1>1, CreatedAre, Growing
<1>3. /\ Creatable(10, Tables(10), made) /\ NamesOf(made) = Created(11)
      /\ Droppable(11, Tables(11), gone) /\ Range(gone) = Created(11)
  BY Made11
<1>0. Objects(11) = Objects(10)
  BY <1>1, ObjectsAre
<1>. HIDE DEF made, gone
<1>4. ASSUME Fits(d, 10, G, P, M), \A g \in G : g[1] = "customer_po_events" => g[2] \in Append2
      PROVE  Fits(Up0011(d), 11, G \cup Given(11), P, M)
  <2>. DEFINE tables == Create(d, made)
              guard == EnableRls(tables, {"customer_po_events"})
              grant == Grant(guard, Append2, {"customer_po_events"})
              last == Revoke(grant, {"UPDATE", "DELETE"}, {"customer_po_events"})
  <2>1. Is(tables, R, Secured \cap Tables(10), Objects(10), G, P, M)
    BY <1>1, <1>3, <1>4, CreateFits
  <2>. HIDE DEF tables
  <2>2. Is(guard, R, L, Objects(10), G, P, M)
    BY <1>1, <1>2, <2>1, GuardFits
  <2>. HIDE DEF guard
  <2>3. Is(grant, R, L, Objects(10), G \cup ({"customer_po_events"} \X Append2), P, M)
    BY <1>2, <2>2, GrantFits
  <2>. HIDE DEF grant
  <2>4. Is(last, R, L, Objects(10),
           (G \cup ({"customer_po_events"} \X Append2)) \ ({"customer_po_events"} \X {"UPDATE", "DELETE"}), P, M)
    BY <2>3, RevokeIs
  <2>. HIDE DEF last
  <2>5. (G \cup ({"customer_po_events"} \X Append2)) \ ({"customer_po_events"} \X {"UPDATE", "DELETE"})
          = G \cup Given(11)
    BY GivenAre, <1>4 DEF Append2
  <2>6. Up0011(d) = last
    BY Zenon DEF Up0011, tables, made, guard, grant, last
  <2>. QED
    BY <2>4, <2>5, <2>6, <1>0 DEF Fits
<1>5. ASSUME Fits(d, 11, G, P, M) PROVE Fits(Down0011(d), 10, Without(G, Created(11)), P, M)
  <2>2. Fits(Drop(d, gone), 11 - 1, Without(G, Created(11)), P, M)
    BY <1>1, <1>3, <1>5, DropAllFits
  <2>. QED
    BY <1>1, <2>2 DEF Down0011, gone
<1>. QED
  BY <1>4, <1>5

\* 0012, forth and back.
LEMMA Schema12 ==
    ASSUME NEW d, NEW G, NEW P, NEW M
    PROVE  /\ Fits(d, 11, G, P, M) /\ (\A g \in G : g[1] = "attachments" => g[2] \in Write3)
                  => Fits(Up0012(d), 12, G \cup Given(12), P, M)
           /\ Fits(d, 12, G, P, M) => Fits(Down0012(d), 11, Without(G, Created(12)), P, M)
<1>. DEFINE R == References(12, Tables(12))
            L == Secured \cap Tables(12)
            made == <<Keyed("attachments", {"profiles"})>>
            gone == <<"attachments">>
<1>1. 12 \in {4, 6, 11, 12, 13, 15} /\ 12 - 1 = 11
  OBVIOUS
<1>2. Created(12) = {"attachments"} /\ {"attachments"} \subseteq Tables(12)
  BY <1>1, CreatedAre, Growing
<1>3. /\ Creatable(11, Tables(11), made) /\ NamesOf(made) = Created(12)
      /\ Droppable(12, Tables(12), gone) /\ Range(gone) = Created(12)
  BY Made12
<1>0. Objects(12) = Objects(11)
  BY <1>1, ObjectsAre
<1>. HIDE DEF made, gone
<1>4. ASSUME Fits(d, 11, G, P, M), \A g \in G : g[1] = "attachments" => g[2] \in Write3
      PROVE  Fits(Up0012(d), 12, G \cup Given(12), P, M)
  <2>. DEFINE tables == Create(d, made)
              guard == EnableRls(tables, {"attachments"})
              grant == Grant(guard, Write3, {"attachments"})
              last == Revoke(grant, {"DELETE"}, {"attachments"})
  <2>1. Is(tables, R, Secured \cap Tables(11), Objects(11), G, P, M)
    BY <1>1, <1>3, <1>4, CreateFits
  <2>. HIDE DEF tables
  <2>2. Is(guard, R, L, Objects(11), G, P, M)
    BY <1>1, <1>2, <2>1, GuardFits
  <2>. HIDE DEF guard
  <2>3. Is(grant, R, L, Objects(11), G \cup ({"attachments"} \X Write3), P, M)
    BY <1>2, <2>2, GrantFits
  <2>. HIDE DEF grant
  <2>4. Is(last, R, L, Objects(11), (G \cup ({"attachments"} \X Write3)) \ ({"attachments"} \X {"DELETE"}), P, M)
    BY <2>3, RevokeIs
  <2>. HIDE DEF last
  <2>5. (G \cup ({"attachments"} \X Write3)) \ ({"attachments"} \X {"DELETE"}) = G \cup Given(12)
    BY GivenAre, <1>4 DEF Write3
  <2>6. Up0012(d) = last
    BY Zenon DEF Up0012, tables, made, guard, grant, last
  <2>. QED
    BY <2>4, <2>5, <2>6, <1>0 DEF Fits
<1>5. ASSUME Fits(d, 12, G, P, M) PROVE Fits(Down0012(d), 11, Without(G, Created(12)), P, M)
  <2>2. Fits(Drop(d, gone), 12 - 1, Without(G, Created(12)), P, M)
    BY <1>1, <1>3, <1>5, DropAllFits
  <2>. QED
    BY <1>1, <2>2 DEF Down0012, gone
<1>. QED
  BY <1>4, <1>5

\* 0013, forth and back.
LEMMA Schema13 ==
    ASSUME NEW d, NEW G, NEW P, NEW M
    PROVE  /\ Fits(d, 12, G, P, M) => Fits(Up0013(d), 13, G \cup Given(13), P \cup {"suppliers"},
                                           M \cup ({"admin"} \X {"suppliers"}))
           /\ Fits(d, 13, G, P, M) => Fits(Down0013(d), 12, Without(G, Created(13)), P \ {"suppliers"},
                                           {m \in M : m[2] \notin {"suppliers"}})
<1>. DEFINE R == References(13, Tables(13))
            L == Secured \cap Tables(13)
            made == << Composite("supplier_user_assignments", {"profiles", "business_partners"}),
                       Composite("supplier_group_assignments", {"groups", "business_partners"}) >>
            gone == <<"supplier_group_assignments", "supplier_user_assignments">>
<1>1. 13 \in {4, 6, 11, 12, 13, 15} /\ 13 - 1 = 12
  OBVIOUS
<1>2. Created(13) = SupplierTables /\ SupplierTables \subseteq Tables(13)
  BY <1>1, CreatedAre, Growing
<1>3. /\ Creatable(12, Tables(12), made) /\ NamesOf(made) = Created(13)
      /\ Droppable(13, Tables(13), gone) /\ Range(gone) = Created(13)
  BY Made13
<1>0. Objects(13) = Objects(12)
  BY <1>1, ObjectsAre
<1>. HIDE DEF made, gone
<1>4. ASSUME Fits(d, 12, G, P, M)
      PROVE  Fits(Up0013(d), 13, G \cup Given(13), P \cup {"suppliers"}, M \cup ({"admin"} \X {"suppliers"}))
  <2>. DEFINE tables == Create(d, made)
              guard == EnableRls(tables, SupplierTables)
              grant == Grant(guard, All4, SupplierTables)
              last == Adopt(grant, {"suppliers"})
  <2>1. Is(tables, R, Secured \cap Tables(12), Objects(12), G, P, M)
    BY <1>1, <1>3, <1>4, CreateFits
  <2>. HIDE DEF tables
  <2>2. Is(guard, R, L, Objects(12), G, P, M)
    BY <1>1, <1>2, <2>1, GuardFits
  <2>. HIDE DEF guard
  <2>3. Is(grant, R, L, Objects(12), G \cup (SupplierTables \X All4), P, M)
    BY <1>2, <2>2, GrantFits
  <2>. HIDE DEF grant
  <2>4. Is(last, R, L, Objects(12), G \cup (SupplierTables \X All4), P \cup {"suppliers"},
           M \cup ({"admin"} \X {"suppliers"}))
    BY <2>3, AdoptIs
  <2>. HIDE DEF last
  <2>5. G \cup (SupplierTables \X All4) = G \cup Given(13)
    BY GivenAre
  <2>6. Up0013(d) = last
    BY Zenon DEF Up0013, tables, made, guard, grant, last
  <2>. QED
    BY <2>4, <2>5, <2>6, <1>0 DEF Fits
<1>5. ASSUME Fits(d, 13, G, P, M)
      PROVE  Fits(Down0013(d), 12, Without(G, Created(13)), P \ {"suppliers"},
                  {m \in M : m[2] \notin {"suppliers"}})
  <2>. DEFINE left == Unseed(d, {"suppliers"})
              names == {m \in M : m[2] \notin {"suppliers"}}
  <2>1. Fits(left, 13, G, P \ {"suppliers"}, names)
    BY <1>5, UnseedIs DEF Fits
  <2>. HIDE DEF left, names
  <2>2. Fits(Drop(left, gone), 13 - 1, Without(G, Created(13)), P \ {"suppliers"}, names)
    BY <1>1, <1>3, <2>1, DropAllFits
  <2>. QED
    BY <1>1, <2>2 DEF Down0013, gone, left, names
<1>. QED
  BY <1>4, <1>5

\* 0015, forth and back.
LEMMA Schema15 ==
    ASSUME NEW d, NEW G, NEW P, NEW M
    PROVE  /\ Fits(d, 14, G, P, M) => Fits(Up0015(d), 15, G \cup Given(15), P \cup {"products"},
                                           M \cup ({"admin"} \X {"products"}))
           /\ Fits(d, 15, G, P, M) => Fits(Down0015(d), 14, Without(G, Created(15)), P \ {"products"},
                                           {m \in M : m[2] \notin {"products"}})
<1>. DEFINE R == References(15, Tables(15))
            L == Secured \cap Tables(15)
            made == << Keyed("products", {"profiles"}),
                       Composite("product_user_assignments", {"profiles", "products"}),
                       Composite("product_group_assignments", {"groups", "products"}) >>
            gone == <<"product_group_assignments", "product_user_assignments", "products">>
<1>1. 15 \in {4, 6, 11, 12, 13, 15} /\ 15 - 1 = 14
  OBVIOUS
<1>2. Created(15) = ProductTables /\ ProductTables \subseteq Tables(15)
  BY <1>1, CreatedAre, Growing
<1>3. /\ Creatable(14, Tables(14), made) /\ NamesOf(made) = Created(15)
      /\ Droppable(15, Tables(15), gone) /\ Range(gone) = Created(15)
  BY Made15
<1>0. Objects(15) = Objects(14)
  BY <1>1, ObjectsAre
<1>. HIDE DEF made, gone
<1>4. ASSUME Fits(d, 14, G, P, M)
      PROVE  Fits(Up0015(d), 15, G \cup Given(15), P \cup {"products"}, M \cup ({"admin"} \X {"products"}))
  <2>. DEFINE tables == Create(d, made)
              guard == EnableRls(tables, ProductTables)
              grant == Grant(guard, All4, ProductTables)
              last == Adopt(grant, {"products"})
  <2>1. Is(tables, R, Secured \cap Tables(14), Objects(14), G, P, M)
    BY <1>1, <1>3, <1>4, CreateFits
  <2>. HIDE DEF tables
  <2>2. Is(guard, R, L, Objects(14), G, P, M)
    BY <1>1, <1>2, <2>1, GuardFits
  <2>. HIDE DEF guard
  <2>3. Is(grant, R, L, Objects(14), G \cup (ProductTables \X All4), P, M)
    BY <1>2, <2>2, GrantFits
  <2>. HIDE DEF grant
  <2>4. Is(last, R, L, Objects(14), G \cup (ProductTables \X All4), P \cup {"products"},
           M \cup ({"admin"} \X {"products"}))
    BY <2>3, AdoptIs
  <2>. HIDE DEF last
  <2>5. G \cup (ProductTables \X All4) = G \cup Given(15)
    BY GivenAre
  <2>6. Up0015(d) = last
    BY Zenon DEF Up0015, tables, made, guard, grant, last
  <2>. QED
    BY <2>4, <2>5, <2>6, <1>0 DEF Fits
<1>5. ASSUME Fits(d, 15, G, P, M)
      PROVE  Fits(Down0015(d), 14, Without(G, Created(15)), P \ {"products"}, {m \in M : m[2] \notin {"products"}})
  <2>. DEFINE left == Unseed(d, {"products"})
              names == {m \in M : m[2] \notin {"products"}}
  <2>1. Fits(left, 15, G, P \ {"products"}, names)
    BY <1>5, UnseedIs DEF Fits
  <2>. HIDE DEF left, names
  <2>2. Fits(Drop(left, gone), 15 - 1, Without(G, Created(15)), P \ {"products"}, names)
    BY <1>1, <1>3, <2>1, DropAllFits
  <2>. QED
    BY <1>1, <2>2 DEF Down0015, gone, left, names
<1>. QED
  BY <1>4, <1>5

-----------------------------------------------------------------------------
\* The last ones: rows, links, and a reference under another name.

\* Rows only: 0017.
LEMMA Schema17 ==
    ASSUME NEW d, NEW G, NEW P, NEW M
    PROVE  /\ Fits(d, 16, G, P, M) => Fits(Up0017(d), 17, G, P, M)
           /\ Fits(d, 17, G, P, M) => Fits(Down0017(d), 16, G, P, M)
<1>1. \A c : Fits(c, 17, G, P, M) <=> Fits(c, 16, G, P, M)
  BY SteadyFits
<1>2. ASSUME NEW condition, NEW cause \in {"data", ""}, cause # "data" => condition,
             NEW partners, NEW roles, Fits(d, 16, G, P, M)
      PROVE  Fits(Run(d, condition, cause, [d EXCEPT !.partners = partners, !.roles = roles]), 16, G, P, M)
  <2>. DEFINE next == [d EXCEPT !.partners = partners, !.roles = roles]
              R == References(16, Tables(16))
              L == Secured \cap Tables(16)
              N == Objects(16)
  <2>1. Is(d, R, L, N, G, P, M)
    BY <1>2 DEF Fits
  <2>. HIDE DEF R, L, N
  <2>2. SameSchema(d, next)
    BY <2>1 DEF Is, SameSchema, Fields
  <2>. HIDE DEF next
  <2>4. Is(Run(d, condition, cause, next), R, L, N, G, P, M)
    BY <1>2, <2>1, <2>2, RowsIs
  <2>. QED
    BY <2>4 DEF Fits, next, R, L, N
<1>3. Fits(d, 16, G, P, M) => Fits(Up0017(d), 16, G, P, M)
  <2>. DEFINE partners == WpgPartners(d)
              roles == WpgRoles(WpgPartners(d), d.roles)
              next == [d EXCEPT !.partners = partners, !.roles = roles]
  <2>1. Up0017(d) = IF env = "prod" THEN d ELSE Run(d, TRUE, "", next)
    BY DEF Up0017
  <2>2. Fits(d, 16, G, P, M) => Fits(Run(d, TRUE, "", next), 16, G, P, M)
    BY <1>2
  <2>. QED
    BY <2>1, <2>2
<1>4. Fits(d, 16, G, P, M) => Fits(Down0017(d), 16, G, P, M)
  <2>. DEFINE partners == {p \in d.partners : p.id # WpgId}
              roles == {r \in d.roles : ~r.seeded}
              next == [d EXCEPT !.partners = partners, !.roles = roles]
              free == \/ \A p \in d.partners : p.id # WpgId
                      \/ /\ \A r \in roles : r.partner # WpgId
                         /\ \A o \in d.orders : o.customer # WpgId
  <2>1. Down0017(d) = IF env = "prod" THEN d
                      ELSE Run(d, free, "data",
                               [d EXCEPT !.roles = roles, !.partners = {p \in @ : p.id # WpgId}])
    BY Zenon DEF Down0017
  <2>2. Fits(d, 16, G, P, M) => DOMAIN d = Fields
    BY DEF Fits, Is
  <2>3. DOMAIN d = Fields => [d EXCEPT !.roles = roles, !.partners = {p \in @ : p.id # WpgId}] = next
    BY DEF Fields
  <2>. HIDE DEF free, partners, roles
  <2>4. Fits(d, 16, G, P, M) => Fits(Run(d, free, "data", next), 16, G, P, M)
    BY <1>2
  <2>. HIDE DEF next
  <2>. QED
    BY <2>1, <2>2, <2>3, <2>4
<1>. QED
  BY <1>1, <1>3, <1>4

\* A reference of the same tables to the same parent, under another name: 0019.
LEMMA SameParentIs ==
    ASSUME NEW d, NEW e, NEW T, NEW L, NEW N, NEW G, NEW P, NEW M, Is(d, References(e, T), L, N, G, P, M),
           NEW table \in T, NEW parent \in T, parent \in Parents(e, table),
           NEW old, NEW new, <<table, old>> \in N, <<table, new>> \notin N,
           NEW freed, freed = RemoveReference(d, {table}, old, parent)
    PROVE  /\ DOMAIN freed = Fields /\ Fit(freed)
           /\ Is(AddReference(freed, {table}, new, parent), References(e, T), L,
                 (N \ {<<table, old>>}) \cup {<<table, new>>}, G, P, M)
<1>. DEFINE R == References(e, T)
            S == [t \in T |-> IF t \in {table} THEN Parents(e, t) \ {parent} ELSE Parents(e, t)]
<1>1. /\ DOMAIN R = T /\ DOMAIN S = T
      /\ [t \in DOMAIN R |-> IF t \in {table} THEN R[t] \ {parent} ELSE R[t]] = S
      /\ [t \in DOMAIN S |-> IF t \in {table} THEN S[t] \cup {parent} ELSE S[t]] = R
  BY DEF References
<1>2. {table} \X {old} = {<<table, old>>} /\ {table} \X {new} = {<<table, new>>}
  OBVIOUS
<1>. HIDE DEF R, S
<1>3. Is(d, R, L, N, G, P, M)
  BY DEF R
<1>4. Is(RemoveReference(d, {table}, old, parent), S, L, N \ {<<table, old>>}, G, P, M)
  <2>1. {table} \X {old} \subseteq N
    BY <1>2
  <2>. QED
    BY <1>1, <1>2, <1>3, <2>1, RemoveReferenceIs
<1>5. Is(freed, S, L, N \ {<<table, old>>}, G, P, M)
  BY <1>4
<1>6. Is(AddReference(freed, {table}, new, parent), R, L, (N \ {<<table, old>>}) \cup ({table} \X {new}), G, P, M)
  <2>1. {table} \subseteq DOMAIN S /\ parent \in DOMAIN S
    BY <1>1
  <2>2. ({table} \X {new}) \cap (N \ {<<table, old>>}) = {}
    BY <1>2
  <2>3. Is(AddReference(freed, {table}, new, parent),
           [t \in DOMAIN S |-> IF t \in {table} THEN S[t] \cup {parent} ELSE S[t]],
           L, (N \ {<<table, old>>}) \cup ({table} \X {new}), G, P, M)
    BY <1>5, <2>1, <2>2, AddReferenceIs
  <2>. QED
    BY <1>1, <2>3
<1>. QED
  BY <1>2, <1>5, <1>6 DEF R, Is

\* 0019, forth and back.
LEMMA Schema19 ==
    ASSUME NEW d, NEW G, NEW P, NEW M
    PROVE  /\ Fits(d, 18, G, P, M) => Fits(Up0019(d), 19, G, P, M)
           /\ Fits(d, 19, G, P, M) => Fits(Down0019(d), 18, G, P, M)
<1>. DEFINE T == Tables(18)
            R == References(18, T)
            L == Secured \cap T
            named == Objects(18) \ {<<PoTable, "fk_customer_pos_edi_message">>}
<1>1. Tables(19) = T /\ References(19, Tables(19)) = R
  BY Steady
<1>2. PoTable \in T /\ "edi_messages" \in T
  BY DEF Tables, AllTables, Since, IamTables, Assignments, PartnerTables, TokenTables, AuditTables, PoTables,
         PoTable,
         SupplierTables, ProductTables, EdiTables
<1>3. "edi_messages" \in Parents(18, PoTable)
  BY DEF Parents, Refers, AllTables, EdiTables
<1>4. /\ <<PoTable, "fk_customer_pos_edi_message">> \in Objects(18)
      /\ <<PoTable, "fk_customer_pos_tenant_edi_message">> \notin Objects(18)
      /\ <<PoTable, "fk_customer_pos_edi_message">> \notin Objects(19)
      /\ Objects(19) = named \cup {<<PoTable, "fk_customer_pos_tenant_edi_message">>}
  BY DEF Objects, PoTable, Assignments, PartnerIndexes, TokenIndexes, Timestamps, DateIndexes
<1>5. Objects(18) = (Objects(19) \ {<<PoTable, "fk_customer_pos_tenant_edi_message">>})
                      \cup {<<PoTable, "fk_customer_pos_edi_message">>}
  BY <1>4
<1>. HIDE DEF T
<1>6. ASSUME Fits(d, 18, G, P, M) PROVE Fits(Up0019(d), 19, G, P, M)
  <2>. DEFINE freed == RemoveReference(d, {PoTable}, "fk_customer_pos_edi_message", "edi_messages")
              linked == AddReference(freed, {PoTable}, "fk_customer_pos_tenant_edi_message", "edi_messages")
  <2>1. Is(d, References(18, T), L, Objects(18), G, P, M)
    BY <1>6 DEF Fits, T
  <2>2. freed = RemoveReference(d, {PoTable}, "fk_customer_pos_edi_message", "edi_messages")
    OBVIOUS
  <2>. HIDE DEF freed, L
  <2>3. DOMAIN freed = Fields /\ Fit(freed) /\ Is(linked, R, L, Objects(19), G, P, M)
    BY <1>2, <1>3, <1>4, <2>1, <2>2, SameParentIs
  <2>. HIDE DEF linked, R
  <2>4. Is(Run(freed, LinksStayInTenant(d), "data", linked), R, L, Objects(19), G, P, M)
    BY <2>3, RunIs
  <2>. QED
    BY <1>1, <2>4 DEF Fits, Up0019, freed, linked, L
<1>7. ASSUME Fits(d, 19, G, P, M) PROVE Fits(Down0019(d), 18, G, P, M)
  <2>1. Is(d, References(18, T), L, Objects(19), G, P, M)
    BY <1>1, <1>7 DEF Fits
  <2>2. <<PoTable, "fk_customer_pos_tenant_edi_message">> \in Objects(19)
    BY <1>4
  <2>. DEFINE freed == RemoveReference(d, {PoTable}, "fk_customer_pos_tenant_edi_message", "edi_messages")
              linked == AddReference(freed, {PoTable}, "fk_customer_pos_edi_message", "edi_messages")
  <2>3. freed = RemoveReference(d, {PoTable}, "fk_customer_pos_tenant_edi_message", "edi_messages")
    OBVIOUS
  <2>. HIDE DEF freed, L
  <2>4. Is(linked, R, L, (Objects(19) \ {<<PoTable, "fk_customer_pos_tenant_edi_message">>})
                           \cup {<<PoTable, "fk_customer_pos_edi_message">>}, G, P, M)
    BY <1>2, <1>3, <1>4, <2>1, <2>2, <2>3, SameParentIs
  <2>. HIDE DEF linked, R
  <2>. QED
    BY <1>5, <2>4 DEF Fits, Down0019, freed, linked, R, L, T
<1>. QED
  BY <1>6, <1>7

\* 0018 links the orders to the messages.
LEMMA LinkOfOrders ==
    ASSUME NEW T, PoTable \in T
    PROVE  /\ [t \in T |-> IF t \in {PoTable} THEN References(17, T)[t] \cup {"edi_messages"}
                           ELSE References(17, T)[t]] = References(18, T)
           /\ [t \in T |-> IF t \in {PoTable} THEN References(18, T)[t] \ {"edi_messages"}
                           ELSE References(18, T)[t]] = References(17, T)
<1>1. /\ Parents(18, PoTable) = Parents(17, PoTable) \cup {"edi_messages"}
      /\ Parents(17, PoTable) = Parents(18, PoTable) \ {"edi_messages"}
  BY DEF Parents, Refers, AllTables, EdiTables, PoTable
<1>2. ASSUME NEW t, t # PoTable PROVE Parents(18, t) = Parents(17, t)
  BY <1>2 DEF Parents, Refers
<1>. QED
  BY <1>1, <1>2 DEF References

\* 0018, forth and back: the columns are renamed, the index and the reference made again.
LEMMA Schema18 ==
    ASSUME NEW d, NEW G, NEW P, NEW M
    PROVE  /\ Fits(d, 17, G, P, M) =>
                Fits(Up0018(d), 18, G \cup Given(18), P \cup {"edi_messages"},
                     M \cup ({"admin"} \X {"edi_messages"}))
           /\ Fits(d, 18, G, P, M) =>
                Fits(Down0018(d), 17, Without(G, Created(18)), P \ {"edi_messages"},
                     {m \in M : m[2] \notin {"edi_messages"}})
<1>. DEFINE T == Tables(18)
            Q == References(17, T)
            R == References(18, T)
            K == Secured \cap Tables(17)
            L == Secured \cap T
            status == "customer_po_status_events"
            A == {PoTable} \X {"ix_customer_pos_edi_log_id"}
            B == {PoTable} \X {"ix_customer_pos_edi_message_id"}
            C == {PoTable} \X {"fk_customer_pos_edi_message"}
            made == <<Keyed("edi_messages", {}), Composite("edi_message_events", {"edi_messages"})>>
            away == <<"edi_message_events", "edi_messages">>
<1>1. T = Tables(17) \cup Created(18) /\ T \ Created(18) = Tables(17) /\ Created(18) = EdiTables
  <2>1. 18 \in 1..19 /\ 18 - 1 = 17 /\ Gone(18) = {}
    BY DEF Gone
  <2>2. /\ Tables(18) = (Tables(17) \ Gone(18)) \cup Created(18)
        /\ Tables(17) = (Tables(18) \ Created(18)) \cup Gone(18)
    BY <2>1, TablesGrow
  <2>. QED
    BY <2>1, <2>2, CreatedAre
<1>2. PoTable \in T /\ status \in T /\ {"edi_messages", "edi_message_events"} \subseteq T
  BY DEF Tables, AllTables, Since, IamTables, Assignments, PartnerTables, TokenTables, AuditTables, PoTables,
         PoTable,
         SupplierTables, ProductTables, EdiTables
<1>3. DOMAIN Q = T /\ DOMAIN R = T
  BY DEF References
<1>4. /\ Creatable(17, Tables(17), made) /\ NamesOf(made) = EdiTables
      /\ Droppable(17, T, away) /\ Range(away) = EdiTables
  BY <1>1, Made18
<1>5. /\ [t \in T |-> IF t \in {PoTable} THEN Q[t] \cup {"edi_messages"} ELSE Q[t]] = R
      /\ [t \in T |-> IF t \in {PoTable} THEN R[t] \ {"edi_messages"} ELSE R[t]] = Q
  BY <1>2, LinkOfOrders
<1>6. EdiTables \subseteq WithKey /\ K \cup EdiTables = L /\ L \ EdiTables = K
  <2>1. EdiTables \subseteq Secured /\ EdiTables \subseteq WithKey
    BY DEF Secured, WithKey, WithTenant, EdiTables
  <2>. QED
    BY <1>1, <2>1
<1>7. EdiTables \subseteq T
  BY <1>1
<1>. HIDE DEF T, Q, R, L, K, A, B, C, made, away
<1>8. ASSUME Fits(d, 17, G, P, M)
      PROVE  Fits(Up0018(d), 18, G \cup Given(18), P \cup {"edi_messages"}, M \cup ({"admin"} \X {"edi_messages"}))
  <2>. DEFINE tables == Create(d, made)
              imported == ImportMessages(tables)
              freed == DropObjects(imported, {PoTable}, {"ix_customer_pos_edi_log_id"})
              first == Rename(freed, PoTable, "edi_log_id", "edi_message_id")
              named == Rename(first, status, "edi_log_id", "edi_message_id")
              index == AddObjects(named, {PoTable}, {"ix_customer_pos_edi_message_id"})
              linked == AddReference(index, {PoTable}, "fk_customer_pos_edi_message", "edi_messages")
              guard == EnableRls(linked, EdiTables)
              write == Grant(guard, Write3, {"edi_messages"})
              append == Grant(write, Append2, {"edi_message_events"})
              last == Seed(append, {"edi_messages"})
              N1 == Objects(17) \ A
              N2 == (N1 \ {<<PoTable, "edi_log_id">>}) \cup {<<PoTable, "edi_message_id">>}
              N3 == (N2 \ {<<status, "edi_log_id">>}) \cup {<<status, "edi_message_id">>}
              H == (G \cup ({"edi_messages"} \X Write3)) \cup ({"edi_message_events"} \X Append2)
  <2>0. /\ A \subseteq Objects(17) /\ <<PoTable, "edi_log_id">> \in N1 /\ <<PoTable, "edi_message_id">> \notin N1
        /\ <<status, "edi_log_id">> \in N2 /\ <<status, "edi_message_id">> \notin N2
        /\ B \cap N3 = {} /\ C \cap (N3 \cup B) = {} /\ (N3 \cup B) \cup C = Objects(18)
    BY DEF A, B, C, Objects, PoTable, Assignments, PartnerIndexes, TokenIndexes, Timestamps, DateIndexes
  <2>1. Is(tables, Q, K, Objects(17), G, P, M)
    BY <1>1, <1>4, <1>8, CreateIs DEF Fits, Q, K
  <2>. HIDE DEF tables
  <2>2. Is(imported, Q, K, Objects(17), G, P, M)
    <3>. DEFINE next == [tables EXCEPT !.messages = LegacyMessages(tables.orders)]
                condition == OneMessagePerExternalId(LegacyMessages(tables.orders))
    <3>1. SameSchema(tables, next)
      BY <2>1 DEF Is, SameSchema, Fields
    <3>. HIDE DEF next, condition
    <3>2. Is(Run(tables, condition, "data", next), Q, K, Objects(17), G, P, M)
      BY <2>1, <3>1, RowsIs
    <3>. QED
      BY <3>2 DEF ImportMessages, next, condition
  <2>. HIDE DEF imported
  <2>3. Is(freed, Q, K, N1, G, P, M)
    BY <2>0, <2>2, DropObjectsIs DEF A
  <2>. HIDE DEF freed, N1
  <2>4. Is(first, Q, K, N2, G, P, M)
    BY <1>2, <1>3, <2>0, <2>3, RenameIs
  <2>. HIDE DEF first, N2
  <2>5. Is(named, Q, K, N3, G, P, M)
    BY <1>2, <1>3, <2>0, <2>4, RenameIs
  <2>. HIDE DEF named, N3
  <2>6. Is(index, Q, K, N3 \cup B, G, P, M)
    BY <1>2, <1>3, <2>0, <2>5, AddObjectsIs DEF B
  <2>. HIDE DEF index
  <2>7. Is(linked, R, K, Objects(18), G, P, M)
    <3>1. {PoTable} \subseteq DOMAIN Q /\ "edi_messages" \in DOMAIN Q
      BY <1>2, <1>3
    <3>2. C = {PoTable} \X {"fk_customer_pos_edi_message"}
      BY DEF C
    <3>3. Is(linked, [t \in DOMAIN Q |-> IF t \in {PoTable} THEN Q[t] \cup {"edi_messages"} ELSE Q[t]],
             K, (N3 \cup B) \cup C, G, P, M)
      BY <2>0, <2>6, <3>1, <3>2, AddReferenceIs
    <3>. QED
      BY <1>3, <1>5, <2>0, <3>3
  <2>. HIDE DEF linked
  <2>8. Is(guard, R, L, Objects(18), G, P, M)
    BY <1>3, <1>6, <1>7, <2>7, EnableRlsIs
  <2>. HIDE DEF guard
  <2>9. Is(write, R, L, Objects(18), G \cup ({"edi_messages"} \X Write3), P, M)
    BY <1>2, <1>3, <2>8, GrantIs
  <2>. HIDE DEF write
  <2>10. Is(append, R, L, Objects(18), H, P, M)
    BY <1>2, <1>3, <2>9, GrantIs
  <2>11. H = G \cup Given(18)
    BY GivenAre
  <2>. HIDE DEF append, H
  <2>12. Is(last, R, L, Objects(18), H, P \cup {"edi_messages"}, M \cup ({"admin"} \X {"edi_messages"}))
    BY <2>10, SeedIs
  <2>13. Up0018(d) = last
    BY Zenon DEF Up0018, last, append, write, guard, linked, index, named, first, freed, imported, tables, made
  <2>. QED
    BY <2>11, <2>12, <2>13 DEF Fits, R, L, T
<1>9. ASSUME Fits(d, 18, G, P, M)
      PROVE  Fits(Down0018(d), 17, Without(G, Created(18)), P \ {"edi_messages"},
                  {m \in M : m[2] \notin {"edi_messages"}})
  <2>. DEFINE left == Unseed(d, {"edi_messages"})
              freed == RemoveReference(left, {PoTable}, "fk_customer_pos_edi_message", "edi_messages")
              index == DropObjects(freed, {PoTable}, {"ix_customer_pos_edi_message_id"})
              first == Rename(index, status, "edi_message_id", "edi_log_id")
              named == Rename(first, PoTable, "edi_message_id", "edi_log_id")
              back == AddObjects(named, {PoTable}, {"ix_customer_pos_edi_log_id"})
              gone == Drop(back, away)
              last == [gone EXCEPT !.messages = {}]
              N1 == (Objects(18) \ C) \ B
              N2 == (N1 \ {<<status, "edi_message_id">>}) \cup {<<status, "edi_log_id">>}
              N3 == (N2 \ {<<PoTable, "edi_message_id">>}) \cup {<<PoTable, "edi_log_id">>}
              perms == P \ {"edi_messages"}
              maps == {m \in M : m[2] \notin {"edi_messages"}}
  <2>0. /\ C \subseteq Objects(18) /\ B \subseteq Objects(18) \ C
        /\ <<status, "edi_message_id">> \in N1 /\ <<status, "edi_log_id">> \notin N1
        /\ <<PoTable, "edi_message_id">> \in N2 /\ <<PoTable, "edi_log_id">> \notin N2
        /\ A \cap N3 = {} /\ N3 \cup A = Objects(17)
        /\ {n \in Objects(17) : n[1] \notin EdiTables} = Objects(17)
    BY DEF A, B, C, Objects, PoTable, Assignments, PartnerIndexes, TokenIndexes, Timestamps, DateIndexes, EdiTables
  <2>1. Is(left, R, L, Objects(18), G, perms, maps)
    BY <1>9, UnseedIs DEF Fits, R, L, T
  <2>. HIDE DEF left, perms, maps
  <2>2. Is(freed, Q, L, Objects(18) \ C, G, perms, maps)
    <3>1. C = {PoTable} \X {"fk_customer_pos_edi_message"}
      BY DEF C
    <3>2. Is(freed, [t \in DOMAIN R |-> IF t \in {PoTable} THEN R[t] \ {"edi_messages"} ELSE R[t]],
             L, Objects(18) \ C, G, perms, maps)
      BY <2>0, <2>1, <3>1, RemoveReferenceIs
    <3>. QED
      BY <1>3, <1>5, <3>2
  <2>. HIDE DEF freed
  <2>3. Is(index, Q, L, N1, G, perms, maps)
    BY <2>0, <2>2, DropObjectsIs DEF B
  <2>. HIDE DEF index, N1
  <2>4. Is(first, Q, L, N2, G, perms, maps)
    BY <1>2, <1>3, <2>0, <2>3, RenameIs
  <2>. HIDE DEF first, N2
  <2>5. Is(named, Q, L, N3, G, perms, maps)
    BY <1>2, <1>3, <2>0, <2>4, RenameIs
  <2>. HIDE DEF named, N3
  <2>6. Is(back, Q, L, Objects(17), G, perms, maps)
    BY <1>2, <1>3, <2>0, <2>5, AddObjectsIs DEF A
  <2>. HIDE DEF back
  <2>7. Is(gone, References(17, Tables(17)), K, Objects(17), Without(G, Created(18)), perms, maps)
    <3>1. Is(gone, References(17, T \ EdiTables), L \ EdiTables, {n \in Objects(17) : n[1] \notin EdiTables},
             {g \in G : g[1] \notin EdiTables}, perms, maps)
      BY <1>4, <2>6, DropIs DEF Q
    <3>. QED
      BY <1>1, <1>6, <2>0, <3>1 DEF Without
  <2>. HIDE DEF gone
  <2>8. SameSchema(gone, last)
    BY <2>7 DEF Is, SameSchema, Fields
  <2>. HIDE DEF last
  <2>9. Is(Run(gone, TRUE, "", last), References(17, Tables(17)), K, Objects(17), Without(G, Created(18)), perms,
           maps)
    BY <2>7, <2>8, RowsIs
  <2>10. Down0018(d) = Run(gone, TRUE, "", last)
    BY Zenon DEF Down0018, last, gone, back, named, first, index, freed, left, away
  <2>. QED
    BY <2>9, <2>10 DEF Fits, K, perms, maps
<1>. QED
  BY <1>8, <1>9

-----------------------------------------------------------------------------
\* 0002: customers become partners.

\* The assignments of a customer turn to another table.
LEMMA RepointIs ==
    ASSUME NEW d, NEW e, NEW f, NEW T, NEW L, NEW N, NEW G, NEW P, NEW M, Is(d, References(e, T), L, N, G, P, M),
           NEW old, NEW new \in T, Assignments \subseteq T, Assignments \X {"customer_id_fkey"} \subseteq N,
           \A t \in T : Parents(f, t) = IF t \in Assignments THEN (Parents(e, t) \ {old}) \cup {new}
                                        ELSE Parents(e, t)
    PROVE  Is(Repoint(d, old, new), References(f, T), L, N, G, P, M)
<1>. DEFINE keys == Assignments \X {"customer_id_fkey"}
            R == References(e, T)
            S == [t \in T |-> IF t \in Assignments THEN Parents(e, t) \ {old} ELSE Parents(e, t)]
            freed == RemoveReference(d, Assignments, "customer_id_fkey", old)
<1>1. /\ DOMAIN R = T /\ DOMAIN S = T
      /\ [t \in DOMAIN R |-> IF t \in Assignments THEN R[t] \ {old} ELSE R[t]] = S
      /\ [t \in DOMAIN S |-> IF t \in Assignments THEN S[t] \cup {new} ELSE S[t]] = References(f, T)
  BY DEF References
<1>2. keys \cap (N \ keys) = {} /\ (N \ keys) \cup keys = N
  OBVIOUS
<1>. HIDE DEF R, S
<1>3. Is(freed, S, L, N \ keys, G, P, M)
  BY <1>1, RemoveReferenceIs DEF R
<1>. HIDE DEF freed
<1>4. Is(AddReference(freed, Assignments, "customer_id_fkey", new), References(f, T), L, (N \ keys) \cup keys, G,
         P, M)
  BY <1>1, <1>2, <1>3, AddReferenceIs
<1>. QED
  BY <1>2, <1>4 DEF Repoint, freed

\* What 0002 turns, and its downgrade turns back.
LEMMA Turned ==
    /\ \A t : Parents(2, t) = IF t \in Assignments THEN (Parents(1, t) \ {"customers"}) \cup {"business_partners"}
                              ELSE Parents(1, t)
    /\ \A t : Parents(1, t) = IF t \in Assignments THEN (Parents(2, t) \ {"business_partners"}) \cup {"customers"}
                              ELSE Parents(2, t)
<1>1. ASSUME NEW t \in Assignments
      PROVE  /\ Parents(2, t) = (Parents(1, t) \ {"customers"}) \cup {"business_partners"}
             /\ Parents(1, t) = (Parents(2, t) \ {"business_partners"}) \cup {"customers"}
  BY DEF Parents, Refers, Assignments, SupplierTables, AllTables, PartnerTables, PoTable
<1>2. ASSUME NEW t, t \notin Assignments PROVE Parents(2, t) = Parents(1, t)
  BY <1>2 DEF Parents, Refers
<1>. QED
  BY <1>1, <1>2

\* What 0002 makes of the tables, and of the objects.
LEMMA Tables2 ==
    /\ Tables(1) \cap PartnerTables = {} /\ "customers" \in Tables(1) /\ "customers" \notin Tables(2)
    /\ Tables(2) = (Tables(1) \cup PartnerTables) \ {"customers"}
    /\ Tables(1) = (Tables(2) \cup {"customers"}) \ PartnerTables
    /\ Assignments \subseteq Tables(1) /\ Assignments \subseteq Tables(2) /\ PartnerTables \subseteq Tables(2)
    /\ {"profiles", "tenants"} \subseteq Tables(2)
    /\ Secured \cap Tables(1) = {} /\ Secured \cap Tables(2) = PartnerTables
    /\ Tables(1) = IamTables \cup Assignments \cup {"customers"}
BY DEF Tables, AllTables, Since, IamTables, Assignments, PartnerTables, TokenTables, AuditTables, PoTables, PoTable,
       SupplierTables, ProductTables, EdiTables, Secured

LEMMA Objects2 ==
    /\ Assignments \X {"customer_id_fkey"} \subseteq Objects(1)
    /\ Assignments \X {"customer_id_fkey"} \subseteq Objects(2)
    /\ ({"business_partners"} \X PartnerIndexes) \cap Objects(1) = {}
    /\ ({"customers"} \X CustomerIndexes) \cap Objects(2) = {}
    /\ {"business_partners"} \X PartnerIndexes \subseteq Objects(2)
    /\ {"customers"} \X CustomerIndexes \subseteq Objects(1)
    /\ Objects(2) = (Objects(1) \cup ({"business_partners"} \X PartnerIndexes)) \ ({"customers"} \X CustomerIndexes)
    /\ Objects(1) = (Objects(2) \cup ({"customers"} \X CustomerIndexes)) \ ({"business_partners"} \X PartnerIndexes)
    /\ {n \in Objects(2) : n[1] \notin {"customers"}} = Objects(2)
    /\ \A n \in Objects(1) : n[1] \notin PartnerTables
BY DEF Objects, CustomerIndexes, Assignments, PartnerIndexes, PartnerTables

\* The downgrade of 0002 drops a table after what refers to it.
LEMMA Dropped2 ==
    LET T == Tables(1) \cup PartnerTables
        U == T \ {"partner_addresses", "partner_roles"}
    IN  /\ Droppable(2, T, <<"customers">>) /\ Range(<<"customers">>) = {"customers"}
        /\ Droppable(1, T, <<"partner_addresses", "partner_roles">>)
        /\ Range(<<"partner_addresses", "partner_roles">>) = {"partner_addresses", "partner_roles"}
        /\ Droppable(1, U, <<"business_partners", "payment_terms">>)
        /\ Range(<<"business_partners", "payment_terms">>) = {"business_partners", "payment_terms"}
<1>. DEFINE T == Tables(1) \cup PartnerTables
            U == T \ {"partner_addresses", "partner_roles"}
            table == <<"customers">>
            roles == <<"partner_addresses", "partner_roles">>
            partners == <<"business_partners", "payment_terms">>
<1>1. /\ DOMAIN table = 1..1 /\ Len(table) = 1 /\ table[1] = "customers"
      /\ DOMAIN roles = 1..2 /\ Len(roles) = 2 /\ roles[1] = "partner_addresses" /\ roles[2] = "partner_roles"
      /\ DOMAIN partners = 1..2 /\ Len(partners) = 2
      /\ partners[1] = "business_partners" /\ partners[2] = "payment_terms"
  OBVIOUS
<1>2. /\ Range(table) = {"customers"} /\ Range(roles) = {"partner_addresses", "partner_roles"}
      /\ Range(partners) = {"business_partners", "payment_terms"}
  BY <1>1 DEF Range
<1>3. \A t : "customers" \notin Parents(2, t)
  BY DEF Parents, Refers, PoTable
<1>4. \A t : "partner_addresses" \notin Parents(1, t) /\ "partner_roles" \notin Parents(1, t)
  BY DEF Parents, Refers, PoTable
<1>5. \A t \in U : /\ "business_partners" \notin Parents(1, t)
                   /\ "payment_terms" \in Parents(1, t) => t = "business_partners"
  BY Tables2 DEF Parents, Refers, SupplierTables, PoTable, IamTables, Assignments, PartnerTables
<1>6. /\ "customers" \in T /\ {"partner_addresses", "partner_roles"} \subseteq T
      /\ {"business_partners", "payment_terms"} \subseteq U
  BY Tables2 DEF PartnerTables
<1>. HIDE DEF table, roles, partners, T, U
<1>7. /\ Droppable(2, T, table) /\ Droppable(1, T, roles) /\ Droppable(1, U, partners)
  BY <1>1, <1>3, <1>4, <1>5, <1>6 DEF Droppable
<1>. QED
  BY <1>2, <1>7 DEF table, roles, partners, T, U

\* 0002, forth.
LEMMA Upgrade2Fits ==
    ASSUME NEW d, NEW G, NEW P, NEW M, Fits(d, 1, G, P, M)
    PROVE  Fits(Up0002(d), 2, Without(G, {"customers"}) \cup Given(2), P, M)
<1>. DEFINE T == Tables(1) \cup PartnerTables
            index == {"ix_customers_tenant_status", "ix_customers_tenant_owner"}
            secured == {"business_partners", "partner_roles", "partner_addresses", "payment_terms"}
            written == {"business_partners", "partner_roles", "partner_addresses"}
            created == Create(d, PartnerTables0002)
            tables == AddObjects(created, {"business_partners"}, PartnerIndexes)
            carried == MoveCustomers(tables)
            moved == Repoint(carried, "customers", "business_partners")
            freed == DropObjects(moved, {"customers"}, index)
            dropped == Drop(freed, <<"customers">>)
            guard == EnableRls(dropped, secured)
            write == Grant(guard, Write3, written)
            last == Grant(write, ReadOnly, {"payment_terms"})
            N == Objects(1) \cup ({"business_partners"} \X PartnerIndexes)
            H == Without(G, {"customers"})
<1>1. /\ index = CustomerIndexes /\ secured = PartnerTables /\ {"business_partners"} \subseteq T
      /\ written \subseteq Tables(2) /\ {"payment_terms"} \subseteq Tables(2)
  BY Tables2 DEF CustomerIndexes, PartnerTables
<1>2. \A e, U : DOMAIN References(e, U) = U
  BY DEF References
<1>3. Is(created, References(1, T), {}, Objects(1), G, P, M)
  <2>1. Is(d, References(1, Tables(1)), {}, Objects(1), G, P, M)
    BY Tables2 DEF Fits
  <2>. QED
    BY <2>1, Made2, CreateIs
<1>. HIDE DEF created
<1>4. Is(tables, References(1, T), {}, N, G, P, M)
  BY <1>1, <1>2, <1>3, Objects2, AddObjectsIs
<1>. HIDE DEF tables
<1>5. Is(carried, References(1, T), {}, N, G, P, M)
  <2>. DEFINE next == [tables EXCEPT !.partners = {Partner(c) : c \in tables.customers},
                                     !.roles = {Role(c.id, "CUSTOMER", c.gone, FALSE) : c \in tables.customers},
                                     !.customers = {}]
              condition == Convertible(tables.customers)
  <2>1. SameSchema(tables, next)
    BY <1>4 DEF Is, SameSchema, Fields
  <2>. HIDE DEF next, condition
  <2>2. Is(Run(tables, condition, "data", next), References(1, T), {}, N, G, P, M)
    BY <1>4, <2>1, RowsIs
  <2>. QED
    BY <2>2 DEF MoveCustomers, next, condition
<1>. HIDE DEF carried
<1>6. Is(moved, References(2, T), {}, N, G, P, M)
  <2>1. /\ "business_partners" \in T /\ Assignments \subseteq T
        /\ Assignments \X {"customer_id_fkey"} \subseteq N
    BY <1>1, Tables2, Objects2
  <2>2. \A t \in T : Parents(2, t) =
          IF t \in Assignments THEN (Parents(1, t) \ {"customers"}) \cup {"business_partners"}
          ELSE Parents(1, t)
    BY Turned
  <2>. HIDE DEF T, N
  <2>. QED
    BY <1>5, <2>1, <2>2, RepointIs
<1>. HIDE DEF moved
<1>7. Is(freed, References(2, T), {}, Objects(2), G, P, M)
  <2>1. {"customers"} \X index \subseteq N /\ N \ ({"customers"} \X index) = Objects(2)
    BY <1>1, Objects2
  <2>. HIDE DEF N, index
  <2>. QED
    BY <1>6, <2>1, DropObjectsIs
<1>. HIDE DEF freed
<1>8. Is(dropped, References(2, Tables(2)), {}, Objects(2), H, P, M)
  <2>1. Is(dropped, References(2, T \ {"customers"}), {} \ {"customers"},
           {n \in Objects(2) : n[1] \notin {"customers"}},
           {g \in G : g[1] \notin {"customers"}}, P, M)
    BY <1>7, Dropped2, DropIs
  <2>2. /\ T \ {"customers"} = Tables(2) /\ {} \ {"customers"} = {}
        /\ {n \in Objects(2) : n[1] \notin {"customers"}} = Objects(2)
    BY Tables2, Objects2
  <2>3. {g \in G : g[1] \notin {"customers"}} = H
    BY DEF Without
  <2>. HIDE DEF T, H
  <2>. QED
    BY <2>1, <2>2, <2>3
<1>. HIDE DEF dropped, H
<1>9. Is(guard, References(2, Tables(2)), PartnerTables, Objects(2), H, P, M)
  <2>1. secured \subseteq (WithKey \cap DOMAIN References(2, Tables(2))) \cup {"audit_changes"}
    BY <1>1, <1>2, Tables2 DEF PartnerTables, WithKey, WithTenant
  <2>2. {} \cup secured = PartnerTables
    BY <1>1
  <2>. HIDE DEF secured
  <2>. QED
    BY <1>8, <2>1, <2>2, EnableRlsIs
<1>. HIDE DEF guard
<1>10. Is(write, References(2, Tables(2)), PartnerTables, Objects(2), H \cup (written \X Write3), P, M)
  BY <1>1, <1>9, GrantFits
<1>. HIDE DEF write
<1>11. Is(last, References(2, Tables(2)), PartnerTables, Objects(2),
          (H \cup (written \X Write3)) \cup ({"payment_terms"} \X ReadOnly), P, M)
  BY <1>1, <1>10, GrantFits
<1>12. (H \cup (written \X Write3)) \cup ({"payment_terms"} \X ReadOnly) = H \cup Given(2)
  BY GivenAre
<1>13. Up0002(d) = last
  BY Zenon DEF Up0002, last, write, guard, dropped, freed, moved, carried, tables, created, index, secured, written
<1>. QED
  BY <1>11, <1>12, <1>13, Tables2 DEF Fits, H

\* The downgrade of 0002 makes the customers again.
LEMMA MadeCustomers ==
    LET made == << Keyed("customers", {"profiles"}) >>
    IN  Creatable(2, Tables(2), made) /\ NamesOf(made) = {"customers"}
<1>. DEFINE made == << Keyed("customers", {"profiles"}) >>
<1>1. /\ DOMAIN made = 1..1 /\ Len(made) = 1
      /\ made[1] = [name |-> "customers", refs |-> {"profiles", "tenants"}, keyed |-> TRUE]
  BY DEF Keyed
<1>2. "customers" \in WithKey
  BY DEF WithKey, WithTenant
<1>. HIDE DEF made
<1>3. NamesOf(made) = {"customers"}
  BY <1>1 DEF NamesOf
<1>4. Creatable(2, Tables(2), made)
  BY <1>1, <1>2, Tables2, ParentsAre DEF Creatable
<1>. QED
  BY <1>3, <1>4 DEF made

\* 0002, back.
LEMMA Downgrade2Fits ==
    ASSUME NEW d, NEW G, NEW P, NEW M, Fits(d, 2, G, P, M)
    PROVE  Fits(Down0002(d), 1, Without(G, PartnerTables), P, M)
<1>. DEFINE T == Tables(1) \cup PartnerTables
            U == T \ {"partner_addresses", "partner_roles"}
            created == Create(d, << Keyed("customers", {"profiles"}) >>)
            restored == RestoreCustomers(created)
            index == AddObjects(restored, {"customers"},
                                {"ix_customers_tenant_owner", "ix_customers_tenant_status"})
            keys == Repoint(index, "business_partners", "customers")
            roles == Drop(keys, <<"partner_addresses", "partner_roles">>)
            freed == DropObjects(roles, {"business_partners"}, PartnerIndexes)
            last == Drop(freed, <<"business_partners", "payment_terms">>)
            N == Objects(2) \cup ({"customers"} \X CustomerIndexes)
            L == PartnerTables \ {"partner_addresses", "partner_roles"}
            H == {g \in G : g[1] \notin {"partner_addresses", "partner_roles"}}
            I == {g \in H : g[1] \notin {"business_partners", "payment_terms"}}
<1>1. /\ CustomerIndexes = {"ix_customers_tenant_owner", "ix_customers_tenant_status"}
      /\ Tables(2) \cup {"customers"} = T /\ {"customers"} \subseteq T
  BY Tables2 DEF CustomerIndexes
<1>2. \A e, V : DOMAIN References(e, V) = V
  BY DEF References
<1>3. Is(created, References(2, T), PartnerTables, Objects(2), G, P, M)
  <2>1. Is(d, References(2, Tables(2)), PartnerTables, Objects(2), G, P, M)
    BY Tables2 DEF Fits
  <2>. DEFINE made == << Keyed("customers", {"profiles"}) >>
  <2>2. Creatable(2, Tables(2), made) /\ NamesOf(made) = {"customers"}
    BY MadeCustomers
  <2>. HIDE DEF made
  <2>3. Is(Create(d, made), References(2, T), PartnerTables, Objects(2), G, P, M)
    BY <1>1, <2>1, <2>2, CreateIs
  <2>. QED
    BY <2>3 DEF made
<1>. HIDE DEF created
<1>4. Is(restored, References(2, T), PartnerTables, Objects(2), G, P, M)
  <2>. DEFINE next == [created EXCEPT !.customers = CustomersOf(created.partners, created.roles),
                                      !.partners = {}, !.roles = {}]
  <2>1. SameSchema(created, next)
    BY <1>3 DEF Is, SameSchema, Fields
  <2>. HIDE DEF next
  <2>2. Is(Run(created, TRUE, "", next), References(2, T), PartnerTables, Objects(2), G, P, M)
    BY <1>3, <2>1, RowsIs
  <2>. QED
    BY <2>2 DEF RestoreCustomers, next
<1>. HIDE DEF restored
<1>5. Is(index, References(2, T), PartnerTables, N, G, P, M)
  BY <1>1, <1>2, <1>4, Objects2, AddObjectsIs
<1>. HIDE DEF index
<1>6. Is(keys, References(1, T), PartnerTables, N, G, P, M)
  <2>1. /\ "customers" \in T /\ Assignments \subseteq T
        /\ Assignments \X {"customer_id_fkey"} \subseteq N
    BY <1>1, Tables2, Objects2
  <2>2. \A t \in T : Parents(1, t) =
          IF t \in Assignments THEN (Parents(2, t) \ {"business_partners"}) \cup {"customers"}
          ELSE Parents(2, t)
    BY Turned
  <2>. HIDE DEF T, N
  <2>. QED
    BY <1>5, <2>1, <2>2, RepointIs
<1>. HIDE DEF keys
<1>7. Is(roles, References(1, U), L, N, H, P, M)
  <2>1. {n \in N : n[1] \notin {"partner_addresses", "partner_roles"}} = N
    BY DEF Objects, PoTable, Assignments, PartnerIndexes, CustomerIndexes
  <2>2. /\ Droppable(1, T, <<"partner_addresses", "partner_roles">>)
        /\ Range(<<"partner_addresses", "partner_roles">>) = {"partner_addresses", "partner_roles"}
    BY Dropped2
  <2>3. Is(roles, References(1, T \ {"partner_addresses", "partner_roles"}),
           PartnerTables \ {"partner_addresses", "partner_roles"},
           {n \in N : n[1] \notin {"partner_addresses", "partner_roles"}}, H, P, M)
    BY <1>6, <2>2, DropIs
  <2>. QED
    BY <2>1, <2>3
<1>. HIDE DEF roles
<1>8. Is(freed, References(1, U), L, Objects(1), H, P, M)
  <2>1. /\ {"business_partners"} \X PartnerIndexes \subseteq N
        /\ N \ ({"business_partners"} \X PartnerIndexes) = Objects(1)
    BY Objects2
  <2>. HIDE DEF N, L, U, H
  <2>. QED
    BY <1>7, <2>1, DropObjectsIs
<1>. HIDE DEF freed
<1>9. Is(last, References(1, Tables(1)), {}, Objects(1), I, P, M)
  <2>. DEFINE both == {"business_partners", "payment_terms"}
  <2>1. /\ Droppable(1, U, <<"business_partners", "payment_terms">>)
        /\ Range(<<"business_partners", "payment_terms">>) = both
    BY Dropped2
  <2>2. U \ both = Tables(1) /\ L \ both = {} /\ {n \in Objects(1) : n[1] \notin both} = Objects(1)
    BY Tables2, Objects2 DEF PartnerTables
  <2>. HIDE DEF both, U, L, H
  <2>3. Is(last, References(1, U \ both), L \ both, {n \in Objects(1) : n[1] \notin both},
           {g \in H : g[1] \notin both}, P, M)
    BY <1>8, <2>1, DropIs
  <2>. QED
    BY <2>2, <2>3 DEF both
<1>10. I = Without(G, PartnerTables)
  BY DEF Without, PartnerTables
<1>11. Down0002(d) = last
  BY Zenon DEF Down0002, last, freed, roles, keys, index, restored, created
<1>. QED
  BY <1>9, <1>10, <1>11, Tables2 DEF Fits

-----------------------------------------------------------------------------
\* 0001: everything at once.

\* The fifteen tables of 0001 and their order.
LEMMA IamTablesAre ==
    /\ DOMAIN IamTables0001 = 1..12 /\ Len(IamTables0001) = 12
    /\ IamTables0001[1] = [name |-> "tenants", refs |-> {}, keyed |-> FALSE]
    /\ IamTables0001[2] = [name |-> "roles", refs |-> {}, keyed |-> FALSE]
    /\ IamTables0001[3] = [name |-> "groups", refs |-> {"tenants"}, keyed |-> TRUE]
    /\ IamTables0001[4] = [name |-> "profiles", refs |-> {"roles", "tenants"}, keyed |-> TRUE]
    /\ IamTables0001[5] = [name |-> "user_groups", refs |-> {"profiles", "groups"}, keyed |-> FALSE]
    /\ IamTables0001[6] = [name |-> "permissions", refs |-> {}, keyed |-> FALSE]
    /\ IamTables0001[7] = [name |-> "policies", refs |-> {"tenants"}, keyed |-> TRUE]
    /\ IamTables0001[8] = [name |-> "policy_permissions", refs |-> {"policies", "permissions"}, keyed |-> FALSE]
    /\ IamTables0001[9] = [name |-> "role_policies", refs |-> {"roles", "policies"}, keyed |-> FALSE]
    /\ IamTables0001[10] = [name |-> "group_policies", refs |-> {"groups", "policies"}, keyed |-> FALSE]
    /\ IamTables0001[11] = [name |-> "user_policies", refs |-> {"profiles", "policies"}, keyed |-> FALSE]
    /\ IamTables0001[12] = [name |-> "audit_logs", refs |-> {"profiles", "tenants"}, keyed |-> TRUE]
BY DEF IamTables0001, Plain, Keyed

LEMMA CustomerTablesAre ==
    /\ DOMAIN CustomerTables0001 = 1..3 /\ Len(CustomerTables0001) = 3
    /\ CustomerTables0001[1] = [name |-> "customers", refs |-> {"profiles", "tenants"}, keyed |-> TRUE]
    /\ CustomerTables0001[2] = [name |-> "customer_user_assignments", refs |-> {"customers", "profiles"},
                                keyed |-> FALSE]
    /\ CustomerTables0001[3] = [name |-> "customer_group_assignments", refs |-> {"customers", "groups"},
                                keyed |-> FALSE]
BY DEF CustomerTables0001, Plain, Keyed

LEMMA FirstTablesAre ==
    LET made == IamTables0001 \o CustomerTables0001
    IN  /\ DOMAIN made = 1..15 /\ Len(made) = 15
        /\ \A k \in 1..12 : made[k] = IamTables0001[k]
        /\ made[13] = CustomerTables0001[1] /\ made[14] = CustomerTables0001[2] /\ made[15] = CustomerTables0001[3]
<1>. DEFINE S == { Plain("tenants", {}), Plain("roles", {}), Keyed("groups", {}), Keyed("profiles", {"roles"}),
                   Plain("user_groups", {"profiles", "groups"}), Plain("permissions", {}), Keyed("policies", {}),
                   Plain("policy_permissions", {"policies", "permissions"}),
                   Plain("role_policies", {"roles", "policies"}), Plain("group_policies", {"groups", "policies"}),
                   Plain("user_policies", {"profiles", "policies"}), Keyed("audit_logs", {"profiles"}),
                   Keyed("customers", {"profiles"}), Plain("customer_user_assignments", {"customers", "profiles"}),
                   Plain("customer_group_assignments", {"customers", "groups"}) }
            a == IamTables0001
            b == CustomerTables0001
<1>1. IamTables0001 \in Seq(S) /\ CustomerTables0001 \in Seq(S)
  BY DEF IamTables0001, CustomerTables0001
<1>2. a \in Seq(S) /\ b \in Seq(S) /\ Len(a) = 12 /\ Len(b) = 3
  BY <1>1, IamTablesAre, CustomerTablesAre
<1>. HIDE DEF S, a, b
<1>3. /\ a \o b \in Seq(S) /\ Len(a \o b) = Len(a) + Len(b)
      /\ \A i \in 1..(Len(a) + Len(b)) : (a \o b)[i] = IF i <= Len(a) THEN a[i] ELSE b[i - Len(a)]
  BY <1>2, ConcatProperties
<1>4. DOMAIN (a \o b) = 1..Len(a \o b)
  BY <1>3, LenProperties
<1>. DEFINE c == a \o b
<1>5. /\ Len(c) = 15 /\ DOMAIN c = 1..15
      /\ \A i \in 1..15 : c[i] = IF i <= 12 THEN a[i] ELSE b[i - 12]
  <2>1. Len(a) = 12 /\ Len(b) = 3 /\ Len(a) + Len(b) = 15
    BY <1>2
  <2>. DEFINE m == Len(a)
              n == Len(b)
              t == m + n
  <2>2. m = 12 /\ t = 15
    BY <2>1
  <2>3. Len(c) = t /\ DOMAIN c = 1..Len(c) /\ \A i \in 1..t : c[i] = IF i <= m THEN a[i] ELSE b[i - m]
    BY <1>3, <1>4
  <2>. HIDE DEF c, m, n, t
  <2>. QED
    BY <2>2, <2>3
<1>. HIDE DEF c
<1>6. (\A k \in 1..12 : c[k] = a[k]) /\ c[13] = b[1] /\ c[14] = b[2] /\ c[15] = b[3]
  BY <1>5
<1>. QED
  BY <1>5, <1>6 DEF a, b, c

\* Before 0001 there is nothing.
LEMMA Tables0 ==
    /\ Tables(0) = {} /\ Objects(0) = {} /\ WithKey \cap {} = {}
    /\ Tables(1) = IamTables \cup Assignments \cup {"customers"}
<1>1. \A t : Since(t) \in 1..18
  BY DEF Since
<1>2. Tables(0) = {}
  BY <1>1 DEF Tables
<1>3. Objects(0) = {}
  BY DEF Objects
<1>. QED
  BY <1>2, <1>3, Tables2

\* 0001 makes its tables in an order that finds their parents.
LEMMA Made1 ==
    LET made == IamTables0001 \o CustomerTables0001
    IN  Creatable(0, {}, made) /\ NamesOf(made) = Tables(1)
<1>. DEFINE made == IamTables0001 \o CustomerTables0001
<1>1. /\ DOMAIN made = 1..15 /\ Len(made) = 15
      /\ made[1] = [name |-> "tenants", refs |-> {}, keyed |-> FALSE]
      /\ made[2] = [name |-> "roles", refs |-> {}, keyed |-> FALSE]
      /\ made[3] = [name |-> "groups", refs |-> {"tenants"}, keyed |-> TRUE]
      /\ made[4] = [name |-> "profiles", refs |-> {"roles", "tenants"}, keyed |-> TRUE]
      /\ made[5] = [name |-> "user_groups", refs |-> {"profiles", "groups"}, keyed |-> FALSE]
      /\ made[6] = [name |-> "permissions", refs |-> {}, keyed |-> FALSE]
      /\ made[7] = [name |-> "policies", refs |-> {"tenants"}, keyed |-> TRUE]
      /\ made[8] = [name |-> "policy_permissions", refs |-> {"policies", "permissions"}, keyed |-> FALSE]
      /\ made[9] = [name |-> "role_policies", refs |-> {"roles", "policies"}, keyed |-> FALSE]
      /\ made[10] = [name |-> "group_policies", refs |-> {"groups", "policies"}, keyed |-> FALSE]
      /\ made[11] = [name |-> "user_policies", refs |-> {"profiles", "policies"}, keyed |-> FALSE]
      /\ made[12] = [name |-> "audit_logs", refs |-> {"profiles", "tenants"}, keyed |-> TRUE]
      /\ made[13] = [name |-> "customers", refs |-> {"profiles", "tenants"}, keyed |-> TRUE]
      /\ made[14] = [name |-> "customer_user_assignments", refs |-> {"customers", "profiles"}, keyed |-> FALSE]
      /\ made[15] = [name |-> "customer_group_assignments", refs |-> {"customers", "groups"}, keyed |-> FALSE]
  <2>1. /\ DOMAIN made = 1..15 /\ Len(made) = 15 /\ \A k \in 1..12 : made[k] = IamTables0001[k]
        /\ made[13] = CustomerTables0001[1] /\ made[14] = CustomerTables0001[2] /\ made[15] = CustomerTables0001[3]
    BY FirstTablesAre
  <2>. HIDE DEF made
  <2>2. /\ made[1] = IamTables0001[1] /\ made[2] = IamTables0001[2] /\ made[3] = IamTables0001[3]
        /\ made[4] = IamTables0001[4] /\ made[5] = IamTables0001[5] /\ made[6] = IamTables0001[6]
        /\ made[7] = IamTables0001[7] /\ made[8] = IamTables0001[8] /\ made[9] = IamTables0001[9]
        /\ made[10] = IamTables0001[10] /\ made[11] = IamTables0001[11] /\ made[12] = IamTables0001[12]
    BY <2>1
  <2>. QED
    BY <2>1, <2>2, IamTablesAre, CustomerTablesAre
<1>. HIDE DEF made
<1>2. NamesOf(made) = Tables(1)
  BY <1>1, Tables0 DEF NamesOf, IamTables, Assignments
<1>3. \A k, j \in DOMAIN made : made[j].name = made[k].name => j = k
  BY <1>1
<1>4. \A k \in DOMAIN made : \A p \in made[k].refs : \E j \in 1..k : made[j].name = p
  BY <1>1
<1>5. \A k \in DOMAIN made : made[k].refs \ {made[k].name} = Parents(0, made[k].name)
  BY <1>1, ParentsAre
<1>6. \A k \in DOMAIN made : made[k].keyed = TRUE <=> made[k].name \in WithKey
  BY <1>1 DEF WithKey, WithTenant, SupplierTables, PoTable
<1>7. DOMAIN made = 1..Len(made) /\ Len(made) \in Nat
  BY <1>1
<1>8. Creatable(0, {}, made)
  BY <1>3, <1>4, <1>5, <1>6, <1>7, Zenon DEF Creatable
<1>. QED
  BY <1>2, <1>8 DEF made

\* Its downgrade drops them in an order that leaves no reference.
LEMMA Dropped1 ==
    LET two == <<"customer_group_assignments", "customer_user_assignments">>
        all == <<"customers", "audit_logs", "user_policies", "group_policies",
                 "role_policies", "policy_permissions", "policies", "permissions",
                 "user_groups", "profiles", "groups", "roles", "tenants">>
    IN  /\ Droppable(1, Tables(1), two) /\ Range(two) = Assignments
        /\ Droppable(1, Tables(1) \ Assignments, all) /\ Range(all) = Tables(1) \ Assignments
<1>. DEFINE two == <<"customer_group_assignments", "customer_user_assignments">>
            all == <<"customers", "audit_logs", "user_policies", "group_policies",
                     "role_policies", "policy_permissions", "policies", "permissions",
                     "user_groups", "profiles", "groups", "roles", "tenants">>
            T == Tables(1) \ Assignments
<1>1. /\ DOMAIN two = 1..2 /\ Len(two) = 2 /\ two[1] = "customer_group_assignments"
      /\ two[2] = "customer_user_assignments"
  OBVIOUS
<1>2. /\ DOMAIN all = 1..13 /\ Len(all) = 13 /\ all[1] = "customers" /\ all[2] = "audit_logs"
      /\ all[3] = "user_policies" /\ all[4] = "group_policies" /\ all[5] = "role_policies"
      /\ all[6] = "policy_permissions" /\ all[7] = "policies" /\ all[8] = "permissions"
      /\ all[9] = "user_groups" /\ all[10] = "profiles" /\ all[11] = "groups" /\ all[12] = "roles"
      /\ all[13] = "tenants"
  OBVIOUS
<1>3. T = IamTables \cup {"customers"}
  BY Tables0 DEF IamTables, Assignments
<1>. HIDE DEF two, all, T
<1>4. Range(two) = Assignments /\ Range(all) = T
  <2>1. Range(two) = Assignments
    BY <1>1 DEF Range, Assignments
  <2>2. Range(all) = T
    BY <1>2, <1>3 DEF Range, IamTables
  <2>. QED
    BY <2>1, <2>2
<1>5. Droppable(1, Tables(1), two)
  <2>1. \A t : \A p \in Assignments : p \notin Parents(1, t)
    BY DEF Parents, Refers, Assignments, PoTable
  <2>2. Assignments \subseteq Tables(1)
    BY Tables2
  <2>. QED
    BY <1>1, <2>1, <2>2 DEF Droppable, Assignments
<1>6. ASSUME NEW t \in T, NEW k \in 1..13, all[k] \in Parents(1, t)
      PROVE  \E j \in 1..(k - 1) : all[j] = t
  <2>1. PICK i \in 1..13 : all[i] = t
    BY <1>2, <1>3 DEF IamTables
  <2>2. /\ Parents(1, "tenants") = {} /\ Parents(1, "roles") = {} /\ Parents(1, "permissions") = {}
        /\ Parents(1, "groups") = {"tenants"} /\ Parents(1, "policies") = {"tenants"}
        /\ Parents(1, "profiles") = {"tenants", "roles"}
        /\ Parents(1, "user_groups") = {"profiles", "groups"}
        /\ Parents(1, "policy_permissions") = {"policies", "permissions"}
        /\ Parents(1, "role_policies") = {"roles", "policies"}
        /\ Parents(1, "group_policies") = {"groups", "policies"}
        /\ Parents(1, "user_policies") = {"profiles", "policies"}
        /\ Parents(1, "audit_logs") = {"profiles", "tenants"}
        /\ Parents(1, "customers") = {"profiles", "tenants"}
    BY ParentsAre
  <2>3. i < k
    BY <1>2, <1>6, <2>1, <2>2
  <2>. QED
    BY <2>1, <2>3
<1>7. Droppable(1, T, all)
  <2>1. \A k \in 1..13 : all[k] \in T
    BY <1>2, <1>3 DEF IamTables
  <2>. QED
    BY <1>2, <1>6, <2>1 DEF Droppable
<1>. QED
  BY <1>4, <1>5, <1>7 DEF two, all, T

LEMMA Objects1 ==
    /\ (Assignments \X {"customer_id_fkey"}) \cap Objects(0) = {}
    /\ ({"customers"} \X CustomerIndexes) \cap (Assignments \X {"customer_id_fkey"}) = {}
    /\ Objects(1) = (Assignments \X {"customer_id_fkey"}) \cup ({"customers"} \X CustomerIndexes)
    /\ {n \in Objects(1) : n[1] \notin Assignments} = {"customers"} \X CustomerIndexes
BY DEF Objects, Assignments, CustomerIndexes

\* 0001, forth and back.
LEMMA Schema1 ==
    ASSUME NEW d, NEW G, NEW P, NEW M
    PROVE  /\ Fits(d, 0, G, P, M) =>
                Fits(Up0001(d), 1, G \cup Given(1), P \cup {"customers", "inventory", "shipments"},
                     M \cup ({"admin"} \X {"customers", "inventory", "shipments"}))
           /\ Fits(d, 1, G, P, M) => Fits(Down0001(d), 0, Without(G, Tables(1)), {}, {})
<1>. DEFINE made == IamTables0001 \o CustomerTables0001
            families == {"customers", "inventory", "shipments"}
            R == References(1, Tables(1))
            keyed == Assignments \X {"customer_id_fkey"}
<1>0. \A e, U : DOMAIN References(e, U) = U
  BY DEF References
<1>1. /\ {"ix_customers_tenant_owner", "ix_customers_tenant_status"} = CustomerIndexes
      /\ DOMAIN R = Tables(1) /\ Secured \cap Tables(1) = {} /\ Secured \cap {} = {}
  BY Tables2 DEF CustomerIndexes, References
<1>2. References(0, Tables(1)) = R /\ References(1, {}) = References(0, Tables(0)) /\ Tables(0) = {}
  BY Tables0, SameReferences
<1>3. Creatable(0, {}, made) /\ NamesOf(made) = Tables(1)
  BY Made1
<1>. HIDE DEF made, families, R, keyed
<1>4. ASSUME Fits(d, 0, G, P, M)
      PROVE  Fits(Up0001(d), 1, G \cup Given(1), P \cup families, M \cup ({"admin"} \X families))
  <2>. DEFINE tables == Create(d, made)
              keys == AddObjects(tables, Assignments, {"customer_id_fkey"})
              index == AddObjects(keys, {"customers"}, {"ix_customers_tenant_owner", "ix_customers_tenant_status"})
              seeded == Seed(index, families)
              filled == [seeded EXCEPT !.customers = @ \cup {Customer(SeedId, Home, "CUST001", FALSE, 1)}]
              data == Run(seeded, TRUE, "", filled)
              readable == {IamTables0001[k].name : k \in DOMAIN IamTables0001} \cup Assignments
              read == Grant(data, ReadOnly, readable)
              last == Grant(read, Write3, {"customers"})
              PF == P \cup families
              MF == M \cup ({"admin"} \X families)
  <2>0. readable = IamTables \cup Assignments /\ readable \subseteq Tables(1) /\ {"customers"} \subseteq Tables(1)
    <3>1. {IamTables0001[k].name : k \in DOMAIN IamTables0001} = IamTables
      BY IamTablesAre DEF IamTables
    <3>. QED
      BY <3>1, Tables0
  <2>1. Is(tables, R, {}, Objects(0), G, P, M)
    <3>1. Is(d, References(0, {}), {}, Objects(0), G, P, M)
      BY <1>1, <1>2, <1>4 DEF Fits
    <3>2. {} \cup Tables(1) = Tables(1)
      OBVIOUS
    <3>. QED
      BY <1>2, <1>3, <3>1, <3>2, CreateIs
  <2>. HIDE DEF tables, readable
  <2>2. Is(keys, R, {}, keyed, G, P, M)
    <3>1. Assignments \subseteq DOMAIN R /\ Objects(0) \cup keyed = keyed
      BY <1>1, Tables0
    <3>. QED
      BY <2>1, <3>1, Objects1, AddObjectsIs DEF keyed
  <2>. HIDE DEF keys
  <2>3. Is(index, R, {}, Objects(1), G, P, M)
    <3>1. {"customers"} \subseteq DOMAIN R
      BY <1>1, <2>0
    <3>. QED
      BY <1>1, <2>2, <3>1, Objects1, AddObjectsIs DEF keyed
  <2>. HIDE DEF index, PF, MF
  <2>4. Is(seeded, R, {}, Objects(1), G, PF, MF)
    BY <2>3, SeedIs DEF PF, MF
  <2>. HIDE DEF seeded
  <2>5. SameSchema(seeded, filled)
    BY <2>4 DEF Is, SameSchema, Fields
  <2>. HIDE DEF filled
  <2>6. Is(data, R, {}, Objects(1), G, PF, MF)
    BY <2>4, <2>5, RowsIs
  <2>. HIDE DEF data
  <2>7. Is(read, R, {}, Objects(1), G \cup (readable \X ReadOnly), PF, MF)
    BY <1>1, <2>0, <2>6, GrantIs
  <2>. HIDE DEF read
  <2>8. Is(last, R, {}, Objects(1), (G \cup (readable \X ReadOnly)) \cup ({"customers"} \X Write3), PF, MF)
    BY <1>1, <2>0, <2>7, GrantIs
  <2>9. (G \cup (readable \X ReadOnly)) \cup ({"customers"} \X Write3) = G \cup Given(1)
    BY <2>0, GivenAre
  <2>10. SeedData0001(index) = data
    BY Zenon DEF SeedData0001, data, filled, seeded, families
  <2>11. Up0001(d) = last
    BY <2>10, Zenon DEF Up0001, last, read, readable, index, keys, tables, made
  <2>. QED
    BY <1>1, <2>8, <2>9, <2>11 DEF Fits, R, PF, MF
<1>5. ASSUME Fits(d, 1, G, P, M) PROVE Fits(Down0001(d), 0, Without(G, Tables(1)), {}, {})
  <2>. DEFINE two == <<"customer_group_assignments", "customer_user_assignments">>
              all == <<"customers", "audit_logs", "user_policies", "group_policies",
                       "role_policies", "policy_permissions", "policies", "permissions",
                       "user_groups", "profiles", "groups", "roles", "tenants">>
              T == Tables(1) \ Assignments
              freed == Drop(d, two)
              index == DropObjects(freed, {"customers"},
                                   {"ix_customers_tenant_owner", "ix_customers_tenant_status"})
              gone == Drop(index, all)
              last == [gone EXCEPT !.customers = {}, !.perms = {}, !.maps = {}]
              H == {g \in G : g[1] \notin Assignments}
              I == {g \in H : g[1] \notin T}
  <2>1. /\ Droppable(1, Tables(1), two) /\ Range(two) = Assignments
        /\ Droppable(1, T, all) /\ Range(all) = T
    BY Dropped1
  <2>. HIDE DEF two, all
  <2>2. Is(freed, References(1, T), {}, {"customers"} \X CustomerIndexes, H, P, M)
    <3>1. Is(d, References(1, Tables(1)), {}, Objects(1), G, P, M)
      BY <1>1, <1>5 DEF Fits
    <3>2. Is(freed, References(1, T), {} \ Assignments, {n \in Objects(1) : n[1] \notin Assignments}, H, P, M)
      BY <2>1, <3>1, DropIs
    <3>. QED
      BY <3>2, Objects1
  <2>. HIDE DEF freed, H
  <2>3. Is(index, References(1, T), {}, {}, H, P, M)
    <3>1. ({"customers"} \X CustomerIndexes) \ ({"customers"} \X CustomerIndexes) = {}
      OBVIOUS
    <3>. QED
      BY <1>1, <2>2, <3>1, DropObjectsIs
  <2>. HIDE DEF index
  <2>4. Is(gone, References(1, {}), {}, {}, I, P, M)
    <3>1. T \ T = {} /\ {} \ T = {} /\ {n \in {} : n[1] \notin T} = {}
      OBVIOUS
    <3>. HIDE DEF T
    <3>2. Is(gone, References(1, T \ T), {} \ T, {n \in {} : n[1] \notin T}, I, P, M)
      BY <2>1, <2>3, DropIs
    <3>. QED
      BY <3>1, <3>2
  <2>5. I = Without(G, Tables(1))
    BY Tables2 DEF Without, H
  <2>. HIDE DEF gone, I
  <2>6. Sound(gone) => Is(last, References(1, {}), {}, {}, I, {}, {})
    BY <2>4 DEF Is, Sound, Fit, Fields
  <2>7. DOMAIN gone = Fields /\ Fit(gone)
    BY <2>4 DEF Is
  <2>. HIDE DEF last
  <2>8. Is(Run(gone, TRUE, "", last), References(1, {}), {}, {}, I, {}, {})
    BY <2>6, <2>7, RunIs
  <2>9. Down0001(d) = Run(gone, TRUE, "", last)
    BY Zenon DEF Down0001, last, gone, index, freed, two, all
  <2>. QED
    BY <1>1, <1>2, <2>5, <2>8, <2>9, Tables0 DEF Fits
<1>. QED
  BY <1>4, <1>5 DEF families

-----------------------------------------------------------------------------
\* All revisions together.

\* The permission families that a revision inserts.
Brings(r) ==
    IF r = 1 THEN {"customers", "inventory", "shipments"}
    ELSE IF r = 4 THEN {"audit"}
    ELSE IF r = 5 THEN {"iam"}
    ELSE IF r = 6 THEN {"customer_pos"}
    ELSE IF r = 10 THEN {"dashboard"}
    ELSE IF r = 13 THEN {"suppliers"}
    ELSE IF r = 14 THEN {"suppliers.export"}
    ELSE IF r = 15 THEN {"products"}
    ELSE IF r = 18 THEN {"edi_messages"}
    ELSE {}
\* The rights on tables that are there; what a revision makes of the rights it finds.
Granted(r) == {g \in Rights : g[1] \in Tables(r)}
After(r, G) == Without(G, Gone(r)) \cup Given(r)
\* What a downgrade leaves of the permissions and of their mappings.
Left(r, P) == IF r = 1 THEN {} ELSE P \ Brings(r)
MapsOf(M, P) == {m \in M : m[2] \in P}

\* Revisions by their number.
LEMMA UpgradesAre ==
    ASSUME NEW d
    PROVE  /\ Upgrade(1, d) = Up0001(d) /\ Upgrade(2, d) = Up0002(d) /\ Upgrade(3, d) = Up0003(d)
           /\ Upgrade(4, d) = Up0004(d) /\ Upgrade(5, d) = Up0005(d) /\ Upgrade(6, d) = Up0006(d)
           /\ Upgrade(7, d) = Up0007(d) /\ Upgrade(8, d) = Up0008(d) /\ Upgrade(9, d) = Up0009(d)
           /\ Upgrade(10, d) = Up0010(d) /\ Upgrade(11, d) = Up0011(d) /\ Upgrade(12, d) = Up0012(d)
           /\ Upgrade(13, d) = Up0013(d) /\ Upgrade(14, d) = Up0014(d) /\ Upgrade(15, d) = Up0015(d)
           /\ Upgrade(16, d) = Up0016(d) /\ Upgrade(17, d) = Up0017(d) /\ Upgrade(18, d) = Up0018(d)
           /\ Upgrade(19, d) = Up0019(d)
BY DEF Upgrade

LEMMA DowngradesAre ==
    ASSUME NEW d
    PROVE  /\ Downgrade(1, d) = Down0001(d) /\ Downgrade(2, d) = Down0002(d) /\ Downgrade(3, d) = Down0003(d)
           /\ Downgrade(4, d) = Down0004(d) /\ Downgrade(5, d) = Down0005(d) /\ Downgrade(6, d) = Down0006(d)
           /\ Downgrade(7, d) = Down0007(d) /\ Downgrade(8, d) = Down0008(d) /\ Downgrade(9, d) = Down0009(d)
           /\ Downgrade(10, d) = Down0010(d) /\ Downgrade(11, d) = Down0011(d) /\ Downgrade(12, d) = Down0012(d)
           /\ Downgrade(13, d) = Down0013(d) /\ Downgrade(14, d) = Down0014(d) /\ Downgrade(15, d) = Down0015(d)
           /\ Downgrade(16, d) = Down0016(d) /\ Downgrade(17, d) = Down0017(d) /\ Downgrade(18, d) = Down0018(d)
           /\ Downgrade(19, d) = Down0019(d)
BY DEF Downgrade

\* A revision that brings nothing leaves the sets as they are.
LEMMA NothingChanges ==
    /\ \A G : Without(G, {}) = G
    /\ \A P : P \cup {} = P /\ P \ {} = P
    /\ \A M : M \cup ({"admin"} \X {}) = M
BY DEF Without

LEMMA AfterIs ==
    ASSUME NEW G
    PROVE  /\ After(2, G) = Without(G, {"customers"}) \cup Given(2)
           /\ \A r : r # 2 => After(r, G) = G \cup Given(r)
BY NothingChanges DEF After, Gone

\* Every upgrade fits the schema that it was written for, and leaves the next one.
LEMMA UpgradeFits ==
    ASSUME NEW r \in 1..19, NEW d, NEW G, NEW P, NEW M, Fits(d, r - 1, G, P, M), G \subseteq Granted(r - 1)
    PROVE  Fits(Upgrade(r, d), r, After(r, G), P \cup Brings(r), M \cup ({"admin"} \X Brings(r)))
<1>1. /\ \A P1 : P1 \cup {} = P1
      /\ \A M1 : M1 \cup ({"admin"} \X {}) = M1
  BY NothingChanges
<1>2. \A k : k # 2 => After(k, G) = G \cup Given(k)
  BY AfterIs
<1>3. \A k \in {5, 7, 8, 9, 10, 14, 16, 17, 19} : After(k, G) = G
  <2>1. \A k \in {5, 7, 8, 9, 10, 14, 16, 17, 19} : Given(k) = {} /\ k # 2
    BY GivenAre
  <2>. QED
    BY <1>2, <2>1
<1>. DEFINE Goal(k) == Fits(Upgrade(k, d), k, After(k, G), P \cup Brings(k), M \cup ({"admin"} \X Brings(k)))
<1>4. ASSUME r = 1 PROVE Goal(1)
  <2>1. Fits(d, 0, G, P, M) /\ G \subseteq Granted(0) /\ Brings(1) = {"customers", "inventory", "shipments"}
    BY <1>4 DEF Brings
  <2>3. Fits(Up0001(d), 1, G \cup Given(1), P \cup {"customers", "inventory", "shipments"},
             M \cup ({"admin"} \X {"customers", "inventory", "shipments"}))
    BY <2>1, Schema1
  <2>4. Upgrade(1, d) = Up0001(d) /\ After(1, G) = G \cup Given(1)
    BY UpgradesAre, <1>2
  <2>. QED
    BY <1>1, <2>1, <2>3, <2>4
<1>5. ASSUME r = 2 PROVE Goal(2)
  <2>1. Fits(d, 1, G, P, M) /\ G \subseteq Granted(1) /\ Brings(2) = {}
    BY <1>5 DEF Brings
  <2>3. Fits(Up0002(d), 2, Without(G, {"customers"}) \cup Given(2), P, M)
    BY <2>1, Upgrade2Fits
  <2>4. Upgrade(2, d) = Up0002(d) /\ After(2, G) = Without(G, {"customers"}) \cup Given(2)
    BY UpgradesAre, AfterIs
  <2>. QED
    BY <1>1, <2>1, <2>3, <2>4
<1>6. ASSUME r = 3 PROVE Goal(3)
  <2>1. Fits(d, 2, G, P, M) /\ G \subseteq Granted(2) /\ Brings(3) = {}
    BY <1>6 DEF Brings
  <2>3. Fits(Up0003(d), 3, G \cup Given(3), P, M)
    BY <2>1, Schema3
  <2>4. Upgrade(3, d) = Up0003(d) /\ After(3, G) = G \cup Given(3)
    BY UpgradesAre, <1>2
  <2>. QED
    BY <1>1, <2>1, <2>3, <2>4
<1>7. ASSUME r = 4 PROVE Goal(4)
  <2>1. Fits(d, 3, G, P, M) /\ G \subseteq Granted(3) /\ Brings(4) = {"audit"}
    BY <1>7 DEF Brings
  <2>3. Fits(Up0004(d), 4, G \cup Given(4), P \cup {"audit"}, M \cup ({"admin"} \X {"audit"}))
    BY <2>1, Schema4
  <2>4. Upgrade(4, d) = Up0004(d) /\ After(4, G) = G \cup Given(4)
    BY UpgradesAre, <1>2
  <2>. QED
    BY <1>1, <2>1, <2>3, <2>4
<1>8. ASSUME r = 5 PROVE Goal(5)
  <2>1. Fits(d, 4, G, P, M) /\ G \subseteq Granted(4) /\ Brings(5) = {"iam"}
    BY <1>8 DEF Brings
  <2>3. Fits(Up0005(d), 5, G, P \cup {"iam"}, M \cup ({"admin"} \X {"iam"}))
    BY <2>1, Schema5
  <2>4. Upgrade(5, d) = Up0005(d) /\ After(5, G) = G
    BY UpgradesAre, <1>3
  <2>. QED
    BY <1>1, <2>1, <2>3, <2>4
<1>9. ASSUME r = 6 PROVE Goal(6)
  <2>1. Fits(d, 5, G, P, M) /\ G \subseteq Granted(5) /\ Brings(6) = {"customer_pos"}
    BY <1>9 DEF Brings
  <2>3. Fits(Up0006(d), 6, G \cup Given(6), P \cup {"customer_pos"}, M \cup ({"admin"} \X {"customer_pos"}))
    BY <2>1, Schema6
  <2>4. Upgrade(6, d) = Up0006(d) /\ After(6, G) = G \cup Given(6)
    BY UpgradesAre, <1>2
  <2>. QED
    BY <1>1, <2>1, <2>3, <2>4
<1>10. ASSUME r = 7 PROVE Goal(7)
  <2>1. Fits(d, 6, G, P, M) /\ G \subseteq Granted(6) /\ Brings(7) = {}
    BY <1>10 DEF Brings
  <2>3. Fits(Up0007(d), 7, G, P, M)
    BY <2>1, Schema7
  <2>4. Upgrade(7, d) = Up0007(d) /\ After(7, G) = G
    BY UpgradesAre, <1>3
  <2>. QED
    BY <1>1, <2>1, <2>3, <2>4
<1>11. ASSUME r = 8 PROVE Goal(8)
  <2>1. Fits(d, 7, G, P, M) /\ G \subseteq Granted(7) /\ Brings(8) = {}
    BY <1>11 DEF Brings
  <2>3. Fits(Up0008(d), 8, G, P, M)
    BY <2>1, Schema8
  <2>4. Upgrade(8, d) = Up0008(d) /\ After(8, G) = G
    BY UpgradesAre, <1>3
  <2>. QED
    BY <1>1, <2>1, <2>3, <2>4
<1>12. ASSUME r = 9 PROVE Goal(9)
  <2>1. Fits(d, 8, G, P, M) /\ G \subseteq Granted(8) /\ Brings(9) = {}
    BY <1>12 DEF Brings
  <2>3. Fits(Up0009(d), 9, G, P, M)
    BY <2>1, Schema9
  <2>4. Upgrade(9, d) = Up0009(d) /\ After(9, G) = G
    BY UpgradesAre, <1>3
  <2>. QED
    BY <1>1, <2>1, <2>3, <2>4
<1>13. ASSUME r = 10 PROVE Goal(10)
  <2>1. Fits(d, 9, G, P, M) /\ G \subseteq Granted(9) /\ Brings(10) = {"dashboard"}
    BY <1>13 DEF Brings
  <2>3. Fits(Up0010(d), 10, G, P \cup {"dashboard"}, M \cup ({"admin"} \X {"dashboard"}))
    BY <2>1, Schema10
  <2>4. Upgrade(10, d) = Up0010(d) /\ After(10, G) = G
    BY UpgradesAre, <1>3
  <2>. QED
    BY <1>1, <2>1, <2>3, <2>4
<1>14. ASSUME r = 11 PROVE Goal(11)
  <2>1. Fits(d, 10, G, P, M) /\ G \subseteq Granted(10) /\ Brings(11) = {}
    BY <1>14 DEF Brings
  <2>2. \A g \in G : g[1] # "customer_po_events"
    <3>1. "customer_po_events" \notin Tables(10)
      BY DEF Tables, AllTables, Since, IamTables, Assignments, PartnerTables, TokenTables, AuditTables, PoTables,
             PoTable
    <3>. QED
      BY <2>1, <3>1 DEF Granted
  <2>3. Fits(Up0011(d), 11, G \cup Given(11), P, M)
    BY <2>1, <2>2, Schema11
  <2>4. Upgrade(11, d) = Up0011(d) /\ After(11, G) = G \cup Given(11)
    BY UpgradesAre, <1>2
  <2>. QED
    BY <1>1, <2>1, <2>3, <2>4
<1>15. ASSUME r = 12 PROVE Goal(12)
  <2>1. Fits(d, 11, G, P, M) /\ G \subseteq Granted(11) /\ Brings(12) = {}
    BY <1>15 DEF Brings
  <2>2. \A g \in G : g[1] # "attachments"
    <3>1. "attachments" \notin Tables(11)
      BY DEF Tables, AllTables, Since, IamTables, Assignments, PartnerTables, TokenTables, AuditTables, PoTables,
             PoTable
    <3>. QED
      BY <2>1, <3>1 DEF Granted
  <2>3. Fits(Up0012(d), 12, G \cup Given(12), P, M)
    BY <2>1, <2>2, Schema12
  <2>4. Upgrade(12, d) = Up0012(d) /\ After(12, G) = G \cup Given(12)
    BY UpgradesAre, <1>2
  <2>. QED
    BY <1>1, <2>1, <2>3, <2>4
<1>16. ASSUME r = 13 PROVE Goal(13)
  <2>1. Fits(d, 12, G, P, M) /\ G \subseteq Granted(12) /\ Brings(13) = {"suppliers"}
    BY <1>16 DEF Brings
  <2>3. Fits(Up0013(d), 13, G \cup Given(13), P \cup {"suppliers"}, M \cup ({"admin"} \X {"suppliers"}))
    BY <2>1, Schema13
  <2>4. Upgrade(13, d) = Up0013(d) /\ After(13, G) = G \cup Given(13)
    BY UpgradesAre, <1>2
  <2>. QED
    BY <1>1, <2>1, <2>3, <2>4
<1>17. ASSUME r = 14 PROVE Goal(14)
  <2>1. Fits(d, 13, G, P, M) /\ G \subseteq Granted(13) /\ Brings(14) = {"suppliers.export"}
    BY <1>17 DEF Brings
  <2>3. Fits(Up0014(d), 14, G, P \cup {"suppliers.export"}, M \cup ({"admin"} \X {"suppliers.export"}))
    BY <2>1, Schema14
  <2>4. Upgrade(14, d) = Up0014(d) /\ After(14, G) = G
    BY UpgradesAre, <1>3
  <2>. QED
    BY <1>1, <2>1, <2>3, <2>4
<1>18. ASSUME r = 15 PROVE Goal(15)
  <2>1. Fits(d, 14, G, P, M) /\ G \subseteq Granted(14) /\ Brings(15) = {"products"}
    BY <1>18 DEF Brings
  <2>3. Fits(Up0015(d), 15, G \cup Given(15), P \cup {"products"}, M \cup ({"admin"} \X {"products"}))
    BY <2>1, Schema15
  <2>4. Upgrade(15, d) = Up0015(d) /\ After(15, G) = G \cup Given(15)
    BY UpgradesAre, <1>2
  <2>. QED
    BY <1>1, <2>1, <2>3, <2>4
<1>19. ASSUME r = 16 PROVE Goal(16)
  <2>1. Fits(d, 15, G, P, M) /\ G \subseteq Granted(15) /\ Brings(16) = {}
    BY <1>19 DEF Brings
  <2>3. Fits(Up0016(d), 16, G, P, M)
    BY <2>1, Schema16
  <2>4. Upgrade(16, d) = Up0016(d) /\ After(16, G) = G
    BY UpgradesAre, <1>3
  <2>. QED
    BY <1>1, <2>1, <2>3, <2>4
<1>20. ASSUME r = 17 PROVE Goal(17)
  <2>1. Fits(d, 16, G, P, M) /\ G \subseteq Granted(16) /\ Brings(17) = {}
    BY <1>20 DEF Brings
  <2>3. Fits(Up0017(d), 17, G, P, M)
    BY <2>1, Schema17
  <2>4. Upgrade(17, d) = Up0017(d) /\ After(17, G) = G
    BY UpgradesAre, <1>3
  <2>. QED
    BY <1>1, <2>1, <2>3, <2>4
<1>21. ASSUME r = 18 PROVE Goal(18)
  <2>1. Fits(d, 17, G, P, M) /\ G \subseteq Granted(17) /\ Brings(18) = {"edi_messages"}
    BY <1>21 DEF Brings
  <2>3. Fits(Up0018(d), 18, G \cup Given(18), P \cup {"edi_messages"}, M \cup ({"admin"} \X {"edi_messages"}))
    BY <2>1, Schema18
  <2>4. Upgrade(18, d) = Up0018(d) /\ After(18, G) = G \cup Given(18)
    BY UpgradesAre, <1>2
  <2>. QED
    BY <1>1, <2>1, <2>3, <2>4
<1>22. ASSUME r = 19 PROVE Goal(19)
  <2>1. Fits(d, 18, G, P, M) /\ G \subseteq Granted(18) /\ Brings(19) = {}
    BY <1>22 DEF Brings
  <2>3. Fits(Up0019(d), 19, G, P, M)
    BY <2>1, Schema19
  <2>4. Upgrade(19, d) = Up0019(d) /\ After(19, G) = G
    BY UpgradesAre, <1>3
  <2>. QED
    BY <1>1, <2>1, <2>3, <2>4
<1>. HIDE DEF Goal
<1>23. Goal(r)
  BY <1>4, <1>5, <1>6, <1>7, <1>8, <1>9, <1>10, <1>11, <1>12, <1>13, <1>14, <1>15, <1>16, <1>17, <1>18, <1>19,
     <1>20, <1>21, <1>22
<1>. QED
  BY <1>23 DEF Goal

\* Every downgrade fits the schema that its upgrade left, and leaves the one before.
LEMMA DowngradeFits ==
    ASSUME NEW r \in 1..19, NEW d, NEW G, NEW P, NEW M, Fits(d, r, G, P, M), \A m \in M : m[2] \in P
    PROVE  Fits(Downgrade(r, d), r - 1, Without(G, Created(r)), Left(r, P), MapsOf(M, Left(r, P)))
<1>1. MapsOf(M, {}) = {} /\ MapsOf(M, P) = M /\ \A F : {m \in M : m[2] \notin F} = MapsOf(M, P \ F)
  BY DEF MapsOf
<1>2. \A k \in {5, 7, 8, 9, 10, 14, 16, 17, 19} : Without(G, Created(k)) = G
  BY CreatedAre, NothingChanges
<1>3. P \ {} = P
  OBVIOUS
<1>. DEFINE Goal(k) == Fits(Downgrade(k, d), k - 1, Without(G, Created(k)), Left(k, P), MapsOf(M, Left(k, P)))
<1>4. ASSUME r = 1 PROVE Goal(1)
  <2>1. Fits(d, 1, G, P, M) /\ Left(1, P) = {} /\ 1 - 1 = 0
    BY <1>4, <1>3 DEF Left, Brings
  <2>2. Fits(Down0001(d), 0, Without(G, Tables(1)), {}, {})
    BY <2>1, Schema1
  <2>3. Downgrade(1, d) = Down0001(d) /\ Without(G, Created(1)) = Without(G, Tables(1))
    BY DowngradesAre, CreatedAre, Tables0
  <2>4. MapsOf(M, Left(1, P)) = {}
    BY <1>1, <2>1
  <2>. QED
    BY <2>1, <2>2, <2>3, <2>4
<1>5. ASSUME r = 2 PROVE Goal(2)
  <2>1. Fits(d, 2, G, P, M) /\ Left(2, P) = P /\ 2 - 1 = 1
    BY <1>5, <1>3 DEF Left, Brings
  <2>2. Fits(Down0002(d), 1, Without(G, PartnerTables), P, M)
    BY <2>1, Downgrade2Fits
  <2>3. Downgrade(2, d) = Down0002(d) /\ Without(G, Created(2)) = Without(G, PartnerTables)
    BY DowngradesAre, CreatedAre, Tables0
  <2>4. MapsOf(M, Left(2, P)) = M
    BY <1>1, <2>1
  <2>. QED
    BY <2>1, <2>2, <2>3, <2>4
<1>6. ASSUME r = 3 PROVE Goal(3)
  <2>1. Fits(d, 3, G, P, M) /\ Left(3, P) = P /\ 3 - 1 = 2
    BY <1>6, <1>3 DEF Left, Brings
  <2>2. Fits(Down0003(d), 2, Without(G, Created(3)), P, M)
    BY <2>1, Schema3
  <2>3. Downgrade(3, d) = Down0003(d) /\ Without(G, Created(3)) = Without(G, Created(3))
    BY DowngradesAre
  <2>4. MapsOf(M, Left(3, P)) = M
    BY <1>1, <2>1
  <2>. QED
    BY <2>1, <2>2, <2>3, <2>4
<1>7. ASSUME r = 4 PROVE Goal(4)
  <2>1. Fits(d, 4, G, P, M) /\ Left(4, P) = P \ {"audit"} /\ 4 - 1 = 3
    BY <1>7, <1>3 DEF Left, Brings
  <2>2. Fits(Down0004(d), 3, Without(G, Created(4)), P \ {"audit"}, {m \in M : m[2] \notin {"audit"}})
    BY <2>1, Schema4
  <2>3. Downgrade(4, d) = Down0004(d) /\ Without(G, Created(4)) = Without(G, Created(4))
    BY DowngradesAre
  <2>4. MapsOf(M, Left(4, P)) = {m \in M : m[2] \notin {"audit"}}
    BY <1>1, <2>1
  <2>. QED
    BY <2>1, <2>2, <2>3, <2>4
<1>8. ASSUME r = 5 PROVE Goal(5)
  <2>1. Fits(d, 5, G, P, M) /\ Left(5, P) = P \ {"iam"} /\ 5 - 1 = 4
    BY <1>8, <1>3 DEF Left, Brings
  <2>2. Fits(Down0005(d), 4, G, P \ {"iam"}, {m \in M : m[2] \notin {"iam"}})
    BY <2>1, Schema5
  <2>3. Downgrade(5, d) = Down0005(d) /\ Without(G, Created(5)) = G
    BY DowngradesAre, <1>2
  <2>4. MapsOf(M, Left(5, P)) = {m \in M : m[2] \notin {"iam"}}
    BY <1>1, <2>1
  <2>. QED
    BY <2>1, <2>2, <2>3, <2>4
<1>9. ASSUME r = 6 PROVE Goal(6)
  <2>1. Fits(d, 6, G, P, M) /\ Left(6, P) = P \ {"customer_pos"} /\ 6 - 1 = 5
    BY <1>9, <1>3 DEF Left, Brings
  <2>2. Fits(Down0006(d), 5, Without(G, Created(6)), P \ {"customer_pos"}, {m \in M : m[2] \notin {"customer_pos"}})
    BY <2>1, Schema6
  <2>3. Downgrade(6, d) = Down0006(d) /\ Without(G, Created(6)) = Without(G, Created(6))
    BY DowngradesAre
  <2>4. MapsOf(M, Left(6, P)) = {m \in M : m[2] \notin {"customer_pos"}}
    BY <1>1, <2>1
  <2>. QED
    BY <2>1, <2>2, <2>3, <2>4
<1>10. ASSUME r = 7 PROVE Goal(7)
  <2>1. Fits(d, 7, G, P, M) /\ Left(7, P) = P /\ 7 - 1 = 6
    BY <1>10, <1>3 DEF Left, Brings
  <2>2. Fits(Down0007(d), 6, G, P, M)
    BY <2>1, Schema7
  <2>3. Downgrade(7, d) = Down0007(d) /\ Without(G, Created(7)) = G
    BY DowngradesAre, <1>2
  <2>4. MapsOf(M, Left(7, P)) = M
    BY <1>1, <2>1
  <2>. QED
    BY <2>1, <2>2, <2>3, <2>4
<1>11. ASSUME r = 8 PROVE Goal(8)
  <2>1. Fits(d, 8, G, P, M) /\ Left(8, P) = P /\ 8 - 1 = 7
    BY <1>11, <1>3 DEF Left, Brings
  <2>2. Fits(Down0008(d), 7, G, P, M)
    BY <2>1, Schema8
  <2>3. Downgrade(8, d) = Down0008(d) /\ Without(G, Created(8)) = G
    BY DowngradesAre, <1>2
  <2>4. MapsOf(M, Left(8, P)) = M
    BY <1>1, <2>1
  <2>. QED
    BY <2>1, <2>2, <2>3, <2>4
<1>12. ASSUME r = 9 PROVE Goal(9)
  <2>1. Fits(d, 9, G, P, M) /\ Left(9, P) = P /\ 9 - 1 = 8
    BY <1>12, <1>3 DEF Left, Brings
  <2>2. Fits(Down0009(d), 8, G, P, M)
    BY <2>1, Schema9
  <2>3. Downgrade(9, d) = Down0009(d) /\ Without(G, Created(9)) = G
    BY DowngradesAre, <1>2
  <2>4. MapsOf(M, Left(9, P)) = M
    BY <1>1, <2>1
  <2>. QED
    BY <2>1, <2>2, <2>3, <2>4
<1>13. ASSUME r = 10 PROVE Goal(10)
  <2>1. Fits(d, 10, G, P, M) /\ Left(10, P) = P \ {"dashboard"} /\ 10 - 1 = 9
    BY <1>13, <1>3 DEF Left, Brings
  <2>2. Fits(Down0010(d), 9, G, P \ {"dashboard"}, {m \in M : m[2] \notin {"dashboard"}})
    BY <2>1, Schema10
  <2>3. Downgrade(10, d) = Down0010(d) /\ Without(G, Created(10)) = G
    BY DowngradesAre, <1>2
  <2>4. MapsOf(M, Left(10, P)) = {m \in M : m[2] \notin {"dashboard"}}
    BY <1>1, <2>1
  <2>. QED
    BY <2>1, <2>2, <2>3, <2>4
<1>14. ASSUME r = 11 PROVE Goal(11)
  <2>1. Fits(d, 11, G, P, M) /\ Left(11, P) = P /\ 11 - 1 = 10
    BY <1>14, <1>3 DEF Left, Brings
  <2>2. Fits(Down0011(d), 10, Without(G, Created(11)), P, M)
    BY <2>1, Schema11
  <2>3. Downgrade(11, d) = Down0011(d) /\ Without(G, Created(11)) = Without(G, Created(11))
    BY DowngradesAre
  <2>4. MapsOf(M, Left(11, P)) = M
    BY <1>1, <2>1
  <2>. QED
    BY <2>1, <2>2, <2>3, <2>4
<1>15. ASSUME r = 12 PROVE Goal(12)
  <2>1. Fits(d, 12, G, P, M) /\ Left(12, P) = P /\ 12 - 1 = 11
    BY <1>15, <1>3 DEF Left, Brings
  <2>2. Fits(Down0012(d), 11, Without(G, Created(12)), P, M)
    BY <2>1, Schema12
  <2>3. Downgrade(12, d) = Down0012(d) /\ Without(G, Created(12)) = Without(G, Created(12))
    BY DowngradesAre
  <2>4. MapsOf(M, Left(12, P)) = M
    BY <1>1, <2>1
  <2>. QED
    BY <2>1, <2>2, <2>3, <2>4
<1>16. ASSUME r = 13 PROVE Goal(13)
  <2>1. Fits(d, 13, G, P, M) /\ Left(13, P) = P \ {"suppliers"} /\ 13 - 1 = 12
    BY <1>16, <1>3 DEF Left, Brings
  <2>2. Fits(Down0013(d), 12, Without(G, Created(13)), P \ {"suppliers"}, {m \in M : m[2] \notin {"suppliers"}})
    BY <2>1, Schema13
  <2>3. Downgrade(13, d) = Down0013(d) /\ Without(G, Created(13)) = Without(G, Created(13))
    BY DowngradesAre
  <2>4. MapsOf(M, Left(13, P)) = {m \in M : m[2] \notin {"suppliers"}}
    BY <1>1, <2>1
  <2>. QED
    BY <2>1, <2>2, <2>3, <2>4
<1>17. ASSUME r = 14 PROVE Goal(14)
  <2>1. Fits(d, 14, G, P, M) /\ Left(14, P) = P \ {"suppliers.export"} /\ 14 - 1 = 13
    BY <1>17, <1>3 DEF Left, Brings
  <2>2. Fits(Down0014(d), 13, G, P \ {"suppliers.export"}, {m \in M : m[2] \notin {"suppliers.export"}})
    BY <2>1, Schema14
  <2>3. Downgrade(14, d) = Down0014(d) /\ Without(G, Created(14)) = G
    BY DowngradesAre, <1>2
  <2>4. MapsOf(M, Left(14, P)) = {m \in M : m[2] \notin {"suppliers.export"}}
    BY <1>1, <2>1
  <2>. QED
    BY <2>1, <2>2, <2>3, <2>4
<1>18. ASSUME r = 15 PROVE Goal(15)
  <2>1. Fits(d, 15, G, P, M) /\ Left(15, P) = P \ {"products"} /\ 15 - 1 = 14
    BY <1>18, <1>3 DEF Left, Brings
  <2>2. Fits(Down0015(d), 14, Without(G, Created(15)), P \ {"products"}, {m \in M : m[2] \notin {"products"}})
    BY <2>1, Schema15
  <2>3. Downgrade(15, d) = Down0015(d) /\ Without(G, Created(15)) = Without(G, Created(15))
    BY DowngradesAre
  <2>4. MapsOf(M, Left(15, P)) = {m \in M : m[2] \notin {"products"}}
    BY <1>1, <2>1
  <2>. QED
    BY <2>1, <2>2, <2>3, <2>4
<1>19. ASSUME r = 16 PROVE Goal(16)
  <2>1. Fits(d, 16, G, P, M) /\ Left(16, P) = P /\ 16 - 1 = 15
    BY <1>19, <1>3 DEF Left, Brings
  <2>2. Fits(Down0016(d), 15, G, P, M)
    BY <2>1, Schema16
  <2>3. Downgrade(16, d) = Down0016(d) /\ Without(G, Created(16)) = G
    BY DowngradesAre, <1>2
  <2>4. MapsOf(M, Left(16, P)) = M
    BY <1>1, <2>1
  <2>. QED
    BY <2>1, <2>2, <2>3, <2>4
<1>20. ASSUME r = 17 PROVE Goal(17)
  <2>1. Fits(d, 17, G, P, M) /\ Left(17, P) = P /\ 17 - 1 = 16
    BY <1>20, <1>3 DEF Left, Brings
  <2>2. Fits(Down0017(d), 16, G, P, M)
    BY <2>1, Schema17
  <2>3. Downgrade(17, d) = Down0017(d) /\ Without(G, Created(17)) = G
    BY DowngradesAre, <1>2
  <2>4. MapsOf(M, Left(17, P)) = M
    BY <1>1, <2>1
  <2>. QED
    BY <2>1, <2>2, <2>3, <2>4
<1>21. ASSUME r = 18 PROVE Goal(18)
  <2>1. Fits(d, 18, G, P, M) /\ Left(18, P) = P \ {"edi_messages"} /\ 18 - 1 = 17
    BY <1>21, <1>3 DEF Left, Brings
  <2>2. Fits(Down0018(d), 17, Without(G, Created(18)), P \ {"edi_messages"},
             {m \in M : m[2] \notin {"edi_messages"}})
    BY <2>1, Schema18
  <2>3. Downgrade(18, d) = Down0018(d) /\ Without(G, Created(18)) = Without(G, Created(18))
    BY DowngradesAre
  <2>4. MapsOf(M, Left(18, P)) = {m \in M : m[2] \notin {"edi_messages"}}
    BY <1>1, <2>1
  <2>. QED
    BY <2>1, <2>2, <2>3, <2>4
<1>22. ASSUME r = 19 PROVE Goal(19)
  <2>1. Fits(d, 19, G, P, M) /\ Left(19, P) = P /\ 19 - 1 = 18
    BY <1>22, <1>3 DEF Left, Brings
  <2>2. Fits(Down0019(d), 18, G, P, M)
    BY <2>1, Schema19
  <2>3. Downgrade(19, d) = Down0019(d) /\ Without(G, Created(19)) = G
    BY DowngradesAre, <1>2
  <2>4. MapsOf(M, Left(19, P)) = M
    BY <1>1, <2>1
  <2>. QED
    BY <2>1, <2>2, <2>3, <2>4
<1>. HIDE DEF Goal
<1>23. Goal(r)
  BY <1>4, <1>5, <1>6, <1>7, <1>8, <1>9, <1>10, <1>11, <1>12, <1>13, <1>14, <1>15, <1>16, <1>17, <1>18, <1>19,
     <1>20, <1>21, <1>22
<1>. QED
  BY <1>23 DEF Goal

\* The rights that 0002's downgrade does not give back.
Lost == {"customers"} \X Write3

\* The rights of two neighbouring revisions.
LEMMA GrantedAre ==
    ASSUME NEW r \in 1..19
    PROVE  /\ Granted(r) = After(r, Granted(r - 1))
           /\ Without(Granted(r), Created(r)) \subseteq Granted(r - 1)
           /\ Granted(r - 1) \ Lost \subseteq Without(Granted(r), Created(r))
           /\ Granted(r - 1) \cap Given(r) = {}
           /\ \A g \in Given(r) : g[1] \in Created(r)
           /\ \A g \in Granted(r - 1) : g[1] \notin Created(r) /\ (g[1] \in Gone(r) => g \in Lost)
<1>1. /\ Tables(r) = (Tables(r - 1) \ Gone(r)) \cup Created(r)
      /\ Tables(r - 1) = (Tables(r) \ Created(r)) \cup Gone(r)
      /\ Tables(r - 1) \cap Created(r) = {}
  BY TablesGrow
<1>2. \A g \in Rights : g \in Given(r) <=> g[1] \in Created(r)
  BY DEF Given, Created
<1>3. \A g \in Rights : g[1] = "customers" => g \in Lost
  BY DEF Rights, Lost, IamTables, Assignments, PoTables, PoTable, AuditTables, SupplierTables, ProductTables
<1>4. \A g \in Rights : g[1] \in Gone(r) => g \in Lost
  BY <1>3 DEF Gone
<1>5. Given(r) \subseteq Rights
  BY DEF Given
<1>6. Created(r) \cap Gone(r) = {}
  BY CreatedAre DEF Gone, PartnerTables
<1>. QED
  BY <1>1, <1>2, <1>4, <1>5, <1>6 DEF Granted, After, Without

\* A right that is lost stays the only difference.
LEMMA AfterGrows ==
    ASSUME NEW r, NEW G, NEW H, G \subseteq H
    PROVE  After(r, G) \subseteq After(r, H) /\ After(r, H) \ (H \ G) \subseteq After(r, G)
BY DEF After, Without

-----------------------------------------------------------------------------
\* The schema is a function of the revision: d has the one of revision r, rights on its
\* tables (all but those on the customers, which 0002's downgrade forgets), permissions that
\* some revision inserted or a developer did by hand, and mappings of those.
InShape(r, d) ==
    /\ Fits(d, r, d.grants, d.perms, d.maps)
    /\ Sound(d) =>
         /\ Granted(r) \ Lost \subseteq d.grants /\ d.grants \subseteq Granted(r)
         /\ \A m \in d.maps : m[2] \in d.perms
         /\ \A f \in d.perms : f \in HandFamilies \/ \E k \in 1..r : f \in Brings(k)

\* The rights, permissions and mappings of a schema are its own.
LEMMA FitsAsIs ==
    ASSUME NEW d, NEW r, NEW G, NEW P, NEW M, Fits(d, r, G, P, M)
    PROVE  /\ Fits(d, r, d.grants, d.perms, d.maps)
           /\ Sound(d) => d.grants = G /\ d.perms = P /\ d.maps = M
BY DEF Fits, Is

\* Every revision takes the shape of one revision to that of the next, and back.
LEMMA UpgradeShapes ==
    ASSUME NEW r \in 1..19, NEW d, InShape(r - 1, d), Sound(d)
    PROVE  InShape(r, Upgrade(r, d))
<1>. DEFINE next == Upgrade(r, d)
            G == d.grants
            P == d.perms
            M == d.maps
<1>1. /\ Granted(r - 1) \ Lost \subseteq G /\ G \subseteq Granted(r - 1)
      /\ \A m \in M : m[2] \in P
      /\ \A f \in P : f \in HandFamilies \/ \E k \in 1..(r - 1) : f \in Brings(k)
      /\ Fits(d, r - 1, G, P, M)
  BY DEF InShape
<1>. HIDE DEF G, P, M
<1>2. Fits(next, r, After(r, G), P \cup Brings(r), M \cup ({"admin"} \X Brings(r)))
  BY <1>1, UpgradeFits
<1>. HIDE DEF next
<1>3. /\ Fits(next, r, next.grants, next.perms, next.maps)
      /\ Sound(next) => /\ next.grants = After(r, G) /\ next.perms = P \cup Brings(r)
                        /\ next.maps = M \cup ({"admin"} \X Brings(r))
  BY <1>2, FitsAsIs
<1>4. Granted(r) \ Lost \subseteq After(r, G) /\ After(r, G) \subseteq Granted(r)
  <2>1. Granted(r) = After(r, Granted(r - 1))
    BY GrantedAre
  <2>2. /\ After(r, G) \subseteq After(r, Granted(r - 1))
        /\ After(r, Granted(r - 1)) \ (Granted(r - 1) \ G) \subseteq After(r, G)
    BY <1>1, AfterGrows
  <2>. QED
    BY <1>1, <2>1, <2>2
<1>5. \A m \in M \cup ({"admin"} \X Brings(r)) : m[2] \in P \cup Brings(r)
  BY <1>1
<1>6. \A f \in P \cup Brings(r) : f \in HandFamilies \/ \E k \in 1..r : f \in Brings(k)
  <2>1. 1..(r - 1) \subseteq 1..r /\ r \in 1..r
    OBVIOUS
  <2>. QED
    BY <1>1, <2>1
<1>. QED
  BY <1>3, <1>4, <1>5, <1>6 DEF InShape, next

LEMMA DowngradeShapes ==
    ASSUME NEW r \in 1..19, NEW d, InShape(r, d), Sound(d)
    PROVE  InShape(r - 1, Downgrade(r, d))
<1>. DEFINE next == Downgrade(r, d)
            G == d.grants
            P == d.perms
            M == d.maps
<1>1. /\ Granted(r) \ Lost \subseteq G /\ G \subseteq Granted(r)
      /\ \A m \in M : m[2] \in P
      /\ \A f \in P : f \in HandFamilies \/ \E k \in 1..r : f \in Brings(k)
      /\ Fits(d, r, G, P, M)
  BY DEF InShape
<1>. HIDE DEF G, P, M
<1>2. Fits(next, r - 1, Without(G, Created(r)), Left(r, P), MapsOf(M, Left(r, P)))
  BY <1>1, DowngradeFits
<1>. HIDE DEF next
<1>3. /\ Fits(next, r - 1, next.grants, next.perms, next.maps)
      /\ Sound(next) => /\ next.grants = Without(G, Created(r)) /\ next.perms = Left(r, P)
                        /\ next.maps = MapsOf(M, Left(r, P))
  BY <1>2, FitsAsIs
<1>4. Granted(r - 1) \ Lost \subseteq Without(G, Created(r)) /\ Without(G, Created(r)) \subseteq Granted(r - 1)
  <2>1. /\ Without(Granted(r), Created(r)) \subseteq Granted(r - 1)
        /\ Granted(r - 1) \ Lost \subseteq Without(Granted(r), Created(r))
    BY GrantedAre
  <2>. QED
    BY <1>1, <2>1 DEF Without
<1>5. \A m \in MapsOf(M, Left(r, P)) : m[2] \in Left(r, P)
  BY DEF MapsOf
<1>6. \A f \in Left(r, P) : f \in HandFamilies \/ \E k \in 1..(r - 1) : f \in Brings(k)
  <2>1. \A k \in 1..r : k = r \/ k \in 1..(r - 1)
    OBVIOUS
  <2>. QED
    BY <1>1, <2>1 DEF Left
<1>. QED
  BY <1>3, <1>4, <1>5, <1>6 DEF InShape, next

\* Rows are no part of the shape.
LEMMA ShapeStays ==
    ASSUME NEW d, NEW e, NEW r, InShape(r, d), SameSchema(d, e)
    PROVE  InShape(r, e)
<1>1. Fits(e, r, e.grants, e.perms, e.maps)
  BY DEF InShape, Fits, Is, SameSchema, Sound, Fit
<1>. QED
  BY <1>1 DEF InShape, SameSchema, Sound

LEMMA EmptyShape == InShape(0, Empty)
<1>1. Empty.refs = References(0, {})
  BY DEF Empty, References
<1>2. Granted(0) = {} /\ DOMAIN References(0, {}) = {}
  BY Tables0 DEF Granted, References
<1>3. Fits(Empty, 0, {}, {}, {})
  BY <1>1, <1>2, Tables0 DEF Fits, Is, Empty, Fields, Fit
<1>4. Empty.grants = {} /\ Empty.perms = {} /\ Empty.maps = {}
  BY DEF Empty
<1>. QED
  BY <1>2, <1>3, <1>4 DEF InShape

-----------------------------------------------------------------------------
\* The invariant of a database and of a run, and what follows from it.

\* The inductive invariant: the database and the run have the schema of their revision.
ShapeInv == InShape(db.rev, db) /\ InShape(work.rev, work)

LEMMA ShapeInit == Init => ShapeInv
BY EmptyIs, EmptyShape DEF Init, ShapeInv

\* The number in the version table is no part of the shape.
LEMMA RevisionIsNoShape ==
    ASSUME NEW d, DOMAIN d = Fields, NEW r
    PROVE  SameSchema(d, [d EXCEPT !.rev = r]) /\ [d EXCEPT !.rev = r].rev = r
BY DEF SameSchema, Fields

\* A revision of a run.
LEMMA ShapeStep == ASSUME KeptInv, ShapeInv, Step PROVE ShapeInv'
<1>1. /\ goal \in 0..19 /\ work.rev \in 0..19 /\ Sound(work) /\ DOMAIN work = Fields
      /\ UNCHANGED <<db, goal, env, ledger, writes>>
  BY StepIs
<1>2. InShape(db.rev, db) /\ InShape(work.rev, work)
  BY DEF ShapeInv
<1>3. CASE goal > work.rev
  <2>. DEFINE r == work.rev + 1
              next == Upgrade(r, work)
  <2>1. work' = [next EXCEPT !.rev = next.rev + 1] /\ r \in 1..19 /\ r - 1 = work.rev
    BY <1>1, <1>3, StepIs
  <2>2. DOMAIN next = Fields /\ next.rev = work.rev
    BY <1>1, <1>3, UpgradeKeeps DEF KeptInv
  <2>3. InShape(r - 1, work)
    BY <1>2, <2>1
  <2>. HIDE DEF r
  <2>4. InShape(r, next)
    BY <1>1, <2>1, <2>3, UpgradeShapes
  <2>. HIDE DEF next
  <2>5. SameSchema(next, work') /\ work'.rev = r
    BY <2>1, <2>2, RevisionIsNoShape DEF r
  <2>6. InShape(r, work')
    BY <2>4, <2>5, ShapeStays
  <2>. QED
    BY <1>1, <1>2, <2>5, <2>6 DEF ShapeInv
<1>4. CASE goal < work.rev
  <2>. DEFINE r == work.rev
              next == Downgrade(r, work)
  <2>1. work' = [next EXCEPT !.rev = next.rev - 1] /\ r \in 1..19
    BY <1>1, <1>4, StepIs
  <2>2. DOMAIN next = Fields /\ next.rev = r
    BY <1>1, <2>1, DowngradeKeeps DEF KeptInv
  <2>3. InShape(r, work)
    BY <1>2
  <2>. HIDE DEF r
  <2>4. InShape(r - 1, next)
    BY <1>1, <2>1, <2>3, DowngradeShapes
  <2>. HIDE DEF next
  <2>5. SameSchema(next, work') /\ work'.rev = r - 1
    BY <2>1, <2>2, RevisionIsNoShape
  <2>6. InShape(r - 1, work')
    BY <2>4, <2>5, ShapeStays
  <2>. QED
    BY <1>1, <1>2, <2>5, <2>6 DEF ShapeInv
<1>. QED
  BY <1>1, <1>3, <1>4, StepIs

\* The start and the end of a run.
LEMMA ShapeRun ==
    ASSUME ShapeInv, (\E t \in Targets, e \in {"local", "prod"} : Begin(t, e)) \/ Commit \/ Rollback
    PROVE  ShapeInv'
<1>1. CASE \E t \in Targets, e \in {"local", "prod"} : Begin(t, e)
  BY <1>1 DEF Begin, ShapeInv
<1>2. InShape(Empty.rev, Empty)
  BY EmptyIs, EmptyShape
<1>3. CASE Commit
  BY <1>2, <1>3 DEF Commit, ShapeInv
<1>4. CASE Rollback
  BY <1>2, <1>4 DEF Rollback, ShapeInv
<1>. QED
  BY <1>1, <1>3, <1>4

\* A write between the runs.
LEMMA WriteShapes ==
    ASSUME ShapeInv, NEW d, Write(d), d.rev = db.rev, InShape(db.rev, d)
    PROVE  ShapeInv'
<1>1. UNCHANGED work /\ db' = d
  BY DEF Write
<1>. QED
  BY <1>1 DEF ShapeInv

LEMMA RowsShape ==
    ASSUME ShapeInv, NEW d, Write(d), d.rev = db.rev, SameSchema(db, d)
    PROVE  ShapeInv'
<1>1. InShape(db.rev, d)
  BY ShapeStays DEF ShapeInv
<1>. QED
  BY <1>1, WriteShapes

\* A permission by hand, and a mapping of one that is there.
LEMMA PermissionShapes ==
    ASSUME NEW d, NEW r, InShape(r, d), NEW f \in HandFamilies
    PROVE  InShape(r, [d EXCEPT !.perms = @ \cup {f}])
<1>. DEFINE e == [d EXCEPT !.perms = @ \cup {f}]
<1>1. DOMAIN d = Fields
  BY DEF InShape, Fits, Is
<1>2. /\ DOMAIN e = Fields /\ (Sound(e) <=> Sound(d)) /\ (Fit(e) <=> Fit(d))
      /\ e.refs = d.refs /\ e.keyed = d.keyed /\ e.rls = d.rls /\ e.named = d.named
      /\ e.grants = d.grants /\ e.maps = d.maps /\ e.perms = d.perms \cup {f}
  BY <1>1 DEF Sound, Fit, Fields
<1>. HIDE DEF e
<1>3. Fits(e, r, e.grants, e.perms, e.maps)
  BY <1>2 DEF InShape, Fits, Is
<1>4. InShape(r, e)
  BY <1>2, <1>3 DEF InShape
<1>. QED
  BY <1>4 DEF e

LEMMA MappingShapes ==
    ASSUME NEW d, NEW r, InShape(r, d), NEW f \in d.perms
    PROVE  InShape(r, [d EXCEPT !.maps = @ \cup {<<"other", f>>}])
<1>. DEFINE e == [d EXCEPT !.maps = @ \cup {<<"other", f>>}]
<1>1. DOMAIN d = Fields
  BY DEF InShape, Fits, Is
<1>2. /\ DOMAIN e = Fields /\ (Sound(e) <=> Sound(d)) /\ (Fit(e) <=> Fit(d))
      /\ e.refs = d.refs /\ e.keyed = d.keyed /\ e.rls = d.rls /\ e.named = d.named
      /\ e.grants = d.grants /\ e.perms = d.perms /\ e.maps = d.maps \cup {<<"other", f>>}
  BY <1>1 DEF Sound, Fit, Fields
<1>. HIDE DEF e
<1>3. Fits(e, r, e.grants, e.perms, e.maps)
  BY <1>2 DEF InShape, Fits, Is
<1>4. InShape(r, e)
  BY <1>2, <1>3 DEF InShape
<1>. QED
  BY <1>4 DEF e

\* The writes of the program, and of people.
LEMMA ShapeCustomers ==
    ASSUME KeptInv, ShapeInv,
           \/ \E i \in Ids, t \in Tenants, c \in Codes : CreateCustomer(i, t, c) \/ CreateSupplier(i, t, c)
           \/ \E c \in ledger : SoftDeleteCustomer(c)
    PROVE  ShapeInv'
<1>1. PICK customers, partners, roles :
         \/ Write([db EXCEPT !.customers = customers])
         \/ Write([db EXCEPT !.partners = partners, !.roles = roles])
  BY RowsWritten
<1>. DEFINE c == [db EXCEPT !.customers = customers]
            p == [db EXCEPT !.partners = partners, !.roles = roles]
<1>2. /\ c.rev = db.rev /\ SameSchema(db, c)
      /\ p.rev = db.rev /\ SameSchema(db, p)
  BY DEF KeptInv, Fields, SameSchema
<1>3. Write(c) \/ Write(p)
  BY <1>1
<1>. HIDE DEF c, p
<1>. QED
  BY <1>2, <1>3, RowsShape

LEMMA ShapeOthers ==
    ASSUME KeptInv, ShapeInv,
           \/ \E p \in Customers, s \in Senders, x \in Exts, l \in Logs \cup {None} : CreateOrder(p, s, x, l)
           \/ \E p \in Customers, s \in Senders, x \in Exts : ReceiveDocument(p, s, x)
           \/ \E f \in HandFamilies : RegisterPermission(f) \/ MapPermission(f)
    PROVE  ShapeInv'
<1>0. DOMAIN db = Fields /\ InShape(db.rev, db)
  BY DEF KeptInv, ShapeInv
<1>1. ASSUME NEW p \in Customers, NEW s \in Senders, NEW x \in Exts, NEW l \in Logs \cup {None},
             CreateOrder(p, s, x, l)
      PROVE  ShapeInv'
  <2>1. PICK orders : Write([db EXCEPT !.orders = orders])
    BY <1>1, Zenon DEF CreateOrder
  <2>. DEFINE d == [db EXCEPT !.orders = orders]
  <2>2. d.rev = db.rev /\ SameSchema(db, d)
    BY <1>0 DEF Fields, SameSchema
  <2>. HIDE DEF d
  <2>. QED
    BY <2>1, <2>2, RowsShape DEF d
<1>2. ASSUME NEW p \in Customers, NEW s \in Senders, NEW x \in Exts, ReceiveDocument(p, s, x)
      PROVE  ShapeInv'
  <2>1. PICK orders, messages : Write([db EXCEPT !.messages = messages, !.orders = orders])
    BY <1>2, Zenon DEF ReceiveDocument
  <2>. DEFINE d == [db EXCEPT !.messages = messages, !.orders = orders]
  <2>2. d.rev = db.rev /\ SameSchema(db, d)
    BY <1>0 DEF Fields, SameSchema
  <2>. HIDE DEF d
  <2>. QED
    BY <2>1, <2>2, RowsShape DEF d
<1>3. ASSUME NEW f \in HandFamilies, RegisterPermission(f) PROVE ShapeInv'
  <2>. DEFINE d == [db EXCEPT !.perms = @ \cup {f}]
  <2>1. Write(d)
    BY <1>3 DEF RegisterPermission
  <2>2. InShape(db.rev, d) /\ d.rev = db.rev
    BY <1>0, PermissionShapes DEF Fields
  <2>. HIDE DEF d
  <2>. QED
    BY <2>1, <2>2, WriteShapes
<1>4. ASSUME NEW f \in HandFamilies, MapPermission(f) PROVE ShapeInv'
  <2>. DEFINE d == [db EXCEPT !.maps = @ \cup {<<"other", f>>}]
  <2>1. Write(d) /\ f \in db.perms
    BY <1>4 DEF MapPermission
  <2>2. InShape(db.rev, d) /\ d.rev = db.rev
    BY <1>0, <2>1, MappingShapes DEF Fields
  <2>. HIDE DEF d
  <2>. QED
    BY <2>1, <2>2, WriteShapes
<1>. QED
  BY <1>1, <1>2, <1>3, <1>4

\* Whatever way a database was led through the revisions, its schema is that of its revision.
LEMMA ShapeAlways == Spec => []ShapeInv
<1>1. ASSUME KeptInv, ShapeInv, [Next]_vars PROVE ShapeInv'
  <2>1. CASE \E t \in Targets, e \in {"local", "prod"} : Begin(t, e)
    BY <1>1, <2>1, ShapeRun
  <2>2. CASE Step
    BY <1>1, <2>2, ShapeStep
  <2>3. CASE Commit \/ Rollback
    BY <1>1, <2>3, ShapeRun
  <2>4. CASE \/ \E i \in Ids, t \in Tenants, c \in Codes : CreateCustomer(i, t, c) \/ CreateSupplier(i, t, c)
             \/ \E c \in ledger : SoftDeleteCustomer(c)
    BY <1>1, <2>4, ShapeCustomers
  <2>5. CASE \/ \E p \in Customers, s \in Senders, x \in Exts :
                   (\E l \in Logs \cup {None} : CreateOrder(p, s, x, l)) \/ ReceiveDocument(p, s, x)
             \/ \E f \in HandFamilies : RegisterPermission(f) \/ MapPermission(f)
    BY <1>1, <2>5, ShapeOthers
  <2>6. CASE UNCHANGED vars
    BY <1>1, <2>6 DEF vars, ShapeInv
  <2>. QED
    BY <1>1, <2>1, <2>2, <2>3, <2>4, <2>5, <2>6, Zenon DEF Next
<1>. QED
  BY <1>1, ShapeInit, KeptAlways, PTL DEF Spec

\* No statement of any revision ever meets a schema that it was not written for: each
\* creates what is not there, drops what is there and nothing refers to, alters what is
\* there (env.py runs them in one transaction, whatever the database went through before).
THEOREM RevisionsFitTheirSchema == Spec => []SchemaStepsFit
<1>1. ShapeInv => SchemaStepsFit
  BY DEF ShapeInv, InShape, Fits, Is, Fit, SchemaStepsFit
<1>. QED
  BY <1>1, ShapeAlways, PTL

\* The catalogue of rights has what the program needs, none that an append-only table must
\* refuse, and a tenant key comes with row-level security.
LEMMA RightsSuffice == Needs \subseteq Granted(19) \ Lost
<1>1. Needs \subseteq Rights
  BY DEF Needs, Rights, ReadOnly, Append2, Write3, All4, IamTables, Assignments, PoTables, PoTable,
         AuditTables, SupplierTables, ProductTables
<1>2. \A g \in Needs : g[1] \in AllTables \ {"customers"}
  BY DEF Needs, AllTables, IamTables, Assignments, PartnerTables, TokenTables, AuditTables,
         PoTables, PoTable, SupplierTables, ProductTables, EdiTables
<1>3. \A t \in AllTables : Since(t) <= 19
  BY DEF Since
<1>4. \A t \in AllTables \ {"customers"} : t \in Tables(19)
  BY <1>3 DEF Tables
<1>5. \A g \in Needs : g \notin Lost
  BY <1>2 DEF Lost
<1>. QED
  BY <1>1, <1>2, <1>4, <1>5 DEF Granted

LEMMA AppendOnlyRights == Rights \cap (AppendOnly \X {"UPDATE", "DELETE"}) = {}
BY DEF Rights, AppendOnly, ReadOnly, Append2, Write3, All4, IamTables, Assignments, PoTables, PoTable,
       AuditTables, SupplierTables, ProductTables

LEMMA KeysAreSecured ==
    \A r \in 2..19 : (WithKey \cap Tables(r)) \ {"groups", "profiles", "policies", "audit_logs"}
                        \subseteq Secured \cap Tables(r)
<1>1. WithKey \ {"groups", "profiles", "policies", "audit_logs", "customers"} \subseteq Secured
  BY DEF WithKey, WithTenant, Secured, PartnerTables, AuditTables, PoTables, PoTable, SupplierTables,
         ProductTables, EdiTables
<1>2. \A r \in 2..19 : "customers" \notin Tables(r)
  BY DEF Tables
<1>. QED
  BY <1>1, <1>2

\* At the last revision app_runtime may do what the program does; it may never change what
\* is append-only; every table of business data with a tenant key has row-level security
\* from 0002 on.
THEOREM RuntimeAlwaysConfined == Spec => []RuntimeIsConfined
<1>1. ASSUME KeptInv, ShapeInv PROVE RuntimeIsConfined
  <2>1. /\ db.rev \in 0..19 /\ Sound(db) /\ InShape(db.rev, db)
    BY <1>1 DEF KeptInv, ShapeInv
  <2>2. /\ Granted(db.rev) \ Lost \subseteq db.grants /\ db.grants \subseteq Granted(db.rev)
        /\ db.keyed = WithKey \cap DOMAIN References(db.rev, Tables(db.rev))
        /\ db.rls = Secured \cap Tables(db.rev)
    BY <2>1 DEF InShape, Fits, Is
  <2>3. db.rev = 19 => Needs \subseteq db.grants
    BY <2>2, RightsSuffice
  <2>4. db.grants \cap (AppendOnly \X {"UPDATE", "DELETE"}) = {}
    BY <2>2, AppendOnlyRights DEF Granted
  <2>5. DOMAIN References(db.rev, Tables(db.rev)) = Tables(db.rev)
    BY DEF References
  <2>6. db.rev >= 2 => db.keyed \ {"groups", "profiles", "policies", "audit_logs"} \subseteq db.rls
    BY <2>1, <2>2, <2>5, KeysAreSecured
  <2>. QED
    BY <2>3, <2>4, <2>6 DEF RuntimeIsConfined
<1>. QED
  BY <1>1, KeptAlways, ShapeAlways, PTL

\* No two revisions insert the same permissions.
LEMMA BringsOnce ==
    \A r \in 1..19 : \A k \in 1..(r - 1) : Brings(r) \cap Brings(k) = {}
BY DEF Brings

\* One revision forth and back.
LEMMA ForthAndBack ==
    ASSUME NEW r \in 1..19, NEW d, InShape(r - 1, d), Sound(d), Sound(Downgrade(r, Upgrade(r, d)))
    PROVE  /\ Downgrade(r, Upgrade(r, d)).refs = d.refs
           /\ Downgrade(r, Upgrade(r, d)).keyed = d.keyed
           /\ Downgrade(r, Upgrade(r, d)).rls = d.rls
           /\ Downgrade(r, Upgrade(r, d)).named = d.named
           /\ Downgrade(r, Upgrade(r, d)).grants = Without(After(r, d.grants), Created(r))
           /\ Downgrade(r, Upgrade(r, d)).perms = Left(r, d.perms \cup Brings(r))
           /\ Downgrade(r, Upgrade(r, d)).maps =
                MapsOf(d.maps \cup ({"admin"} \X Brings(r)), Left(r, d.perms \cup Brings(r)))
<1>. DEFINE G == After(r, d.grants)
            P == d.perms \cup Brings(r)
            M == d.maps \cup ({"admin"} \X Brings(r))
            up == Upgrade(r, d)
            back == Downgrade(r, up)
<1>1. /\ Fits(d, r - 1, d.grants, d.perms, d.maps) /\ d.grants \subseteq Granted(r - 1)
      /\ \A m \in d.maps : m[2] \in d.perms
  BY DEF InShape
<1>2. Fits(up, r, G, P, M)
  BY <1>1, UpgradeFits
<1>3. \A m \in M : m[2] \in P
  BY <1>1
<1>. HIDE DEF G, P, M, up
<1>4. Fits(back, r - 1, Without(G, Created(r)), Left(r, P), MapsOf(M, Left(r, P)))
  BY <1>2, <1>3, DowngradeFits
<1>5. Sound(back)
  BY DEF up
<1>. HIDE DEF back
<1>6. /\ back.refs = d.refs /\ back.keyed = d.keyed /\ back.rls = d.rls /\ back.named = d.named
      /\ back.grants = Without(G, Created(r)) /\ back.perms = Left(r, P)
      /\ back.maps = MapsOf(M, Left(r, P))
  BY <1>1, <1>4, <1>5 DEF Fits, Is
<1>. QED
  BY <1>6 DEF back, up, G, P, M

\* What a downgrade after its upgrade leaves of rights, permissions and mappings.
LEMMA RightsComeBack ==
    ASSUME NEW r \in 1..19, NEW G, G \subseteq Granted(r - 1)
    PROVE  /\ Without(After(r, G), Created(r)) \subseteq G
           /\ G \ Without(After(r, G), Created(r)) \subseteq Lost
<1>1. /\ \A g \in Given(r) : g[1] \in Created(r)
      /\ \A g \in Granted(r - 1) : g[1] \notin Created(r) /\ (g[1] \in Gone(r) => g \in Lost)
  BY GrantedAre
<1>. QED
  BY <1>1 DEF Without, After

LEMMA FamiliesComeBack ==
    ASSUME NEW r \in 1..19, NEW P, NEW M, \A m \in M : m[2] \in P,
           \A f \in P : f \in HandFamilies \/ \E k \in 1..(r - 1) : f \in Brings(k)
    PROVE  /\ Left(r, P \cup Brings(r)) \subseteq P
           /\ P \ Left(r, P \cup Brings(r)) \subseteq HandFamilies
           /\ MapsOf(M \cup ({"admin"} \X Brings(r)), Left(r, P \cup Brings(r)))
                = {m \in M : m[2] \in Left(r, P \cup Brings(r))}
<1>. DEFINE left == Left(r, P \cup Brings(r))
<1>1. left \subseteq P /\ \A f \in left : f \notin Brings(r)
  BY DEF Left
<1>2. ASSUME NEW f \in P \ left PROVE f \in HandFamilies
  <2>1. CASE r = 1
    BY <2>1
  <2>2. CASE r # 1
    <3>1. f \in Brings(r)
      BY <2>2 DEF Left
    <3>. QED
      BY <3>1, BringsOnce
  <2>. QED
    BY <2>1, <2>2
<1>. HIDE DEF left
<1>3. MapsOf(M \cup ({"admin"} \X Brings(r)), left) = {m \in M : m[2] \in left}
  BY <1>1 DEF MapsOf
<1>. QED
  BY <1>1, <1>2, <1>3 DEF left

\* A downgrade that goes through after its upgrade leaves the schema that the upgrade found,
\* but for the rights on the customers and for permissions that were registered by hand.
THEOREM DowngradesUndo == Spec => []DowngradeUndoes
<1>1. ASSUME KeptInv, ShapeInv PROVE DowngradeUndoes
  <2>. DEFINE r == work.rev + 1
              up == Upgrade(r, work)
              back == Downgrade(r, up)
  <2>. SUFFICES ASSUME goal # Idle, work.rev < 19, Sound(work), Sound(back)
                PROVE  /\ back.refs = work.refs /\ back.keyed = work.keyed
                       /\ back.rls = work.rls /\ back.named = work.named
                       /\ back.grants \subseteq work.grants
                       /\ work.grants \ back.grants \subseteq {"customers"} \X Write3
                       /\ back.perms \subseteq work.perms /\ work.perms \ back.perms \subseteq HandFamilies
                       /\ back.maps = {m \in work.maps : m[2] \in back.perms}
    BY DEF DowngradeUndoes
  <2>1. work.rev \in 0..19 /\ InShape(work.rev, work)
    BY <1>1 DEF KeptInv, ShapeInv
  <2>2. r \in 1..19 /\ r - 1 = work.rev /\ InShape(r - 1, work)
    BY <2>1
  <2>. HIDE DEF r
  <2>3. /\ back.refs = work.refs /\ back.keyed = work.keyed
        /\ back.rls = work.rls /\ back.named = work.named
        /\ back.grants = Without(After(r, work.grants), Created(r))
        /\ back.perms = Left(r, work.perms \cup Brings(r))
        /\ back.maps = MapsOf(work.maps \cup ({"admin"} \X Brings(r)), Left(r, work.perms \cup Brings(r)))
    BY <2>2, ForthAndBack
  <2>. HIDE DEF back
  <2>4. /\ work.grants \subseteq Granted(r - 1)
        /\ \A m \in work.maps : m[2] \in work.perms
        /\ \A f \in work.perms : f \in HandFamilies \/ \E k \in 1..(r - 1) : f \in Brings(k)
    BY <2>2 DEF InShape
  <2>5. back.grants \subseteq work.grants /\ work.grants \ back.grants \subseteq Lost
    BY <2>2, <2>3, <2>4, RightsComeBack
  <2>6. /\ back.perms \subseteq work.perms /\ work.perms \ back.perms \subseteq HandFamilies
        /\ back.maps = {m \in work.maps : m[2] \in back.perms}
    <3>. DEFINE P == work.perms
                M == work.maps
    <3>1. r \in 1..19 /\ (\A m \in M : m[2] \in P)
          /\ \A f \in P : f \in HandFamilies \/ \E k \in 1..(r - 1) : f \in Brings(k)
      BY <2>2, <2>4
    <3>. HIDE DEF P, M
    <3>2. /\ Left(r, P \cup Brings(r)) \subseteq P
          /\ P \ Left(r, P \cup Brings(r)) \subseteq HandFamilies
          /\ MapsOf(M \cup ({"admin"} \X Brings(r)), Left(r, P \cup Brings(r)))
               = {m \in M : m[2] \in Left(r, P \cup Brings(r))}
      BY <3>1, FamiliesComeBack
    <3>. QED
      BY <2>3, <3>2 DEF P, M
  <2>. QED
    BY <2>3, <2>5, <2>6 DEF Lost
<1>. QED
  BY <1>1, KeptAlways, ShapeAlways, PTL
=============================================================================
