--------------------------- MODULE ReportsProofs ----------------------------
(***************************************************************************)
(* What Iam and Reports guarantee for any roles, groups and policies, and  *)
(* for any number of administrators' changes.                              *)
(***************************************************************************)
EXTENDS Reports, FiniteSetTheorems, TLAPS

\* Among scopes there is a highest one.
LEMMA HighestScope ==
    ASSUME NEW S \in SUBSET Scopes, S # {}
    PROVE  \E s \in S : \A t \in S : Rank[t] <= Rank[s]
<1>1. CASE "ALL" \in S
  BY <1>1 DEF Scopes, Rank
<1>2. CASE "ALL" \notin S /\ "TEAM" \in S
  BY <1>2 DEF Scopes, Rank
<1>3. CASE "ALL" \notin S /\ "TEAM" \notin S /\ "ASSIGNED" \in S
  BY <1>3 DEF Scopes, Rank
<1>4. CASE "ALL" \notin S /\ "TEAM" \notin S /\ "ASSIGNED" \notin S /\ "OWN" \in S
  BY <1>4 DEF Scopes, Rank
<1>5. CASE S = {"NONE"}
  BY <1>5 DEF Rank
<1> QED
  BY <1>1, <1>2, <1>3, <1>4, <1>5 DEF Scopes

\* The scope of a resolved permission is that of one of the ALLOWs, and none is higher;
\* there is an ALLOW, and no DENY.
LEMMA ResolveIsFair ==
    ASSUME NEW had \in SUBSET Grant, Resolve(had).allowed
    PROVE  /\ \A g \in had : g.effect # "DENY"
           /\ \E g \in had : g = [effect |-> "ALLOW", scope |-> Resolve(had).scope]
           /\ \A g \in had : Rank[g.scope] <= Rank[Resolve(had).scope]
           /\ Resolve(had).scope \in Scopes
<1> DEFINE allows == {g \in had : g.effect = "ALLOW"}
<1> DEFINE scopes == {g.scope : g \in allows}
<1> DEFINE highest == CHOOSE s \in scopes : \A g \in allows : Rank[g.scope] <= Rank[s]
<1>1. allows # {} /\ \A g \in had : g.effect # "DENY"
  BY DEF Resolve, Denied
<1>2. Resolve(had) = [allowed |-> TRUE, scope |-> highest]
  BY <1>1 DEF Resolve
<1>3. allows = had /\ scopes \in SUBSET Scopes /\ scopes # {}
  BY <1>1 DEF Grant
<1>4. \E s \in scopes : \A t \in scopes : Rank[t] <= Rank[s]
  BY <1>3, HighestScope
<1>5. \E s \in scopes : \A g \in allows : Rank[g.scope] <= Rank[s]
  BY <1>4
<1>6. highest \in scopes /\ \A g \in allows : Rank[g.scope] <= Rank[highest]
  BY <1>5
<1>7. PICK g \in allows : g.scope = highest
  BY <1>6
<1>8. g = [effect |-> "ALLOW", scope |-> highest]
  BY <1>7 DEF Grant
<1> QED
  BY <1>1, <1>2, <1>3, <1>6, <1>8

\* The three joins of get_permission_grants find the rules of the policies that the user
\* has, and nothing else.
LEMMA GrantsAreThoseHad ==
    ASSUME IamTypeOK
    PROVE  RoleGrants \cup GroupGrants \cup DirectGrants
             = {rule[p] : p \in {q \in Policies : Has(q)}} \ {NoRule}
<1> DEFINE had == RoleGrants \cup GroupGrants \cup DirectGrants
<1>1. ASSUME NEW g \in had
      PROVE  g # NoRule /\ \E p \in Policies : Has(p) /\ rule[p] = g
  <2>1. \E s \in ((member \cap Roles) \ gone) \cup ((member \cap Home) \ gone) \cup {Direct} : g \in Rules(s)
    BY <1>1 DEF RoleGrants, GroupGrants, DirectGrants
  <2>2. PICK s \in (member \cup {Direct}) \ (gone \cup (Groups \ Home)) : g \in Rules(s)
    BY <2>1, SourcesAssumption DEF IamTypeOK
  <2> QED
    BY <2>2 DEF Rules, Has
<1>2. ASSUME NEW p \in Policies, Has(p), rule[p] # NoRule
      PROVE  rule[p] \in had
  <2>1. PICK s \in (member \cup {Direct}) \ (gone \cup (Groups \ Home)) : <<s, p>> \in attached
    BY <1>2 DEF Has
  <2>2. rule[p] \in Rules(s)
    BY <1>2, <2>1 DEF Rules, Has
  <2>3. s \in ((member \cap Roles) \ gone) \cup ((member \cap Home) \ gone) \cup {Direct}
    BY <2>1, HomeAssumption DEF IamTypeOK
  <2> QED
    BY <2>2, <2>3 DEF RoleGrants, GroupGrants, DirectGrants
<1> QED
  BY <1>1, <1>2

\* Whoever is allowed something is entitled to it, and to the very scope, by the rules of
\* the documentation.
THEOREM AllowedIsEntitled ==
    ASSUME IamTypeOK, Permission.allowed
    PROVE  Permission.scope \in Scopes /\ Entitled(Permission.scope)
<1> DEFINE had == RoleGrants \cup GroupGrants \cup DirectGrants
<1>1. had = {rule[p] : p \in {q \in Policies : Has(q)}} \ {NoRule}
  BY GrantsAreThoseHad
<1>2. had \in SUBSET Grant
  BY <1>1 DEF IamTypeOK
<1>3. /\ \A g \in had : g.effect # "DENY"
      /\ \E g \in had : g = [effect |-> "ALLOW", scope |-> Permission.scope]
      /\ \A g \in had : Rank[g.scope] <= Rank[Permission.scope]
      /\ Permission.scope \in Scopes
  <2> HIDE DEF had
  <2> QED
    BY <1>2, ResolveIsFair DEF Permission, had
<1>4. NoRule.effect = "NONE"
  BY DEF NoRule
<1> QED
  BY <1>1, <1>3, <1>4 DEF Entitled


-----------------------------------------------------------------------------
\* The rights of a request.

\* What `since` and the request hold, as far as it matters here.
Shape ==
    /\ since \in [changed : SUBSET Pos, active : BOOLEAN, scopes : SUBSET Scopes,
                  known : {since.known}, split : BOOLEAN]
    /\ reader \in [pc : Stages, kind : {"overview", "walk"}, scope : {reader.scope},
                   window : {reader.window}, page : {reader.page}, count : {reader.count}]

\* While it loads its rights, `since` knows whatever the user is entitled to; when it is
\* past a part of them, it was entitled to that part.
Loads ==
    reader.pc \in {"profile", "grants"} =>
        /\ {s \in Scopes : Entitled(s)} \subseteq since.scopes
        /\ active => since.active

PassedProfile == reader.pc = "grants" => since.active

Inv == IamTypeOK /\ Shape /\ Loads /\ PassedProfile /\ RightsWereHeld

\* The invariant holds before the first step.
LEMMA InvInit == Init => Inv
<1> SUFFICES ASSUME Init PROVE Inv
  OBVIOUS
<1>1. IamTypeOK
  BY RulesAssumption DEF Init, IamTypeOK
<1>2. Shape
  BY DEF Init, Now, Shape, InitReader, Stages, Panels
<1>3. reader.pc = "idle"
  BY DEF Init, InitReader
<1> QED
  BY <1>1, <1>2, <1>3 DEF Inv, Loads, PassedProfile, RightsWereHeld, Panels

\* The tables say what they said before if nobody writes them.
LEMMA EntitledStays ==
    ASSUME UNCHANGED tables
    PROVE  /\ IamTypeOK => IamTypeOK'
           /\ \A s \in Scopes : Entitled(s)' <=> Entitled(s)
<1> USE DEF tables
<1>1. IamTypeOK => IamTypeOK'
  BY DEF IamTypeOK
<1>2. \A p : Has(p)' <=> Has(p)
  BY DEF Has
<1>3. rule' = rule
  OBVIOUS
<1> QED
  BY <1>1, <1>2, <1>3 DEF Entitled

\* What administrators do keeps the permission tables typed.
LEMMA TablesStayTyped == IamTypeOK /\ Administrate => IamTypeOK'
<1> SUFFICES ASSUME IamTypeOK, Administrate PROVE IamTypeOK'
  OBVIOUS
<1>1. CASE SetActive
  BY <1>1 DEF SetActive, IamTypeOK
<1>2. CASE \E role \in SUBSET Roles : SetRole(role)
  BY <1>2 DEF SetRole, IamTypeOK
<1>3. CASE \E x \in Roles \cup Groups \cup Policies : SetDeleted(x)
  BY <1>3 DEF SetDeleted, IamTypeOK
<1>4. CASE \E p \in Policies, g \in Grants : SetRule(p, g)
  BY <1>4, RulesAssumption DEF SetRule, IamTypeOK
<1> QED
  BY <1>1, <1>2, <1>3, <1>4 DEF Administrate

\* Every step of the request and of others keeps it.
LEMMA InvStep == Inv /\ [Next]_vars => Inv'
<1> SUFFICES ASSUME Inv, [Next]_vars PROVE Inv'
  OBVIOUS
<1> USE DEF Inv
<1>1. ASSUME NEW window \in Windows, Begin(window) PROVE Inv'
  <2>1. IamTypeOK' /\ \A s \in Scopes : Entitled(s)' <=> Entitled(s)
    BY <1>1, EntitledStays DEF Begin
  <2>2. since' = Now /\ reader'.pc = "profile"
    BY <1>1 DEF Begin, Shape
  <2>3. Shape'
    <3>1. reader' \in [pc : Stages, kind : {"overview", "walk"}, scope : {reader'.scope},
                       window : {reader'.window}, page : {reader'.page},
                       count : {reader'.count}]
      BY <1>1 DEF Begin, Shape, Stages
    <3>2. since' \in [changed : SUBSET Pos, active : BOOLEAN, scopes : SUBSET Scopes,
                      known : {since'.known}, split : BOOLEAN]
      BY <2>2 DEF Now, IamTypeOK
    <3> QED
      BY <3>1, <3>2 DEF Shape
  <2>4. active' = active
    BY <1>1 DEF Begin, tables
  <2> QED
    BY <2>1, <2>2, <2>3, <2>4 DEF Loads, PassedProfile, RightsWereHeld, Now, Panels
<1>2. CASE LoadProfile
  <2>1. IamTypeOK' /\ \A s \in Scopes : Entitled(s)' <=> Entitled(s)
    BY <1>2, EntitledStays DEF LoadProfile
  <2>2. /\ since' = since /\ active' = active /\ reader.pc = "profile"
        /\ reader'.pc = IF active THEN "grants" ELSE "refused"
    BY <1>2 DEF LoadProfile, tables, Goes, Shape
  <2>3. Shape'
    BY <1>2 DEF LoadProfile, Goes, Shape, Stages
  <2> QED
    BY <2>1, <2>2, <2>3 DEF Loads, PassedProfile, RightsWereHeld, Panels
<1>3. CASE LoadGrants
  <2>1. IamTypeOK'
    BY <1>3, EntitledStays DEF LoadGrants
  <2>2. /\ since' = since /\ reader.pc = "grants"
        /\ reader'.scope = Permission.scope
        /\ reader'.pc \in {"refused", "count", "summary"}
        /\ reader'.pc # "refused" => Permission.allowed
    BY <1>3 DEF LoadGrants, Shape
  <2>3. Shape'
    BY <1>3, <2>2 DEF LoadGrants, Shape, Stages, Panels
  <2>4. Permission.allowed => Permission.scope \in since.scopes
    BY <2>2, AllowedIsEntitled DEF Loads
  <2>5. Loads' /\ PassedProfile'
    BY <2>2 DEF Loads, PassedProfile
  <2>6. RightsWereHeld'
    <3>1. since.active
      BY <2>2 DEF PassedProfile
    <3> QED
      BY <2>2, <2>4, <3>1 DEF RightsWereHeld, Panels
  <2> QED
    BY <2>1, <2>3, <2>5, <2>6
<1>4. ASSUME NEW p \in Panels, Statement(p) PROVE Inv'
  <2>1. IamTypeOK'
    BY <1>4, EntitledStays DEF Statement
  <2>2. /\ since' = since /\ reader.pc = p /\ reader'.scope = reader.scope
        /\ reader'.pc = After(p)
    BY <1>4 DEF Statement, Goes, Shape
  <2>3. After(p) \in Panels \cup {"answered"}
    BY DEF After, Panels
  <2>4. Shape'
    BY <1>4, <2>2, <2>3 DEF Statement, Goes, Shape, Stages
  <2> QED
    BY <2>1, <2>2, <2>3, <2>4 DEF Loads, PassedProfile, RightsWereHeld, Panels
<1>5. CASE CountEvents
  <2>1. IamTypeOK'
    BY <1>5, EntitledStays DEF CountEvents
  <2>2. /\ since'.active = since.active /\ since'.scopes = since.scopes
        /\ reader.pc = "count" /\ reader'.pc = "list" /\ reader'.scope = reader.scope
    BY <1>5 DEF CountEvents, Shape
  <2>3. Shape'
    BY <1>5 DEF CountEvents, Shape, Stages
  <2> QED
    BY <2>1, <2>2, <2>3 DEF Loads, PassedProfile, RightsWereHeld
<1>6. CASE ListEvents
  <2>1. IamTypeOK' /\ \A s \in Scopes : Entitled(s)' <=> Entitled(s)
    BY <1>6, EntitledStays DEF ListEvents
  <2>2. active' = active
    BY <1>6 DEF ListEvents, tables
  <2>3. CASE reader'.pc = "answered"
    <3>1. Shape'
      BY <1>6, <2>3 DEF ListEvents, Goes, Shape, Stages
    <3> QED
      BY <2>1, <2>3, <3>1 DEF Loads, PassedProfile, RightsWereHeld, Panels
  <2>4. CASE reader'.pc # "answered"
    <3>1. /\ since' = [Now EXCEPT !.known = since.known]
          /\ reader' = [reader EXCEPT !.pc = "profile", !.page = @ + 1]
      BY <1>6, <2>4 DEF ListEvents, Goes, Shape
    <3>2. Shape'
      BY <3>1 DEF Shape, Now, Stages, IamTypeOK
    <3>3. /\ reader'.pc = "profile" /\ since'.active = active
          /\ since'.scopes = {s \in Scopes : Entitled(s)}
      BY <3>1 DEF Now, Shape
    <3> QED
      BY <2>1, <2>2, <3>2, <3>3 DEF Loads, PassedProfile, RightsWereHeld, Panels
  <2> QED
    BY <2>3, <2>4
<1>7. ASSUME NEW x \in Pos, NEW content \in Contents, ChangePo(x, content) PROVE Inv'
  <2>1. IamTypeOK'
    BY <1>7, EntitledStays DEF ChangePo
  <2>2. /\ since'.active = since.active /\ since'.scopes = since.scopes
        /\ reader.pc \in Panels /\ reader' = reader
    BY <1>7 DEF ChangePo, Shape
  <2>3. Shape'
    BY <1>7 DEF ChangePo, Shape
  <2> QED
    BY <2>1, <2>2, <2>3 DEF Loads, PassedProfile, RightsWereHeld, Panels
<1>8. ASSUME NEW event \in Event, AppendEvent(event) PROVE Inv'
  <2>1. IamTypeOK' /\ \A s \in Scopes : Entitled(s)' <=> Entitled(s)
    BY <1>8, EntitledStays DEF AppendEvent
  <2>2. /\ since'.active = since.active /\ since'.scopes = since.scopes
        /\ active' = active /\ reader' = reader
    BY <1>8 DEF AppendEvent, Shape, tables
  <2>3. Shape'
    <3>1. (since.split \/ reader.pc = "list") \in BOOLEAN
      OBVIOUS
    <3> QED
      BY <1>8, <3>1 DEF AppendEvent, Shape
  <2> QED
    BY <2>1, <2>2, <2>3 DEF Loads, PassedProfile, RightsWereHeld
<1>9. CASE ChangeRights
  <2>1. IamTypeOK'
    BY <1>9, TablesStayTyped DEF ChangeRights
  <2>2. /\ reader' = reader /\ reader.pc \in {"profile", "grants"}
        /\ since'.active = (since.active \/ active')
        /\ since'.scopes = since.scopes \cup {s \in Scopes : Entitled(s)'}
    BY <1>9 DEF ChangeRights, Shape
  <2>3. Shape'
    BY <1>9 DEF ChangeRights, Shape
  <2> QED
    BY <2>1, <2>2, <2>3 DEF Loads, PassedProfile, RightsWereHeld, Panels
<1>10. CASE UNCHANGED vars
  <2>1. IamTypeOK' /\ \A s \in Scopes : Entitled(s)' <=> Entitled(s)
    BY <1>10, EntitledStays DEF vars
  <2>2. active' = active /\ since' = since /\ reader' = reader
    BY <1>10 DEF vars, tables
  <2> QED
    BY <2>1, <2>2 DEF Shape, Loads, PassedProfile, RightsWereHeld
<1> QED
  BY <1>1, <1>2, <1>3, <1>4, <1>5, <1>6, <1>7, <1>8, <1>9, <1>10 DEF Next

\* Whatever administrators do between the statements of a request, and whatever the groups,
\* roles and policies are: it reads with rights that its user had since it began.
THEOREM RightsAreHeld == Spec => []RightsWereHeld
<1>1. Inv => RightsWereHeld
  BY DEF Inv
<1> QED
  BY <1>1, InvInit, InvStep, PTL DEF Spec

-----------------------------------------------------------------------------
\* Types.

\* An answer has its panels and its page; a history is finite.
Forms ==
    /\ answer \in [Panels \cup {"shown"} -> {answer[p] : p \in Panels \cup {"shown"}}]
    /\ IsFiniteSet(events)

Typed == TypeOK /\ Forms

\* A statement gives pairs of a key and a PO.
LEMMA PanelsAreOfPos ==
    ASSUME NEW p \in Panels, NEW entry \in Panel(p)
    PROVE  entry[2] \in Pos
<1>1. \A scope, window : Base(scope, window) \subseteq Pos
  BY DEF Base
<1>2. ASSUME NEW pos \in SUBSET Pos
      PROVE  /\ \A e \in Summary(pos) : e[2] \in Pos
             /\ \A e \in Products(pos) : e[2] \in Pos
             /\ \A window : \A e \in Trend(pos, window) : e[2] \in Pos
             /\ \A column : \A e \in Dimension(column, pos) : e[2] \in Pos
  <2>1. \A e \in Summary(pos) : e[2] \in Pos
    BY DEF Summary
  <2>2. \A e \in Products(pos) : e[2] \in Pos
    BY DEF Products
  <2>3. \A window : \A e \in Trend(pos, window) : e[2] \in Pos
    BY DEF Trend, Keyed
  <2>4. \A column : \A e \in Dimension(column, pos) : e[2] \in Pos
    BY DEF Dimension, Keyed
  <2> QED
    BY <2>1, <2>2, <2>3, <2>4
<1> QED
  BY <1>1, <1>2 DEF Panel, Panels

\* The histories to start from are finite sets of events.
LEMMA HistoriesAreFinite ==
    ASSUME NEW h \in Histories
    PROVE  IsFiniteSet(h) /\ h \subseteq Event
<1>1. PICK m \in Moments, n \in 0..MaxEvents : h = {[at |-> m, id |-> i] : i \in 1..n}
  BY DEF Histories
<1>2. n \in Nat /\ 1..n \subseteq 1..MaxEvents
  BY BoundsAssumption
<1>3. h \subseteq Event
  BY <1>1, <1>2 DEF Event
<1> DEFINE f == [i \in 1..n |-> [at |-> m, id |-> i]]
<1>4. f \in Surjection(1..n, h)
  BY <1>1 DEF Surjection
<1>5. IsFiniteSet(1..n)
  BY <1>2, FS_Interval
<1> QED
  BY <1>3, <1>4, <1>5, FS_Surjection

\* Types hold before the first step.
LEMMA TypedInit == Init => Typed
<1> SUFFICES ASSUME Init PROVE Typed
  OBVIOUS
<1>1. IamTypeOK
  BY InvInit DEF Inv
<1>2. NoPo \in Po
  BY DEF NoPo, Po, PoStatus!Statuses, PoStatus!Sources
<1>3. po \in [Pos -> Po]
  BY <1>2, ContentsAssumption DEF Init
<1>4. events \subseteq Event /\ IsFiniteSet(events)
  BY HistoriesAreFinite, FS_EmptySet DEF Init
<1>5. reader \in Reader
  BY WindowsAssumption DEF Init, InitReader, Reader, Stages, Scopes
<1>6. grants \in 0..MaxGrants
  BY BoundsAssumption DEF Init
<1>7. answer.shown = {} /\ (\A p \in Panels : answer[p] = {}) /\ Forms
  BY <1>4 DEF Init, Forms
<1> QED
  BY <1>1, <1>3, <1>4, <1>5, <1>6, <1>7 DEF Typed, TypeOK

\* Whatever the grants are, what they resolve to has a scope.
LEMMA PermissionHasScope ==
    ASSUME IamTypeOK
    PROVE  Permission.scope \in Scopes
<1>1. CASE Permission.allowed
  BY <1>1, AllowedIsEntitled
<1>2. CASE ~Permission.allowed
  BY <1>2 DEF Permission, Resolve, Denied, Scopes
<1> QED
  BY <1>1, <1>2

\* Every step keeps the types.
LEMMA TypedStep == Inv /\ Typed /\ [Next]_vars => Typed'
<1> SUFFICES ASSUME Inv, Typed, [Next]_vars PROVE Typed'
  OBVIOUS
<1>0. IamTypeOK'
  BY InvStep DEF Inv
<1> USE DEF Typed
<1>1. ASSUME NEW window \in Windows, Begin(window) PROVE Typed'
  <2>1. reader' \in Reader
    BY <1>1 DEF Begin, TypeOK, Reader, Stages
  <2> QED
    BY <1>0, <1>1, <2>1 DEF Begin, TypeOK, Forms
<1>2. CASE LoadProfile
  <2>1. reader' \in Reader
    BY <1>2 DEF LoadProfile, Goes, TypeOK, Reader, Stages
  <2> QED
    BY <1>0, <1>2, <2>1 DEF LoadProfile, TypeOK, Forms
<1>3. CASE LoadGrants
  <2>1. Permission.scope \in Scopes
    BY PermissionHasScope DEF TypeOK
  <2>2. reader' \in Reader
    BY <1>3, <2>1 DEF LoadGrants, TypeOK, Reader, Stages, Panels
  <2> QED
    BY <1>0, <1>3, <2>2 DEF LoadGrants, TypeOK, Forms
<1>4. ASSUME NEW p \in Panels, Statement(p) PROVE Typed'
  <2>1. After(p) \in Stages
    BY DEF After, Panels, Stages
  <2>2. reader' \in Reader
    BY <1>4, <2>1 DEF Statement, Goes, TypeOK, Reader
  <2>3. answer' = [answer EXCEPT ![p] = Panel(p)] /\ p # "shown"
    BY <1>4 DEF Statement, Panels
  <2>4. /\ answer'.shown = answer.shown
        /\ \A q \in Panels : answer'[q] = IF q = p THEN Panel(p) ELSE answer[q]
        /\ answer' \in [Panels \cup {"shown"} -> {answer'[q] : q \in Panels \cup {"shown"}}]
    BY <2>3 DEF Forms
  <2>5. \A q \in Panels : \A entry \in answer'[q] : entry[2] \in Pos
    BY <2>4, PanelsAreOfPos DEF TypeOK
  <2> QED
    BY <1>0, <1>4, <2>2, <2>4, <2>5 DEF Statement, TypeOK, Forms
<1>5. CASE CountEvents
  <2>1. Cardinality(events) \in Nat
    BY FS_CardinalityType DEF Forms
  <2>2. reader' \in Reader
    BY <1>5, <2>1 DEF CountEvents, TypeOK, Reader, Stages
  <2> QED
    BY <1>0, <1>5, <2>2 DEF CountEvents, TypeOK, Forms
<1>6. CASE ListEvents
  <2>1. reader' \in Reader
    <3>1. CASE reader' = [reader EXCEPT !.pc = "answered"]
      BY <3>1 DEF TypeOK, Reader, Stages
    <3>2. CASE reader' = [reader EXCEPT !.pc = "profile", !.page = @ + 1]
      <4>1. reader \in Reader /\ reader.page + 1 \in Nat
        BY DEF TypeOK, Reader
      <4> DEFINE next == reader.page + 1
      <4>2. reader' = [reader EXCEPT !.pc = "profile", !.page = next] /\ next \in Nat
        BY <3>2, <4>1
      <4> HIDE DEF next
      <4> QED
        BY <4>1, <4>2 DEF Reader, Stages
    <3> QED
      BY <1>6, <3>1, <3>2 DEF ListEvents, Goes
  <2>2. answer' = [answer EXCEPT !.shown = @ \cup Page(reader.page)] /\ "shown" \notin Panels
    BY <1>6 DEF ListEvents, Panels
  <2>3. /\ answer'.shown = answer.shown \cup Page(reader.page)
        /\ \A q \in Panels : answer'[q] = answer[q]
        /\ answer' \in [Panels \cup {"shown"} -> {answer'[q] : q \in Panels \cup {"shown"}}]
    BY <2>2 DEF Forms
  <2>4. Page(reader.page) \subseteq events
    BY DEF Page
  <2> QED
    BY <1>0, <1>6, <2>1, <2>3, <2>4 DEF ListEvents, TypeOK, Forms
<1>7. ASSUME NEW x \in Pos, NEW content \in Contents, ChangePo(x, content) PROVE Typed'
  <2>1. po' \in [Pos -> Po]
    BY <1>7, ContentsAssumption DEF ChangePo, TypeOK
  <2> QED
    BY <1>0, <1>7, <2>1 DEF ChangePo, TypeOK, Forms
<1>8. ASSUME NEW event \in Event, AppendEvent(event) PROVE Typed'
  <2>1. IsFiniteSet(events')
    BY <1>8, FS_AddElement DEF AppendEvent, Forms
  <2> QED
    BY <1>0, <1>8, <2>1 DEF AppendEvent, TypeOK, Forms
<1>9. CASE ChangeRights
  BY <1>0, <1>9, BoundsAssumption DEF ChangeRights, TypeOK, Forms
<1>10. CASE UNCHANGED vars
  BY <1>0, <1>10 DEF vars, TypeOK, Forms
<1> QED
  BY <1>1, <1>2, <1>3, <1>4, <1>5, <1>6, <1>7, <1>8, <1>9, <1>10 DEF Next

\* Type correctness: the panels of an answer are of the tenant's POs, and the pages show
\* events that there are.
THEOREM ReportsTypeCorrect == Spec => []TypeOK
<1>1. Typed => TypeOK
  BY DEF Typed
<1> QED
  BY <1>1, InvInit, InvStep, TypedInit, TypedStep, PTL DEF Spec

-----------------------------------------------------------------------------
\* The panels of an overview.

\* The keys under which an answer has a PO.
KeysIn(entries, x) == {entry[1] : entry \in {e \in entries : e[2] = x}}

\* What a panel has to say of one PO, by the PO alone.
Counted(x, window) ==
    /\ po[x].there /\ ~po[x].deleted /\ po[x].date # None
    /\ Sees(reader.scope, FactsOf(x))
    /\ Within(po[x].date, window)
Figures(x) ==
    {"total"} \cup (IF po[x].status \in OpenStatuses THEN {"open"} ELSE {})
              \cup (IF po[x].status \in {"ON_HOLD", "CONVERTED", "CANCELLED"}
                    THEN {po[x].status} ELSE {})
Column(p, x) ==
    CASE p \in {"summary", "previous"} -> Figures(x)
      [] p = "trend" -> {Bucket(Granularity(reader.window), po[x].date)}
      [] p \in {"status", "source", "customer"} -> {po[x][p]}
      [] p = "products" -> po[x].lines
Period(p) == IF p = "previous" THEN PreviousWindow(reader.window) ELSE reader.window
Told(p, x) == IF Counted(x, Period(p)) THEN Column(p, x) ELSE {}

\* The statements that an overview is past.
Passed ==
    CASE reader.pc = "previous" -> {"summary"}
      [] reader.pc = "trend" -> {"summary", "previous"}
      [] reader.pc = "status" -> {"summary", "previous", "trend"}
      [] reader.pc = "source" -> {"summary", "previous", "trend", "status"}
      [] reader.pc = "customer" -> {"summary", "previous", "trend", "status", "source"}
      [] reader.pc = "products" -> Panels \ {"products"}
      [] reader.pc = "answered" -> Panels
      [] OTHER -> {}

\* A panel that is done tells of the POs unchanged since; the previous period is left out
\* when there is none.
PanelsTell ==
    reader.kind = "overview" =>
        /\ \A p \in Passed : \A x \in Pos \ since.changed :
              KeysIn(answer[p], x) =
                  IF p = "previous" /\ ~HasPrevious(reader.window) THEN {} ELSE Told(p, x)
        /\ reader.pc \in {"idle", "profile", "grants", "summary"} => answer["previous"] = {}
        /\ reader.pc = "previous" => HasPrevious(reader.window)
        /\ reader.pc \notin {"count", "list"}

\* The keys of a set of pairs.
LEMMA KeysOfPairs ==
    ASSUME NEW entries, NEW x, \A e \in entries : e = <<e[1], e[2]>>
    PROVE  \A key : key \in KeysIn(entries, x) <=> <<key, x>> \in entries
BY DEF KeysIn

\* A statement says of a PO what the PO alone tells.
LEMMA PanelIsLocal ==
    ASSUME NEW p \in Panels, NEW x \in Pos
    PROVE  KeysIn(Panel(p), x) = Told(p, x)
<1> DEFINE pos == Base(reader.scope, Period(p))
<1>1. x \in pos <=> Counted(x, Period(p))
  BY DEF Base, Counted
<1>2. KeysIn(Summary(pos), x) = IF x \in pos THEN Figures(x) ELSE {}
  <2> HIDE DEF pos
  <2> QED
    <3>1. \A e \in Summary(pos) : e = <<e[1], e[2]>>
      BY DEF Summary
    <3>2. \A key : <<key, x>> \in Summary(pos) <=> x \in pos /\ key \in Figures(x)
      BY DEF Summary, Figures
    <3>3. \A key : key \in KeysIn(Summary(pos), x) <=> <<key, x>> \in Summary(pos)
      BY <3>1, KeysOfPairs
    <3> QED
      BY <3>2, <3>3
<1>3. KeysIn(Trend(pos, reader.window), x) =
        IF x \in pos THEN {Bucket(Granularity(reader.window), po[x].date)} ELSE {}
  <2> HIDE DEF pos
  <2> QED
    <3>1. \A e \in Trend(pos, reader.window) : e = <<e[1], e[2]>>
      BY DEF Trend, Keyed
    <3>2. \A key : <<key, x>> \in Trend(pos, reader.window) <=> x \in pos /\ key \in {Bucket(Granularity(reader.window), po[x].date)}
      BY DEF Trend, Keyed
    <3> QED
      BY <3>1, <3>2, KeysOfPairs
<1>4. KeysIn(Dimension(p, pos), x) = IF x \in pos THEN {po[x][p]} ELSE {}
  <2> HIDE DEF pos
  <2> QED
    <3>1. \A e \in Dimension(p, pos) : e = <<e[1], e[2]>>
      BY DEF Dimension, Keyed
    <3>2. \A key : <<key, x>> \in Dimension(p, pos) <=> x \in pos /\ key \in {po[x][p]}
      BY DEF Dimension, Keyed
    <3> QED
      BY <3>1, <3>2, KeysOfPairs
<1>5. KeysIn(Products(pos), x) = IF x \in pos THEN po[x].lines ELSE {}
  <2> HIDE DEF pos
  <2> QED
    <3>1. \A e \in Products(pos) : e = <<e[1], e[2]>>
      BY DEF Products
    <3>2. \A key : <<key, x>> \in Products(pos) <=> x \in pos /\ key \in po[x].lines
      BY DEF Products
    <3> QED
      BY <3>1, <3>2, KeysOfPairs
<1>6. CASE p \in {"summary", "previous"}
  <2>1. Panel(p) = Summary(pos) /\ Column(p, x) = Figures(x)
    BY <1>6 DEF Panel, Period, Column
  <2> QED
    BY <1>1, <1>2, <2>1 DEF Told
<1>7. CASE p = "trend"
  <2>1. Panel(p) = Trend(pos, reader.window)
        /\ Column(p, x) = {Bucket(Granularity(reader.window), po[x].date)}
    BY <1>7 DEF Panel, Period, Column
  <2> QED
    BY <1>1, <1>3, <2>1 DEF Told
<1>8. CASE p \in {"status", "source", "customer"}
  <2>1. Panel(p) = Dimension(p, pos) /\ Column(p, x) = {po[x][p]}
    BY <1>8 DEF Panel, Period, Column
  <2> QED
    BY <1>1, <1>4, <2>1 DEF Told
<1>9. CASE p = "products"
  <2>1. Panel(p) = Products(pos) /\ Column(p, x) = po[x].lines
    BY <1>9 DEF Panel, Period, Column
  <2> QED
    BY <1>1, <1>5, <2>1 DEF Told
<1> QED
  BY <1>6, <1>7, <1>8, <1>9 DEF Panels

\* What a PO tells stays while the PO, the scope and the period do.
LEMMA ToldStays ==
    ASSUME NEW p, NEW x, po'[x] = po[x], reader'.scope = reader.scope,
           reader'.window = reader.window
    PROVE  Told(p, x)' = Told(p, x)
<1>1. /\ FactsOf(x)' = FactsOf(x)
      /\ Period(p)' = Period(p) /\ Figures(x)' = Figures(x)
  BY DEF FactsOf, Period, Figures
<1>2. \A window : Counted(x, window)' <=> Counted(x, window)
  BY <1>1 DEF Counted
<1>3. Column(p, x)' = Column(p, x)
  BY <1>1 DEF Column
<1> QED
  BY <1>1, <1>2, <1>3 DEF Told

\* A statement adds its panel to those that are done.
LEMMA PassedGrows ==
    ASSUME NEW p \in Panels, reader.pc = p, reader'.pc = After(p),
           reader'.window = reader.window
    PROVE  /\ Passed' = Passed \cup {p} \cup
                  (IF p = "summary" /\ ~HasPrevious(reader.window) THEN {"previous"} ELSE {})
           /\ p \notin Passed /\ Passed \subseteq Panels
           /\ p = "previous" \/ "previous" \in Passed \/ p = "summary"
           /\ reader'.pc = "previous" => p = "summary" /\ HasPrevious(reader.window)
           /\ reader'.pc \notin {"idle", "profile", "grants", "summary", "count", "list"}
<1>1. CASE p = "summary"
  BY <1>1 DEF Passed, After, Panels
<1>2. CASE p = "previous"
  BY <1>2 DEF Passed, After, Panels
<1>3. CASE p = "trend"
  BY <1>3 DEF Passed, After, Panels
<1>4. CASE p = "status"
  BY <1>4 DEF Passed, After, Panels
<1>5. CASE p = "source"
  BY <1>5 DEF Passed, After, Panels
<1>6. CASE p = "customer"
  BY <1>6 DEF Passed, After, Panels
<1>7. CASE p = "products"
  BY <1>7 DEF Passed, After, Panels
<1> QED
  BY <1>1, <1>2, <1>3, <1>4, <1>5, <1>6, <1>7 DEF Panels

\* A step that leaves the request, the answer and the POs unchanged so far as they count.
LEMMA TellingStays ==
    ASSUME PanelsTell, reader' = reader, answer' = answer,
           since.changed \subseteq since'.changed,
           \A x \in Pos \ since'.changed : po'[x] = po[x]
    PROVE  PanelsTell'
<1>1. Passed' = Passed
  BY DEF Passed
<1>2. \A p : \A x \in Pos \ since'.changed : Told(p, x)' = Told(p, x)
  BY ToldStays
<1>3. HasPrevious(reader.window)' <=> HasPrevious(reader.window)
  BY DEF HasPrevious
<1>4. \A p : \A x : KeysIn(answer[p], x)' = KeysIn(answer[p], x)
  BY DEF KeysIn
<1> QED
  BY <1>1, <1>2, <1>3, <1>4 DEF PanelsTell

\* Nothing is done before the first statement.
LEMMA TellingBegins ==
    ASSUME answer' = answer, reader'.kind = reader.kind,
           reader'.pc \in {"idle", "profile", "grants", "count", "list", "refused", "summary"},
           reader.kind = "overview" =>
              answer["previous"] = {} /\ reader'.pc \notin {"count", "list"}
    PROVE  PanelsTell'
<1>1. Passed' = {}
  BY DEF Passed
<1> QED
  BY <1>1 DEF PanelsTell

\* Every step keeps it.
LEMMA TellingStep == Inv /\ Typed /\ PanelsTell /\ [Next]_vars => PanelsTell'
<1> SUFFICES ASSUME Inv, Typed, PanelsTell, [Next]_vars PROVE PanelsTell'
  OBVIOUS
<1>1. ASSUME NEW window \in Windows, Begin(window) PROVE PanelsTell'
  <2>1. reader.pc = "idle" /\ reader'.pc = "profile" /\ reader'.kind = reader.kind
        /\ answer' = answer
    BY <1>1 DEF Begin, Inv, Shape
  <2> QED
    BY <2>1, TellingBegins DEF PanelsTell
<1>2. CASE LoadProfile \/ LoadGrants
  <2>1. /\ reader.pc \in {"profile", "grants"} /\ reader'.kind = reader.kind
        /\ reader'.pc \in {"grants", "count", "refused", "summary"}
        /\ answer' = answer
        /\ reader.kind = "overview" => reader'.pc # "count"
    BY <1>2 DEF LoadProfile, LoadGrants, Goes, Inv, Shape
  <2> QED
    BY <2>1, TellingBegins DEF PanelsTell
<1>3. ASSUME NEW p \in Panels, Statement(p) PROVE PanelsTell'
  <2>1. /\ reader.pc = p /\ reader'.pc = After(p) /\ reader'.window = reader.window
        /\ reader'.scope = reader.scope /\ reader'.kind = reader.kind
        /\ UNCHANGED <<po, since>>
    BY <1>3 DEF Statement, Goes, Inv, Shape
  <2>2. answer' = [answer EXCEPT ![p] = Panel(p)]
    BY <1>3 DEF Statement
  <2>3. answer'[p] = Panel(p) /\ \A q \in Panels : q # p => answer'[q] = answer[q]
    BY <2>2 DEF Typed, Forms
  <2>4. /\ Passed' = Passed \cup {p} \cup
              (IF p = "summary" /\ ~HasPrevious(reader.window) THEN {"previous"} ELSE {})
        /\ p \notin Passed /\ Passed \subseteq Panels
        /\ p = "previous" \/ "previous" \in Passed \/ p = "summary"
        /\ reader'.pc = "previous" => p = "summary" /\ HasPrevious(reader.window)
        /\ reader'.pc \notin {"idle", "profile", "grants", "summary", "count", "list"}
    BY <2>1, PassedGrows
  <2>5. \A q, x : Told(q, x)' = Told(q, x)
    BY <2>1, ToldStays
  <2>6. HasPrevious(reader.window)' <=> HasPrevious(reader.window)
    BY <2>1 DEF HasPrevious
  <2>7. \A q, x : KeysIn(answer[q], x)' = KeysIn(answer'[q], x)
    BY DEF KeysIn
  <2>8. ASSUME reader.kind = "overview", NEW q \in Passed', NEW x \in Pos \ since.changed
        PROVE  KeysIn(answer'[q], x) =
                  IF q = "previous" /\ ~HasPrevious(reader.window) THEN {} ELSE Told(q, x)
    <3>1. CASE q \in Passed
      <4>1. answer'[q] = answer[q]
        BY <2>3, <2>4, <3>1
      <4> QED
        BY <2>8, <3>1, <4>1 DEF PanelsTell
    <3>2. CASE q = p
      <4>1. KeysIn(answer'[q], x) = Told(q, x)
        BY <2>3, <3>2, PanelIsLocal
      <4>2. q = "previous" => HasPrevious(reader.window)
        BY <2>1, <2>8, <3>2 DEF PanelsTell
      <4> QED
        BY <4>1, <4>2
    <3>3. CASE p = "summary" /\ q = "previous" /\ ~HasPrevious(reader.window)
      <4>1. answer'[q] = {}
        BY <2>1, <2>3, <2>8, <3>3 DEF PanelsTell, Panels
      <4> QED
        BY <3>3, <4>1 DEF KeysIn
    <3> QED
      BY <2>4, <2>8, <3>1, <3>2, <3>3
  <2> QED
    BY <2>1, <2>4, <2>5, <2>6, <2>7, <2>8 DEF PanelsTell
<1>4. CASE CountEvents \/ ListEvents
  <2>1. reader.kind # "overview"
    BY <1>4 DEF CountEvents, ListEvents, PanelsTell
  <2>2. reader'.kind = reader.kind
    BY <1>4 DEF CountEvents, ListEvents, Goes, Inv, Shape
  <2> QED
    BY <2>1, <2>2 DEF PanelsTell
<1>5. ASSUME NEW x \in Pos, NEW content \in Contents, ChangePo(x, content) PROVE PanelsTell'
  <2>1. reader' = reader /\ answer' = answer /\ since'.changed = since.changed \cup {x}
        /\ \A y \in Pos : y # x => po'[y] = po[y]
    BY <1>5 DEF ChangePo, Inv, Shape, Typed, TypeOK
  <2> QED
    BY <2>1, TellingStays
<1>6. ASSUME NEW event \in Event, AppendEvent(event) PROVE PanelsTell'
  <2>1. reader' = reader /\ answer' = answer /\ since'.changed = since.changed /\ po' = po
    BY <1>6 DEF AppendEvent, Inv, Shape
  <2> QED
    BY <2>1, TellingStays
<1>7. CASE ChangeRights
  <2>1. reader' = reader /\ answer' = answer /\ since'.changed = since.changed /\ po' = po
    BY <1>7 DEF ChangeRights, Inv, Shape
  <2> QED
    BY <2>1, TellingStays
<1>8. CASE UNCHANGED vars
  <2>1. reader' = reader /\ answer' = answer /\ since' = since /\ po' = po
    BY <1>8 DEF vars
  <2> QED
    BY <2>1, TellingStays
<1> QED
  BY <1>1, <1>2, <1>3, <1>4, <1>5, <1>6, <1>7, <1>8 DEF Next

\* The previous window holds the days that precede the period.
LEMMA PreviousPrecedes ==
    ASSUME NEW day \in Days, NEW window \in Windows
    PROVE  HasPrevious(window) /\ Within(day, PreviousWindow(window)) <=> Precedes(day, window)
<1> SUFFICES ASSUME HasPrevious(window)
             PROVE  Within(day, PreviousWindow(window)) <=> Precedes(day, window)
  BY DEF Precedes
<1> DEFINE first == window[1]  last == window[2]
<1>1. first \in Int /\ last \in Int
  BY WindowsAssumption DEF HasPrevious, Days
<1>2. PreviousWindow(window)[1] = first - 1 - (last - first) /\ PreviousWindow(window)[2] = first - 1
  BY DEF PreviousWindow
<1>3. /\ PreviousWindow(window)[1] # None /\ PreviousWindow(window)[2] # None
      /\ first # None /\ last # None
  BY <1>1, <1>2, NoneAssumption DEF Days
<1> HIDE DEF first, last
<1>4. /\ day >= first - 1 - (last - first) <=> day + (last - first + 1) >= first
      /\ day <= first - 1 <=> day + (last - first + 1) <= last
  BY <1>1 DEF Days
<1> QED
  BY <1>2, <1>3, <1>4 DEF Within, Precedes, first, last

\* What the panels say of one PO, by the panels that tell of it.
LEMMA TellingSuffices ==
    ASSUME Typed, PanelsTell, reader.pc = "answered", reader.kind = "overview",
           NEW x \in Pos \ since.changed
    PROVE  LET Keys(p) == KeysIn(answer[p], x)
               open == po[x].status \in OpenStatuses
               counted == x \in Base(reader.scope, reader.window)
               earlier == /\ x \in Base(reader.scope, <<None, None>>)
                          /\ Precedes(po[x].date, reader.window)
           IN  /\ "total" \in Keys("summary") <=> counted
               /\ "open" \in Keys("summary") <=> counted /\ open
               /\ "total" \in Keys("previous") <=> earlier
               /\ "open" \in Keys("previous") <=> earlier /\ open
               /\ \A p \in {"trend", "status", "source", "customer"} :
                     Cardinality(Keys(p)) = IF counted THEN 1 ELSE 0
               /\ Keys("status") \cap {"ON_HOLD"} = Keys("summary") \cap {"ON_HOLD"}
               /\ Keys("products") = IF counted THEN po[x].lines ELSE {}
<1> DEFINE counted == x \in Base(reader.scope, reader.window)
           earlier == /\ x \in Base(reader.scope, <<None, None>>)
                      /\ Precedes(po[x].date, reader.window)
<1>1. Passed = Panels
  BY DEF Passed
<1>2. \A p \in Panels : KeysIn(answer[p], x) =
         IF p = "previous" /\ ~HasPrevious(reader.window) THEN {} ELSE Told(p, x)
  BY <1>1 DEF PanelsTell
<1>3. \A p \in Panels \ {"previous"} :
         KeysIn(answer[p], x) = IF counted THEN Column(p, x) ELSE {}
  BY <1>2 DEF Told, Period, Counted, Base
<1>4. /\ KeysIn(answer["summary"], x) = IF counted THEN Figures(x) ELSE {}
      /\ KeysIn(answer["products"], x) = IF counted THEN po[x].lines ELSE {}
      /\ KeysIn(answer["status"], x) = IF counted THEN {po[x].status} ELSE {}
  <2> HIDE DEF counted
  <2> QED
    BY <1>3 DEF Column, Panels
<1>5. \A p \in {"trend", "status", "source", "customer"} :
         Cardinality(KeysIn(answer[p], x)) = IF counted THEN 1 ELSE 0
  <2> HIDE DEF counted
  <2> SUFFICES ASSUME NEW p \in {"trend", "status", "source", "customer"}
               PROVE  Cardinality(KeysIn(answer[p], x)) = IF counted THEN 1 ELSE 0
    OBVIOUS
  <2>1. \E key : Column(p, x) = {key}
    BY DEF Column
  <2>2. p \in Panels \ {"previous"}
    BY DEF Panels
  <2> QED
    BY <1>3, <2>1, <2>2, FS_Singleton, FS_EmptySet
<1>6. "total" \in Figures(x) /\ ("open" \in Figures(x) <=> po[x].status \in OpenStatuses)
  BY DEF Figures
<1>7. {po[x].status} \cap {"ON_HOLD"} = Figures(x) \cap {"ON_HOLD"}
  BY DEF Figures
<1>8. KeysIn(answer["previous"], x) = IF earlier THEN Figures(x) ELSE {}
  <2>1. KeysIn(answer["previous"], x) =
          IF HasPrevious(reader.window) /\ Counted(x, PreviousWindow(reader.window))
          THEN Figures(x) ELSE {}
    BY <1>2 DEF Panels, Told, Period, Column
  <2>2. po[x] \in Po /\ reader.window \in Windows
    BY DEF Typed, TypeOK, Reader
  <2>3. Counted(x, <<None, None>>) <=> x \in Base(reader.scope, <<None, None>>)
    BY DEF Counted, Base
  <2>4. CASE po[x].date = None
    <3>1. ~Counted(x, PreviousWindow(reader.window)) /\ ~Counted(x, <<None, None>>)
      BY <2>4 DEF Counted
    <3> QED
      BY <2>1, <2>3, <3>1
  <2>5. CASE po[x].date \in Days
    <3>1. HasPrevious(reader.window) /\ Within(po[x].date, PreviousWindow(reader.window))
            <=> Precedes(po[x].date, reader.window)
      BY <2>2, <2>5, PreviousPrecedes
    <3>2. Within(po[x].date, <<None, None>>)
      BY DEF Within
    <3>3. HasPrevious(reader.window) /\ Counted(x, PreviousWindow(reader.window))
            <=> Counted(x, <<None, None>>) /\ Precedes(po[x].date, reader.window)
      BY <3>1, <3>2 DEF Counted
    <3> QED
      BY <2>1, <2>3, <3>3
  <2> QED
    BY <2>2, <2>4, <2>5 DEF Po
<1> HIDE DEF counted, earlier
<1> QED
  BY <1>4, <1>5, <1>6, <1>7, <1>8 DEF counted, earlier

\* However many POs are changed while an overview is read statement by statement, its panels
\* agree on each of the others, and the previous one tells of those that precede the period.
THEOREM PanelsAgree == Spec => []PanelsTellOfUnchanged
<1>1. Init => PanelsTell
  BY DEF Init, InitReader, PanelsTell, Passed, Panels
<1>2. Typed /\ PanelsTell => PanelsTellOfUnchanged
  BY TellingSuffices DEF PanelsTellOfUnchanged, KeysIn
<1> QED
  BY <1>1, <1>2, InvInit, InvStep, TypedInit, TypedStep, TellingStep, PTL DEF Spec

-----------------------------------------------------------------------------
\* A walk through the pages.

\* A walk has shown every event it began with that is before the page it asks for, and its
\* total is that of the events unless one came in since it was counted.
WalkGoesOn ==
    reader.kind = "walk" =>
        /\ reader.pc \notin Panels
        /\ since.known \subseteq events
        /\ reader.pc \in {"profile", "grants", "count", "list"} =>
              \A e \in since.known :
                 Position(e) <= (reader.page - 1) * PageSize => e \in answer.shown
        /\ reader.pc = "list" => since.split \/ reader.count = Cardinality(events)
        /\ WalkMissesNothing

\* An event has a place among those that there are, and events that come in push it on.
LEMMA PlacesGrow ==
    ASSUME NEW S, IsFiniteSet(S), NEW e
    PROVE  LET Place(T) == Cardinality({f \in T : Before(f, e)}) + 1
           IN  /\ Place(S) \in Nat /\ Place(S) >= 1
               /\ e \in S /\ e.at \in Int /\ e.id \in Int => Place(S) <= Cardinality(S)
               /\ \A T \in SUBSET S : Place(T) <= Place(S)
<1> DEFINE earlier == {f \in S : Before(f, e)}
<1>1. IsFiniteSet(earlier) /\ Cardinality(earlier) \in Nat
  BY FS_Subset, FS_CardinalityType
<1>2. ASSUME e \in S, e.at \in Int, e.id \in Int
      PROVE  Cardinality(earlier) + 1 <= Cardinality(S)
  <2>1. e \notin earlier
    BY <1>2 DEF Before
  <2>2. IsFiniteSet(earlier \cup {e}) /\ Cardinality(earlier \cup {e}) = Cardinality(earlier) + 1
    <3> HIDE DEF earlier
    <3> QED
      BY <1>1, <2>1, FS_AddElement
  <2>3. earlier \cup {e} \in SUBSET S
    BY <1>2
  <2> HIDE DEF earlier
  <2> QED
    BY <2>2, <2>3, FS_Subset
<1>3. ASSUME NEW T \in SUBSET S
      PROVE  Cardinality({f \in T : Before(f, e)}) <= Cardinality(earlier)
  <2>1. {f \in T : Before(f, e)} \in SUBSET earlier
    OBVIOUS
  <2> HIDE DEF earlier
  <2> QED
    BY <1>1, <2>1, FS_Subset
<1>4. \A T \in SUBSET S : Cardinality({f \in T : Before(f, e)}) \in Nat
  <2> SUFFICES ASSUME NEW T \in SUBSET S
               PROVE  Cardinality({f \in T : Before(f, e)}) \in Nat
    OBVIOUS
  <2>1. {f \in T : Before(f, e)} \in SUBSET S
    OBVIOUS
  <2> QED
    BY <2>1, FS_Subset, FS_CardinalityType
<1> QED
  BY <1>1, <1>2, <1>3, <1>4

\* A step that leaves the pages and the events alone.
LEMMA WalkStays ==
    ASSUME WalkGoesOn, UNCHANGED <<events, answer>>,
           since'.known = since.known, since'.split = since.split,
           reader'.kind = reader.kind, reader'.page = reader.page,
           \/ reader'.pc = reader.pc /\ reader'.count = reader.count
           \/ /\ reader'.pc \in {"grants", "count", "refused"}
              /\ reader.pc \in {"profile", "grants"}
    PROVE  WalkGoesOn'
<1>1. \A e : Position(e)' = Position(e)
  BY DEF Position
<1> QED
  BY <1>1 DEF WalkGoesOn, WalkMissesNothing, Panels

\* Every step keeps it.
LEMMA WalkStep == Inv /\ Typed /\ WalkGoesOn /\ [Next]_vars => WalkGoesOn'
<1> SUFFICES ASSUME Inv, Typed, WalkGoesOn, [Next]_vars PROVE WalkGoesOn'
  OBVIOUS
<1>0. IsFiniteSet(events) /\ reader.page \in Nat /\ PageSize \in Nat \ {0}
  BY BoundsAssumption DEF Typed, Forms, TypeOK, Reader
<1>1. ASSUME NEW window \in Windows, Begin(window) PROVE WalkGoesOn'
  <2>1. /\ reader'.pc = "profile" /\ reader'.page = 1 /\ reader'.kind = reader.kind
        /\ since'.known = events /\ UNCHANGED <<events, answer>>
    BY <1>1 DEF Begin, Now, Inv, Shape
  <2>2. \A e : Position(e)' >= 1
    BY <1>0, <2>1, PlacesGrow DEF Position
  <2>3. \A e : Position(e)' \in Nat
    BY <1>0, <2>1, PlacesGrow DEF Position
  <2>4. (reader'.page - 1) * PageSize = 0
    BY <1>0, <2>1
  <2> QED
    BY <2>1, <2>2, <2>3, <2>4 DEF WalkGoesOn, WalkMissesNothing, Panels
<1>2. CASE LoadProfile \/ LoadGrants
  <2>1. /\ reader'.kind = reader.kind /\ reader'.page = reader.page
        /\ UNCHANGED <<events, answer, since>>
        /\ reader.pc \in {"profile", "grants"}
        /\ reader.kind = "walk" => reader'.pc \in {"grants", "count", "refused"}
    BY <1>2 DEF LoadProfile, LoadGrants, Goes, Inv, Shape
  <2>2. CASE reader.kind = "walk"
    BY <2>1, <2>2, WalkStays
  <2>3. CASE reader.kind # "walk"
    BY <2>1, <2>3 DEF WalkGoesOn
  <2> QED
    BY <2>2, <2>3
<1>3. ASSUME NEW p \in Panels, Statement(p) PROVE WalkGoesOn'
  <2>1. reader.kind # "walk" /\ reader'.kind = reader.kind
    BY <1>3 DEF Statement, Goes, WalkGoesOn, Inv, Shape
  <2> QED
    BY <2>1 DEF WalkGoesOn
<1>4. CASE CountEvents
  <2>1. /\ reader.pc = "count" /\ reader'.pc = "list" /\ reader'.page = reader.page
        /\ reader'.kind = reader.kind /\ reader'.count = Cardinality(events)
        /\ since'.known = since.known /\ UNCHANGED <<events, answer>>
    BY <1>4 DEF CountEvents, Inv, Shape
  <2>2. \A e : Position(e)' = Position(e)
    BY <2>1 DEF Position
  <2> QED
    BY <2>1, <2>2 DEF WalkGoesOn, WalkMissesNothing, Panels
<1>5. CASE ListEvents
  <2>1. /\ reader.pc = "list" /\ reader'.kind = reader.kind /\ UNCHANGED events
        /\ since'.known = since.known
    BY <1>5 DEF ListEvents, Goes, Now, Inv, Shape
  <2>2. answer'.shown = answer.shown \cup Page(reader.page)
    BY <1>5 DEF ListEvents, Typed, Forms
  <2>3. \A e : Position(e)' = Position(e) /\ Position(e) \in Nat
    BY <1>0, <2>1, PlacesGrow DEF Position
  <2>4. ASSUME reader.kind = "walk", NEW e \in since.known,
               Position(e) <= reader.page * PageSize
        PROVE  e \in answer'.shown
    <3>1. CASE Position(e) <= (reader.page - 1) * PageSize
      BY <2>1, <2>2, <2>4, <3>1 DEF WalkGoesOn
    <3>2. CASE ~(Position(e) <= (reader.page - 1) * PageSize)
      <4>1. (reader.page - 1) * PageSize \in Int
        BY <1>0
      <4>2. (reader.page - 1) * PageSize < Position(e)
        BY <2>3, <3>2, <4>1
      <4>3. e \in Page(reader.page)
        BY <2>4, <4>2 DEF Page, WalkGoesOn
      <4> QED
        BY <2>2, <4>3
    <3> QED
      BY <3>1, <3>2
  <2>5. CASE reader.page * PageSize >= reader.count
    <3>1. reader'.pc = "answered" /\ since' = since
      BY <1>5, <2>5 DEF ListEvents, Goes, Inv, Shape
    <3>2. ASSUME reader.kind = "walk", ~since.split, NEW e \in since.known
          PROVE  e \in answer'.shown
      <4>1. reader.count = Cardinality(events) /\ e \in events
        BY <2>1, <3>2 DEF WalkGoesOn
      <4>2. e.at \in Int /\ e.id \in Int
        <5>1. events \subseteq Event
          BY DEF Typed, TypeOK
        <5>2. e \in Event
          BY <4>1, <5>1
        <5>3. e.at \in Moments /\ e.id \in 1..MaxEvents
          BY <5>2 DEF Event
        <5>4. \A i \in 1..MaxEvents : i \in Int
          BY BoundsAssumption
        <5> QED
          BY <5>3, <5>4, MomentsAssumption
      <4>3. Position(e) <= Cardinality(events)
        BY <1>0, <4>1, <4>2, PlacesGrow DEF Position
      <4>4. reader.page * PageSize \in Nat /\ Cardinality(events) \in Nat
        BY <1>0, FS_CardinalityType
      <4>5. Position(e) <= reader.page * PageSize
        BY <2>3, <2>5, <4>1, <4>3, <4>4
      <4> QED
        BY <2>4, <3>2, <4>5
    <3>3. reader.kind = "walk" => WalkMissesNothing'
      BY <2>1, <3>1, <3>2 DEF WalkMissesNothing
    <3> QED
      BY <2>1, <3>1, <3>3 DEF WalkGoesOn, Panels
  <2>6. CASE ~(reader.page * PageSize >= reader.count)
    <3>1. reader'.pc = "profile" /\ reader'.page = reader.page + 1
      BY <1>5, <2>6 DEF ListEvents, Inv, Shape
    <3>2. (reader'.page - 1) * PageSize = reader.page * PageSize
      BY <1>0, <3>1
    <3> QED
      BY <2>1, <2>3, <2>4, <3>1, <3>2 DEF WalkGoesOn, WalkMissesNothing, Panels
  <2> QED
    BY <2>5, <2>6
<1>6. ASSUME NEW x \in Pos, NEW content \in Contents, ChangePo(x, content) PROVE WalkGoesOn'
  <2>1. reader.kind # "walk" /\ reader' = reader
    BY <1>6 DEF ChangePo, WalkGoesOn
  <2> QED
    BY <2>1 DEF WalkGoesOn
<1>7. ASSUME NEW event \in Event, AppendEvent(event) PROVE WalkGoesOn'
  <2>1. /\ reader' = reader /\ answer' = answer /\ events' = events \cup {event}
        /\ since'.known = since.known /\ reader.kind = "walk"
        /\ reader.pc \notin {"idle", "answered", "refused"}
        /\ reader.pc = "list" => since'.split
    BY <1>7 DEF AppendEvent, Inv, Shape
  <2>2. IsFiniteSet(events') /\ events \in SUBSET events'
    BY <1>0, <2>1, FS_AddElement
  <2>3. \A e : Position(e) <= Position(e)' /\ Position(e) \in Nat /\ Position(e)' \in Nat
    BY <1>0, <2>2, PlacesGrow DEF Position
  <2>4. (reader.page - 1) * PageSize \in Int
    BY <1>0
  <2>5. \A e : Position(e)' <= (reader.page - 1) * PageSize
                 => Position(e) <= (reader.page - 1) * PageSize
    <3> DEFINE before == (reader.page - 1) * PageSize
    <3> HIDE DEF before
    <3>1. before \in Int
      BY <2>4 DEF before
    <3>2. \A e : Position(e)' <= before => Position(e) <= before
      BY <2>3, <3>1
    <3> QED
      BY <3>2 DEF before
  <2> QED
    BY <2>1, <2>5 DEF WalkGoesOn, WalkMissesNothing
<1>8. CASE ChangeRights
  <2>1. /\ reader' = reader /\ UNCHANGED <<events, answer>>
        /\ since'.known = since.known /\ since'.split = since.split
    BY <1>8 DEF ChangeRights, Inv, Shape
  <2>2. /\ reader'.kind = reader.kind /\ reader'.page = reader.page
        /\ reader'.pc = reader.pc /\ reader'.count = reader.count
    BY <2>1
  <2> QED
    BY <2>1, <2>2, WalkStays
<1>9. CASE UNCHANGED vars
  <2>1. reader' = reader /\ UNCHANGED <<events, answer, since>>
    BY <1>9 DEF vars
  <2>2. /\ reader'.kind = reader.kind /\ reader'.page = reader.page
        /\ reader'.pc = reader.pc /\ reader'.count = reader.count
        /\ since'.known = since.known /\ since'.split = since.split
    BY <2>1
  <2> QED
    BY <2>1, <2>2, WalkStays
<1> QED
  BY <1>1, <1>2, <1>3, <1>4, <1>5, <1>6, <1>7, <1>8, <1>9 DEF Next

\* However many audit events come in while someone walks through the pages, and wherever
\* their times put them, he sees all that were there; but for one that comes between the
\* count of the last page and its list.
THEOREM WalksAreWhole == Spec => []WalkMissesNothing
<1>1. Init => WalkGoesOn
  BY DEF Init, InitReader, Now, WalkGoesOn, WalkMissesNothing, Panels
<1>2. WalkGoesOn => WalkMissesNothing
  BY DEF WalkGoesOn, WalkMissesNothing
<1> QED
  BY <1>1, <1>2, InvInit, InvStep, TypedInit, TypedStep, WalkStep, PTL DEF Spec

=============================================================================
