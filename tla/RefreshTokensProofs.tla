------------------------ MODULE RefreshTokensProofs -------------------------
(***************************************************************************)
(* What RefreshTokens guarantees for any number of requests and tokens.    *)
(***************************************************************************)
EXTENDS RefreshTokens, TLAPS

\* A request that presents a token presents one that was issued no later than it began,
\* and one that replaces it has found it live.
HandlersAreSound ==
    \A r \in Requests :
        /\ req[r].now <= clock
        /\ req[r].pc \in {"refresh", "rotate"} =>
              /\ req[r].presents \in Tokens
              /\ Issued(req[r].presents)
              /\ token[req[r].presents].expires <= req[r].now + Lifetime
        /\ req[r].pc = "rotate" => Live(req[r].presents)

\* A family is named by its first token, which is issued first.
FamiliesAreIssued ==
    \A t \in Tokens :
        /\ Issued(t) => Issued(token[t].family) /\ token[t].expires <= clock + Lifetime
        /\ ~Issued(t) => token[t].next = None

Inv ==
    /\ TypeOK
    /\ LocksAreHeld
    /\ HandlersAreSound
    /\ FamiliesAreIssued
    /\ OneLivePerFamily
    /\ ChainIsLinear
    /\ LogoutEndsFamily

\* The invariant holds before the first login.
LEMMA InvInit == Init => Inv
<1> SUFFICES ASSUME Init PROVE Inv
  OBVIOUS
<1> USE NoneAssumption, TimeAssumption
<1>1. /\ Idle \in Handler /\ Idle.pc = "idle" /\ Idle.now = 0
      /\ \A r \in Requests : req[r] = Idle
  BY DEF Init, Idle, Handler
<1>2. \A t \in Tokens : /\ token[t] \in Row /\ token[t].state = "unused"
                        /\ token[t].next = None /\ lock[t] = None
  BY DEF Init, Row
<1>3. TypeOK
  BY <1>1, <1>2 DEF Init, TypeOK
<1>4. LocksAreHeld /\ HandlersAreSound
  BY <1>1, <1>2, <1>3 DEF Init, LocksAreHeld, HandlersAreSound
<1>5. FamiliesAreIssued /\ OneLivePerFamily /\ ChainIsLinear /\ LogoutEndsFamily
  BY <1>2 DEF FamiliesAreIssued, OneLivePerFamily, ChainIsLinear, LogoutEndsFamily, Issued, Live
<1> QED
  BY <1>3, <1>4, <1>5 DEF Inv

\* What a request changes of the handlers.
LEMMA HandlerMoves ==
    ASSUME TypeOK, NEW r \in Requests, NEW h \in Handler, req' = [req EXCEPT ![r] = h]
    PROVE  /\ req' \in [Requests -> Handler] /\ req'[r] = h
           /\ \A q \in Requests : q # r => req'[q] = req[q]
  BY DEF TypeOK

\* The idle handler, and a new row, are typed.
LEMMA IdleIsTyped == Idle \in Handler /\ Idle.pc = "idle" /\ Idle.now = 0
  BY DEF Idle, Handler

\* A token just issued is a live row of its family without a successor.
LEMMA FreshIsTyped ==
    ASSUME NEW family \in Tokens, NEW now \in Nat
    PROVE  /\ Fresh(family, now) \in Row /\ Fresh(family, now).state = "live"
           /\ Fresh(family, now).family = family /\ Fresh(family, now).next = None
           /\ Fresh(family, now).expires = now + Lifetime
  BY TimeAssumption DEF Fresh, Row

\* Every step of every handler keeps the invariant.
LEMMA InvStep == Inv /\ [Next]_vars => Inv'
<1> SUFFICES ASSUME Inv, [Next]_vars PROVE Inv'
  OBVIOUS
<1> USE NoneAssumption, TimeAssumption
<1>0. /\ TypeOK /\ \A r \in Requests : req[r] \in Handler /\ \A t \in Tokens : token[t] \in Row
      /\ LocksAreHeld /\ HandlersAreSound /\ FamiliesAreIssued
      /\ OneLivePerFamily /\ ChainIsLinear /\ LogoutEndsFamily
  BY DEF Inv, TypeOK
<1>1. CASE Tick
  <2>1. TypeOK'
    BY <1>0, <1>1 DEF Tick, TypeOK
  <2>2. HandlersAreSound' /\ FamiliesAreIssued'
    BY <1>0, <1>1 DEF Tick, TypeOK, Handler, Row, HandlersAreSound, FamiliesAreIssued, Issued, Live
  <2>3. LocksAreHeld' /\ OneLivePerFamily' /\ ChainIsLinear' /\ LogoutEndsFamily'
    BY <1>0, <1>1 DEF Tick, LocksAreHeld, OneLivePerFamily, ChainIsLinear, LogoutEndsFamily,
       Issued, Live
  <2> QED
    BY <2>1, <2>2, <2>3 DEF Inv
<1>2. CASE SetActive
  BY <1>0, <1>2 DEF SetActive, Inv, TypeOK, LocksAreHeld, HandlersAreSound, FamiliesAreIssued,
     OneLivePerFamily, ChainIsLinear, LogoutEndsFamily, Issued, Live
<1>3. ASSUME NEW r \in Requests, NEW h \in Handler, req' = [req EXCEPT ![r] = h],
             UNCHANGED <<token, active, clock>>, UNCHANGED lock,
             req[r].pc # "rotate", h.pc # "rotate", h.now <= clock,
             h.pc = "refresh" => /\ h.presents \in Tokens /\ Issued(h.presents)
                                 /\ token[h.presents].expires <= h.now + Lifetime
      PROVE  Inv'
  <2>1. /\ req' \in [Requests -> Handler] /\ req'[r] = h
        /\ \A q \in Requests : q # r => req'[q] = req[q]
    BY <1>0, <1>3, HandlerMoves
  <2>2. TypeOK'
    BY <1>0, <1>3, <2>1 DEF TypeOK
  <2>3. LocksAreHeld'
    BY <1>0, <1>3, <2>1 DEF LocksAreHeld
  <2>4. HandlersAreSound'
    BY <1>0, <1>3, <2>1 DEF HandlersAreSound, Issued, Live
  <2>5. FamiliesAreIssued' /\ OneLivePerFamily' /\ ChainIsLinear' /\ LogoutEndsFamily'
    BY <1>0, <1>3 DEF FamiliesAreIssued, OneLivePerFamily, ChainIsLinear, LogoutEndsFamily,
       Issued, Live
  <2> QED
    BY <2>2, <2>3, <2>4, <2>5 DEF Inv
<1>4. ASSUME NEW r \in Requests, BeginLogin(r) PROVE Inv'
  <2> DEFINE h == [Idle EXCEPT !.pc = "login", !.now = clock, !.active = active]
  <2>1. h \in Handler /\ h.pc = "login" /\ h.now = clock
    BY <1>0 DEF Idle, Handler, TypeOK
  <2>2. req' = [req EXCEPT ![r] = h] /\ req[r].pc = "idle"
    BY <1>4 DEF BeginLogin
  <2>3. h.now <= clock
    BY <1>0, <2>1 DEF TypeOK
  <2> HIDE DEF h
  <2> QED
    BY <1>3, <1>4, <2>1, <2>2, <2>3 DEF BeginLogin
<1>5. ASSUME NEW r \in Requests, NEW t \in Tokens, BeginRefresh(r, t) PROVE Inv'
  <2> DEFINE h == [pc |-> "refresh", presents |-> t, now |-> clock, active |-> active]
  <2>1. h \in Handler /\ h.pc = "refresh" /\ h.now = clock /\ h.presents = t
    BY <1>0 DEF Handler, TypeOK
  <2>2. req' = [req EXCEPT ![r] = h] /\ req[r].pc = "idle"
    BY <1>5 DEF BeginRefresh
  <2>3. h.now <= clock /\ Issued(t) /\ token[t].expires <= h.now + Lifetime
    BY <1>0, <1>5, <2>1 DEF TypeOK, BeginRefresh, FamiliesAreIssued
  <2> HIDE DEF h
  <2> QED
    BY <1>3, <1>5, <2>1, <2>2, <2>3 DEF BeginRefresh
<1>6. ASSUME NEW r \in Requests, Refuse(r) PROVE Inv'
  <2>1. 0 <= clock
    BY <1>0 DEF TypeOK
  <2> QED
    BY <1>3, <1>6, <2>1, IdleIsTyped DEF Refuse
<1>7. ASSUME NEW r \in Requests, NEW t \in Tokens, CreateRefreshToken(r, t) PROVE Inv'
  <2> DEFINE f == Fresh(t, req[r].now)
  <2>1. /\ f \in Row /\ f.state = "live" /\ f.family = t /\ f.next = None
        /\ f.expires = req[r].now + Lifetime
    BY <1>0, FreshIsTyped DEF Handler
  <2> HIDE DEF f
  <2>2. /\ req' \in [Requests -> Handler] /\ req'[r] = Idle
        /\ \A q \in Requests : q # r => req'[q] = req[q]
    BY <1>0, <1>7, HandlerMoves, IdleIsTyped DEF CreateRefreshToken
  <2>3. /\ token' \in [Tokens -> Row] /\ token'[t] = f /\ ~Issued(t)
        /\ \A u \in Tokens : u # t => token'[u] = token[u]
    BY <1>0, <1>7, <2>1 DEF CreateRefreshToken, f, TypeOK
  <2>4. req[r].pc = "login" /\ req[r].now <= clock /\ UNCHANGED <<lock, active, clock>>
    BY <1>0, <1>7 DEF CreateRefreshToken, HandlersAreSound
  <2>5. TypeOK'
    BY <1>0, <2>2, <2>3, <2>4 DEF TypeOK
  <2>6. LocksAreHeld'
    BY <1>0, <2>2, <2>4, IdleIsTyped DEF LocksAreHeld
  <2>7. HandlersAreSound'
    BY <1>0, <2>2, <2>3, <2>4, IdleIsTyped DEF HandlersAreSound, TypeOK, Issued, Live
  <2>8. FamiliesAreIssued'
    BY <1>0, <2>1, <2>3, <2>4 DEF FamiliesAreIssued, TypeOK, Handler, Row, Issued
  <2>9. OneLivePerFamily'
    BY <1>0, <2>1, <2>3 DEF OneLivePerFamily, FamiliesAreIssued, Issued, Live
  <2>10. ChainIsLinear'
    BY <1>0, <2>1, <2>3 DEF ChainIsLinear, Row, Issued
  <2>11. LogoutEndsFamily'
    BY <1>0, <2>1, <2>3 DEF LogoutEndsFamily, FamiliesAreIssued, Issued, Live
  <2> QED
    BY <2>5, <2>6, <2>7, <2>8, <2>9, <2>10, <2>11 DEF Inv
<1>8. ASSUME NEW r \in Requests, Lock(r) PROVE Inv'
  <2> DEFINE h == [req[r] EXCEPT !.pc = "rotate"]
             old == req[r].presents
  <2>1. h \in Handler /\ h.pc = "rotate" /\ h.presents = old /\ h.now = req[r].now
    BY <1>0 DEF Handler
  <2>2. req[r].pc = "refresh" /\ old \in Tokens /\ lock[old] = None /\ Live(old)
    BY <1>0, <1>8 DEF Lock, HandlersAreSound, Usable, Live
  <2>3. req' = [req EXCEPT ![r] = h] /\ lock' = [lock EXCEPT ![old] = r]
        /\ UNCHANGED <<token, active, clock>>
    BY <1>8 DEF Lock
  <2> HIDE DEF h
  <2>4. /\ req' \in [Requests -> Handler] /\ req'[r] = h
        /\ \A q \in Requests : q # r => req'[q] = req[q]
    BY <1>0, <2>1, <2>3, HandlerMoves
  <2>5. TypeOK'
    BY <1>0, <2>2, <2>3, <2>4 DEF TypeOK
  <2>6. LocksAreHeld'
    BY <1>0, <2>1, <2>2, <2>3, <2>4 DEF LocksAreHeld, TypeOK
  <2>7. HandlersAreSound'
    BY <1>0, <2>1, <2>2, <2>3, <2>4 DEF HandlersAreSound, Issued, Live
  <2>8. FamiliesAreIssued' /\ OneLivePerFamily' /\ ChainIsLinear' /\ LogoutEndsFamily'
    BY <1>0, <2>3 DEF FamiliesAreIssued, OneLivePerFamily, ChainIsLinear, LogoutEndsFamily,
       Issued, Live
  <2> QED
    BY <2>5, <2>6, <2>7, <2>8 DEF Inv
<1>9. ASSUME NEW r \in Requests, NEW t \in Tokens, Rotate(r, t) PROVE Inv'
  <2> DEFINE old == req[r].presents
             f == Fresh(token[old].family, req[r].now)
  <2>1. /\ req[r].pc = "rotate" /\ old \in Tokens /\ Live(old) /\ ~Issued(t) /\ t # old
        /\ token[old].expires <= req[r].now + Lifetime /\ req[r].now <= clock
        /\ token[old].next = None /\ UNCHANGED <<active, clock>>
    BY <1>0, <1>9 DEF Rotate, HandlersAreSound, ChainIsLinear, Issued, Live, Row
  <2>2. /\ f \in Row /\ f.state = "live" /\ f.family = token[old].family /\ f.next = None
        /\ f.expires = req[r].now + Lifetime
    BY <1>0, <2>1, FreshIsTyped DEF Handler, Row
  <2>3. token' = [token EXCEPT ![t] = f, ![old].state = "revoked", ![old].next = t]
    BY <1>9 DEF Rotate
  <2>4. lock' = [lock EXCEPT ![old] = None]
    BY <1>9 DEF Rotate
  <2>5. /\ req' \in [Requests -> Handler] /\ req'[r] = Idle
        /\ \A q \in Requests : q # r => req'[q] = req[q]
    BY <1>0, <1>9, HandlerMoves, IdleIsTyped DEF Rotate
  <2> HIDE DEF f, old
  <2>6. /\ token' \in [Tokens -> Row] /\ token'[t] = f
        /\ token'[old].state = "revoked" /\ token'[old].next = t
        /\ token'[old].family = token[old].family /\ token'[old].expires = token[old].expires
        /\ \A u \in Tokens : u # t /\ u # old => token'[u] = token[u]
    BY <1>0, <2>1, <2>2, <2>3 DEF TypeOK, Row
  <2>7. TypeOK'
    BY <1>0, <2>1, <2>4, <2>5, <2>6 DEF TypeOK
  <2>8. LocksAreHeld'
    BY <1>0, <2>1, <2>4, <2>5, IdleIsTyped DEF LocksAreHeld, TypeOK, old
  <2>9. \A q \in Requests : q # r /\ req[q].pc = "rotate" => req[q].presents # old
    BY <1>0, <2>1 DEF LocksAreHeld, old
  <2>10. HandlersAreSound'
    BY <1>0, <2>1, <2>5, <2>6, <2>9, IdleIsTyped DEF HandlersAreSound, TypeOK, Issued, Live
  <2>11. FamiliesAreIssued'
    BY <1>0, <2>1, <2>2, <2>6 DEF FamiliesAreIssued, TypeOK, Handler, Row, Issued, Live
  <2>12. OneLivePerFamily'
    BY <1>0, <2>1, <2>2, <2>6 DEF OneLivePerFamily, Live
  <2>13. ChainIsLinear'
    BY <1>0, <2>1, <2>2, <2>6 DEF ChainIsLinear, Issued, Live, Row
  <2>14. LogoutEndsFamily'
    BY <1>0, <2>1, <2>2, <2>6 DEF LogoutEndsFamily, Live
  <2> QED
    BY <2>7, <2>8, <2>10, <2>11, <2>12, <2>13, <2>14 DEF Inv
<1>10. ASSUME NEW r \in Requests, Fail(r) PROVE Inv'
  <2>1. /\ req' \in [Requests -> Handler] /\ req'[r] = Idle
        /\ \A q \in Requests : q # r => req'[q] = req[q]
    BY <1>0, <1>10, HandlerMoves, IdleIsTyped DEF Fail
  <2>2. TypeOK'
    BY <1>0, <1>10, <2>1 DEF Fail, TypeOK
  <2>3. LocksAreHeld'
    BY <1>0, <1>10, <2>1, IdleIsTyped DEF Fail, LocksAreHeld, TypeOK
  <2>4. HandlersAreSound'
    BY <1>0, <1>10, <2>1, IdleIsTyped DEF Fail, HandlersAreSound, TypeOK, Issued, Live
  <2>5. FamiliesAreIssued' /\ OneLivePerFamily' /\ ChainIsLinear' /\ LogoutEndsFamily'
    BY <1>0, <1>10 DEF Fail, FamiliesAreIssued, OneLivePerFamily, ChainIsLinear,
       LogoutEndsFamily, Issued, Live
  <2> QED
    BY <2>2, <2>3, <2>4, <2>5 DEF Inv
<1>11. ASSUME NEW t \in Tokens, Revoke(t) PROVE Inv'
  <2>1. /\ token' \in [Tokens -> Row] /\ token'[t].state = "revoked"
        /\ token'[t].next = None /\ token[t].next = None
        /\ token'[t].family = token[t].family /\ token'[t].expires = token[t].expires
        /\ \A u \in Tokens : u # t => token'[u] = token[u]
    BY <1>0, <1>11 DEF Revoke, TypeOK, Row, ChainIsLinear, Live
  <2>2. Live(t) /\ lock[t] = None /\ UNCHANGED <<lock, active, clock, req>>
    BY <1>11 DEF Revoke
  <2>3. TypeOK' /\ LocksAreHeld'
    BY <1>0, <2>1, <2>2 DEF TypeOK, LocksAreHeld
  <2>4. \A r \in Requests : req[r].pc = "rotate" => req[r].presents # t
    BY <1>0, <2>2 DEF LocksAreHeld
  <2>5. HandlersAreSound'
    BY <1>0, <2>1, <2>2, <2>4 DEF HandlersAreSound, Issued, Live
  <2>6. FamiliesAreIssued'
    BY <1>0, <2>1, <2>2 DEF FamiliesAreIssued, Issued, Live, Row
  <2>7. OneLivePerFamily' /\ ChainIsLinear'
    BY <1>0, <2>1, <2>2 DEF OneLivePerFamily, ChainIsLinear, Issued, Live, Row
  <2>8. LogoutEndsFamily'
    BY <1>0, <2>1, <2>2 DEF LogoutEndsFamily, OneLivePerFamily, Live
  <2> QED
    BY <2>3, <2>5, <2>6, <2>7, <2>8 DEF Inv
<1>12. CASE UNCHANGED vars
  BY <1>0, <1>12 DEF vars, Inv, TypeOK, LocksAreHeld, HandlersAreSound, FamiliesAreIssued,
     OneLivePerFamily, ChainIsLinear, LogoutEndsFamily, Issued, Live
<1> QED
  BY <1>1, <1>2, <1>4, <1>5, <1>6, <1>7, <1>8, <1>9, <1>10, <1>11, <1>12 DEF Next

\* It holds in every state.
LEMMA InvAlways == Spec => []Inv
  BY InvInit, InvStep, PTL DEF Spec

\* Tokens, locks and handlers are what their tables and stages let them be.
THEOREM TokensTypeCorrect == Spec => []TypeOK
<1>1. Inv => TypeOK
  BY DEF Inv
<1> QED
  BY <1>1, InvAlways, PTL

\* No row lock outlives the request that took it.
THEOREM LocksEnd == Spec => []LocksAreHeld
<1>1. Inv => LocksAreHeld
  BY DEF Inv
<1> QED
  BY <1>1, InvAlways, PTL

\* However many refreshes overlap, a login has one live token at most.
THEOREM OneTokenPerLogin == Spec => []OneLivePerFamily
<1>1. Inv => OneLivePerFamily
  BY DEF Inv
<1> QED
  BY <1>1, InvAlways, PTL

\* The tokens of a login are a chain, each replaced once.
THEOREM RotationIsLinear == Spec => []ChainIsLinear
<1>1. Inv => ChainIsLinear
  BY DEF Inv
<1> QED
  BY <1>1, InvAlways, PTL

\* A logout of a live token ends its login, whatever refreshes race it.
THEOREM LogoutIsFinal == Spec => []LogoutEndsFamily
<1>1. Inv => LogoutEndsFamily
  BY DEF Inv
<1> QED
  BY <1>1, InvAlways, PTL

\* No step gives a revoked token back, or exchanges its replacement.
THEOREM RevocationIsFinal == Spec => RevokedForGood
<1>1. Inv /\ [Next]_vars =>
        [\A t \in Tokens : token[t].state = "revoked" => token'[t] = token[t]]_token
  <2> SUFFICES ASSUME Inv, [Next]_vars, token' # token,
                      NEW t \in Tokens, token[t].state = "revoked"
               PROVE  token'[t] = token[t]
    OBVIOUS
  <2>1. CASE \E r \in Requests, fresh \in Tokens : CreateRefreshToken(r, fresh)
    BY <2>1 DEF Inv, TypeOK, CreateRefreshToken, Issued
  <2>2. ASSUME NEW r \in Requests, NEW fresh \in Tokens, Rotate(r, fresh)
        PROVE  token'[t] = token[t]
    <3>1. t # fresh /\ t # req[r].presents
      BY <2>2 DEF Inv, Rotate, HandlersAreSound, Issued, Live
    <3> QED
      BY <2>2, <3>1 DEF Inv, TypeOK, Rotate
  <2>3. CASE \E u \in Tokens : Revoke(u)
    BY <2>3 DEF Inv, TypeOK, Revoke, Live
  <2> QED
    BY <2>1, <2>2, <2>3 DEF Next, vars, Tick, SetActive, BeginLogin, BeginRefresh, Lock,
       Refuse, Fail
<1> QED
  BY <1>1, InvAlways, PTL DEF Spec, RevokedForGood

=============================================================================
