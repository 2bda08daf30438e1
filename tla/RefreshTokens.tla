--------------------------- MODULE RefreshTokens ----------------------------
(***************************************************************************)
(* Refresh tokens of one profile (app/modules/auth).  A login starts a     *)
(* family of tokens; a refresh replaces a token by the next of its family; *)
(* a logout revokes one.  The token a client presents may be any it has    *)
(* ever been given: two tabs share one, and a client whose answer was lost *)
(* presents the same one again.                                            *)
(*                                                                         *)
(* A refresh reads its token with SELECT ... FOR UPDATE, which waits for   *)
(* the row lock and then sees the token as it is; the profile joined to it *)
(* is not locked, and is seen as it was when the statement began.          *)
(***************************************************************************)
EXTENDS Integers, FiniteSets

CONSTANTS
    Requests,      \* handler slots: requests that may be in flight together
    Tokens,        \* the tokens that may be issued
    None,          \* no token, and the holder of a free lock
    Lifetime,      \* refresh_expire_days
    MaxClock       \* bound on the clock

ASSUME NoneAssumption == None \notin Tokens /\ None \notin Requests
ASSUME TimeAssumption == Lifetime \in Nat \ {0} /\ MaxClock \in Nat

VARIABLES
    token,         \* refresh_tokens
    lock,          \* the request that holds the row lock of each token
    active,        \* profiles.is_active
    clock,         \* the time that datetime.now reads
    req            \* the handlers

vars == <<token, lock, active, clock, req>>

-----------------------------------------------------------------------------
\* Data.

\* A row: whether it is there, and revoked; the login it descends from; its replacement.
Row == [state : {"unused", "live", "revoked"}, family : Tokens, next : Tokens \cup {None},
        expires : Nat]

\* A handler: what it presents, when it began, and the profile as it saw it.
Handler == [pc : {"idle", "login", "refresh", "rotate"}, presents : Tokens \cup {None},
            now : Nat, active : BOOLEAN]
Idle == [pc |-> "idle", presents |-> None, now |-> 0, active |-> FALSE]

Init ==
    /\ token = [t \in Tokens |->
                  [state |-> "unused", family |-> t, next |-> None, expires |-> 0]]
    /\ lock = [t \in Tokens |-> None]
    /\ active = TRUE
    /\ clock = 0
    /\ req = [r \in Requests |-> Idle]

Issued(t) == token[t].state # "unused"
Live(t) == token[t].state = "live"

\* _new_refresh_token, _refresh_model: a fresh row of a family.
Fresh(family, now) ==
    [state |-> "live", family |-> family, next |-> None, expires |-> now + Lifetime]

-----------------------------------------------------------------------------
\* The environment.

Tick ==
    /\ clock < MaxClock
    /\ clock' = clock + 1
    /\ UNCHANGED <<token, lock, active, req>>

\* Profiles are activated and deactivated outside this service.
SetActive == active' = ~active /\ UNCHANGED <<token, lock, clock, req>>

-----------------------------------------------------------------------------
\* login: the identity is read and checked, then the token is inserted and committed.

BeginLogin(r) ==
    /\ req[r].pc = "idle"
    /\ active
    /\ req' = [req EXCEPT ![r] = [Idle EXCEPT !.pc = "login", !.now = clock,
                                              !.active = active]]
    /\ UNCHANGED <<token, lock, active, clock>>

CreateRefreshToken(r, fresh) ==
    /\ req[r].pc = "login"
    /\ ~Issued(fresh)
    /\ token' = [token EXCEPT ![fresh] = Fresh(fresh, req[r].now)]
    /\ req' = [req EXCEPT ![r] = Idle]
    /\ UNCHANGED <<lock, active, clock>>

-----------------------------------------------------------------------------
\* refresh: rotate_refresh_token.

\* SELECT ... FOR UPDATE begins.
BeginRefresh(r, presented) ==
    /\ req[r].pc = "idle"
    /\ Issued(presented)
    /\ req' = [req EXCEPT ![r] = [pc |-> "refresh", presents |-> presented, now |-> clock,
                                  active |-> active]]
    /\ UNCHANGED <<token, lock, active, clock>>

Usable(r) ==
    LET old == token[req[r].presents] IN
    old.state = "live" /\ old.expires > req[r].now /\ req[r].active

\* Mutant: the SELECT does not lock, so that the check is of the row it saw first.
LockNothing(r) ==
    /\ req[r].pc = "refresh"
    /\ Usable(r)
    /\ req' = [req EXCEPT ![r].pc = "rotate"]
    /\ UNCHANGED <<token, lock, active, clock>>

\* It has the lock, and the token it reads may be replaced.
Lock(r) ==
    /\ req[r].pc = "refresh"
    /\ lock[req[r].presents] = None
    /\ Usable(r)
    /\ lock' = [lock EXCEPT ![req[r].presents] = r]
    /\ req' = [req EXCEPT ![r].pc = "rotate"]
    /\ UNCHANGED <<token, active, clock>>

\* It has the lock, and the token is revoked or expired, or the profile inactive: 401.
Refuse(r) ==
    /\ req[r].pc = "refresh"
    /\ lock[req[r].presents] = None
    /\ ~Usable(r)
    /\ req' = [req EXCEPT ![r] = Idle]
    /\ UNCHANGED <<token, lock, active, clock>>

\* Mutant: the token that is replaced is told its replacement, but not revoked.
RotateLeavesLive(r, fresh) ==
    LET old == req[r].presents IN
    /\ req[r].pc = "rotate"
    /\ ~Issued(fresh)
    /\ token' = [token EXCEPT ![fresh] = Fresh(token[old].family, req[r].now),
                              ![old].next = fresh]
    /\ lock' = [lock EXCEPT ![old] = None]
    /\ req' = [req EXCEPT ![r] = Idle]
    /\ UNCHANGED <<active, clock>>

\* The replacement and the revocation are one commit.
Rotate(r, fresh) ==
    LET old == req[r].presents IN
    /\ req[r].pc = "rotate"
    /\ ~Issued(fresh)
    /\ token' = [token EXCEPT ![fresh] = Fresh(token[old].family, req[r].now),
                              ![old].state = "revoked", ![old].next = fresh]
    /\ lock' = [lock EXCEPT ![old] = None]
    /\ req' = [req EXCEPT ![r] = Idle]
    /\ UNCHANGED <<active, clock>>

\* A statement or the commit fails, or the process ends: rolled back.
Fail(r) ==
    /\ req[r].pc # "idle"
    /\ lock' = [t \in Tokens |-> IF lock[t] = r THEN None ELSE lock[t]]
    /\ req' = [req EXCEPT ![r] = Idle]
    /\ UNCHANGED <<token, active, clock>>

-----------------------------------------------------------------------------
\* logout.

\* revoke_refresh_token: one conditional statement, which waits for the row lock.  A
\* token that is revoked already is left as it is.
Revoke(t) ==
    /\ Live(t)
    /\ lock[t] = None
    /\ token' = [token EXCEPT ![t].state = "revoked"]
    /\ UNCHANGED <<lock, active, clock, req>>

Next ==
    \/ Tick
    \/ SetActive
    \/ \E r \in Requests :
          \/ BeginLogin(r)
          \/ \E fresh \in Tokens : CreateRefreshToken(r, fresh)
          \/ \E presented \in Tokens : BeginRefresh(r, presented)
          \/ Lock(r)
          \/ Refuse(r)
          \/ \E fresh \in Tokens : Rotate(r, fresh)
          \/ Fail(r)
    \/ \E t \in Tokens : Revoke(t)

Spec == Init /\ [][Next]_vars

-----------------------------------------------------------------------------
\* Properties.

\* Every variable holds what its table or the handler lets it hold.
TypeOK ==
    /\ token \in [Tokens -> Row]
    /\ lock \in [Tokens -> Requests \cup {None}]
    /\ active \in BOOLEAN
    /\ clock \in Nat
    /\ req \in [Requests -> Handler]

\* The row lock of a token is held exactly by the request that replaces it: no lock
\* outlives its request, and a logout is never kept waiting for good.
LocksAreHeld ==
    \A t \in Tokens, r \in Requests :
        lock[t] = r <=> req[r].pc = "rotate" /\ req[r].presents = t

\* A login is worth one live token, however many refreshes of whichever of its tokens
\* overlap (rotate_refresh_token takes the row lock before it looks).
OneLivePerFamily ==
    \A t, u \in Tokens : Live(t) /\ Live(u) /\ token[t].family = token[u].family => t = u

\* The tokens of a login are a chain: a replaced token is revoked, its replacement was
\* issued to the same login, replaces no other, and expires no earlier.
ChainIsLinear ==
    \A t \in Tokens : token[t].next # None =>
        LET new == token[t].next IN
        /\ token[t].state = "revoked"
        /\ Issued(new)
        /\ token[new].family = token[t].family
        /\ token[new].expires >= token[t].expires
        /\ \A u \in Tokens : token[u].next = new => u = t

\* A login whose token was revoked by a logout is over: no refresh that raced it leaves
\* the login another token.
LogoutEndsFamily ==
    \A t, u \in Tokens :
        token[t].state = "revoked" /\ token[t].next = None /\ Live(u) =>
            token[u].family # token[t].family

\* A revoked token stays revoked, and its replacement is never exchanged for another.
RevokedForGood ==
    [][\A t \in Tokens : token[t].state = "revoked" => token'[t] = token[t]]_token

=============================================================================
