------------------------------ MODULE Reports -------------------------------
(***************************************************************************)
(* Reading while others write: the overview of the Customer PO dashboard   *)
(* (app/modules/dashboard), which is put together from seven statements,   *)
(* and a walk through the pages of the audit events (app/modules/audit),   *)
(* every page of which is a count and a list.  At READ COMMITTED each      *)
(* statement sees what is committed when it starts, so the parts of one    *)
(* answer may tell of different moments.  A request first loads the rights *)
(* of its user (module Iam).                                               *)
(***************************************************************************)
EXTENDS Iam

CONSTANTS
    Pos,           \* Customer POs of the tenant
    Contents,      \* what a PO may be changed into
    User,          \* who asks
    Assigned,      \* the customers that are assigned to the user
    Team,          \* the customers that are assigned to a group of the user
    Windows,       \* the periods that are asked for: pairs of days, None for one left out
    None,
    Moments,       \* the times of occurrence of audit events
    PageSize,      \* rows of a page
    MaxEvents,     \* bound: audit events
    MaxChanges,    \* bound: POs that are changed during an overview
    MaxGrants,     \* bound: changes of the permission tables
    Grants,        \* the rules that administrators set, or NoRule
    Attached,      \* which sources have which policies,
    FirstRule      \* and what these say, at first

PoStatus == INSTANCE CustomerPoStatus

VARIABLES
    po,            \* committed Customer POs
    events,        \* committed audit events
    grants,        \* changes of the permission tables so far
    reader,        \* the request: where it is and what it has read
    answer,        \* the panels of an overview; the events that pages have shown
    since          \* what was so since the request, or the walk, began

vars == <<tables, po, events, grants, reader, answer, since>>

-----------------------------------------------------------------------------
\* Data.

\* Days are numbered from a Monday.  A line is told by its item and its currency.
Days == Int
Po == [there : BOOLEAN, owner : {User, None}, customer : Assigned \cup Team \cup {None},
       status : PoStatus!Statuses, source : PoStatus!Sources, date : Days \cup {None},
       lines : SUBSET ({"item"} \X {"EUR", "USD"}), deleted : BOOLEAN]

ASSUME NoneAssumption == None \notin Days
ASSUME WindowsAssumption ==
    Windows # {} /\ Windows \subseteq (Days \cup {None}) \X (Days \cup {None})
ASSUME RulesAssumption ==
    /\ Grants \subseteq Grant \cup {NoRule}
    /\ Attached \subseteq Sources \X Policies
    /\ FirstRule \in [Policies -> Grant \cup {NoRule}]
ASSUME ContentsAssumption == Contents \subseteq Po
ASSUME MomentsAssumption == Moments \subseteq Int
ASSUME BoundsAssumption ==
    PageSize \in Nat \ {0} /\ MaxEvents \in Nat /\ MaxChanges \in Nat /\ MaxGrants \in Nat

OpenStatuses == {"DRAFT", "RECEIVED", "VALIDATING", "VALIDATED", "PROCESSING", "ON_HOLD"}
AttentionStatuses == {"ON_HOLD", "VALIDATING"}

FactsOf(x) == [owner |-> po[x].owner = User, assigned |-> po[x].customer \in Assigned,
               team |-> po[x].customer \in Team]

Within(day, window) ==
    /\ window[1] # None => day >= window[1]
    /\ window[2] # None => day <= window[2]

\* Mutant: the previous period is a day too short.
ShorterWindow(window) ==
    <<window[1] - (window[2] - window[1]), window[1] - 1>>

\* The period of the same length just before.
PreviousWindow(window) ==
    <<window[1] - 1 - (window[2] - window[1]), window[1] - 1>>

HasPrevious(window) == window[1] # None /\ window[2] # None

\* default_granularity, and date_trunc.
Granularity(window) ==
    LET days == window[2] - window[1] + 1 IN
    IF ~HasPrevious(window) THEN "MONTH"
    ELSE IF days <= 31 THEN "DAY" ELSE IF days <= 120 THEN "WEEK" ELSE "MONTH"
Bucket(granularity, day) ==
    IF granularity = "DAY" THEN day ELSE IF granularity = "WEEK" THEN day \div 7 ELSE day \div 30

\* _base: the POs of a statement.
Base(scope, window) ==
    {x \in Pos : /\ po[x].there
                 /\ ~po[x].deleted
                 /\ po[x].date # None
                 /\ Sees(scope, FactsOf(x))
                 /\ Within(po[x].date, window)}

\* Audit events, newest first.
Event == [at : Moments, id : 1..MaxEvents]
Before(e, f) == e.at > f.at \/ (e.at = f.at /\ e.id > f.id)
Position(e) == Cardinality({f \in events : Before(f, e)}) + 1

\* Mutant: pages are numbered from 0.
PageFromZero(page) ==
    {e \in events : page * PageSize < Position(e) /\ Position(e) <= (page + 1) * PageSize}
Page(page) ==
    {e \in events : (page - 1) * PageSize < Position(e) /\ Position(e) <= page * PageSize}

-----------------------------------------------------------------------------
\* The request.

\* Panels are sets of pairs of a key and a PO: what an answer gives is how many POs each key
\* has, and their amounts by currency.
Panels == {"summary", "previous", "trend", "status", "source", "customer", "products"}
Stages == {"idle", "profile", "grants", "count", "list", "answered", "refused"} \cup Panels
Reader == [pc : Stages, kind : {"overview", "walk"}, scope : Scopes,
           window : Windows, page : Nat, count : Nat]

\* since: the POs changed, whether the user was active and the scopes he was entitled to, the
\* events that were there at first, and whether one came between a count and its list.
Now == [changed |-> {}, active |-> active, scopes |-> {s \in Scopes : Entitled(s)},
        known |-> events, split |-> FALSE]

TypeOK ==
    /\ IamTypeOK
    /\ po \in [Pos -> Po]
    /\ events \subseteq Event
    /\ grants \in 0..MaxGrants
    /\ reader \in Reader
    /\ answer.shown \subseteq events
    /\ \A p \in Panels : \A entry \in answer[p] : entry[2] \in Pos

\* What a request does not read is left empty.
NoPo == [there |-> FALSE, owner |-> None, customer |-> None, status |-> "DRAFT",
         source |-> "MANUAL", date |-> None, lines |-> {}, deleted |-> FALSE]
Histories == {{[at |-> m, id |-> i] : i \in 1..n} : m \in Moments, n \in 0..MaxEvents}

InitReader(kind) ==
    reader = [pc |-> "idle", kind |-> kind, scope |-> "NONE",
              window |-> CHOOSE w \in Windows : TRUE, page |-> 0, count |-> 0]

Init ==
    /\ active = TRUE
    /\ \E r \in Roles : member = {r} \cup Groups
    /\ gone = {}
    /\ attached = Attached
    /\ rule = FirstRule
    /\ grants = 0
    /\ \/ InitReader("overview") /\ po \in [Pos -> Contents] /\ events = {}
       \/ InitReader("walk") /\ po = [x \in Pos |-> NoPo] /\ events \in Histories
    /\ answer = [p \in Panels \cup {"shown"} |-> {}]
    /\ since = Now

Goes(stage) == reader' = [reader EXCEPT !.pc = stage]

\* A walk has no period.
Begin(window) ==
    /\ reader.pc = "idle"
    /\ reader.kind = "walk" => window = reader.window
    /\ reader' = [reader EXCEPT !.pc = "profile", !.window = window, !.page = 1]
    /\ since' = Now
    /\ UNCHANGED <<tables, po, events, grants, answer>>

\* get_profile; the date filters are checked before the permission, but answer nothing.
LoadProfile ==
    /\ reader.pc = "profile"
    /\ Goes(IF active THEN "grants" ELSE "refused")
    /\ UNCHANGED <<tables, po, events, grants, answer, since>>

Valid(h) == h.kind = "overview" /\ HasPrevious(h.window) => h.window[1] <= h.window[2]

\* get_permission_grants, resolve, and the check of the permission.
LoadGrants ==
    /\ reader.pc = "grants"
    /\ reader' = [reader EXCEPT
                    !.scope = Permission.scope,
                    !.pc = IF ~Permission.allowed \/ ~Valid(reader) THEN "refused"
                           ELSE IF reader.kind = "walk" THEN "count" ELSE "summary"]
    /\ UNCHANGED <<tables, po, events, grants, answer, since>>

-----------------------------------------------------------------------------
\* The statements of the overview.

Keyed(Key(_), pos) == {<<Key(x), x>> : x \in pos}

Summary(pos) ==
    {<<"total", x>> : x \in pos}
      \cup {<<"open", x>> : x \in {y \in pos : po[y].status \in OpenStatuses}}
      \cup {<<po[x].status, x>> :
              x \in {y \in pos : po[y].status \in {"ON_HOLD", "CONVERTED", "CANCELLED"}}}

\* Lines are grouped by item and currency, and every group counts the PO.
Products(pos) == UNION {{<<line, x>> : line \in po[x].lines} : x \in pos}

Trend(pos, window) ==
    LET Key(x) == Bucket(Granularity(window), po[x].date) IN Keyed(Key, pos)

Dimension(column, pos) == LET Key(x) == po[x][column] IN Keyed(Key, pos)

\* What a statement gives when it runs.
Panel(p) ==
    LET window == reader.window
        pos == Base(reader.scope, IF p = "previous" THEN PreviousWindow(window) ELSE window)
    IN  CASE p \in {"summary", "previous"} -> Summary(pos)
          [] p = "trend" -> Trend(pos, window)
          [] p \in {"status", "source", "customer"} -> Dimension(p, pos)
          [] p = "products" -> Products(pos)

After(p) ==
    CASE p = "summary" -> IF HasPrevious(reader.window) THEN "previous" ELSE "trend"
      [] p = "previous" -> "trend"
      [] p = "trend" -> "status"
      [] p = "status" -> "source"
      [] p = "source" -> "customer"
      [] p = "customer" -> "products"
      [] p = "products" -> "answered"

Statement(p) ==
    /\ reader.pc = p
    /\ answer' = [answer EXCEPT ![p] = Panel(p)]
    /\ Goes(After(p))
    /\ UNCHANGED <<tables, po, events, grants, since>>

-----------------------------------------------------------------------------
\* A page of the audit events.

CountEvents ==
    /\ reader.pc = "count"
    /\ reader' = [reader EXCEPT !.pc = "list", !.count = Cardinality(events)]
    /\ since' = [since EXCEPT !.split = FALSE]
    /\ UNCHANGED <<tables, po, events, grants, answer>>

\* The client asks for the next page as long as the total says that there is one.
ListEvents ==
    /\ reader.pc = "list"
    /\ answer' = [answer EXCEPT !.shown = @ \cup Page(reader.page)]
    /\ IF reader.page * PageSize >= reader.count
       THEN Goes("answered") /\ UNCHANGED since
       ELSE /\ reader' = [reader EXCEPT !.pc = "profile", !.page = @ + 1]
            /\ since' = [Now EXCEPT !.known = since.known]
    /\ UNCHANGED <<tables, po, events, grants>>

-----------------------------------------------------------------------------
\* What others commit meanwhile.

\* Every change is also told by an audit event, and every event of a change; but no request
\* reads both.
ChangePo(x, content) ==
    /\ reader.pc \in Panels
    /\ Cardinality(since.changed \cup {x}) <= MaxChanges
    /\ po[x] # content
    /\ po' = [po EXCEPT ![x] = content]
    /\ since' = [since EXCEPT !.changed = @ \cup {x}]
    /\ UNCHANGED <<tables, events, grants, reader, answer>>

\* The time of an event was taken before the commit, so that it may come between older ones.
AppendEvent(event) ==
    /\ reader.kind = "walk" /\ reader.pc \notin {"idle", "answered", "refused"}
    /\ \A e \in events : e.id # event.id
    /\ events' = events \cup {event}
    /\ since' = [since EXCEPT !.split = @ \/ reader.pc = "list"]
    /\ UNCHANGED <<tables, po, grants, reader, answer>>

Administrate ==
    \/ SetActive
    \/ \E role \in SUBSET Roles : SetRole(role)
    \/ \E x \in Roles \cup Groups \cup Policies : SetDeleted(x)
    \/ \E p \in Policies, g \in Grants : SetRule(p, g)

\* A request does not look at the tables again when it has its rights.
ChangeRights ==
    /\ reader.pc \in {"profile", "grants"}
    /\ grants < MaxGrants
    /\ grants' = grants + 1
    /\ Administrate
    /\ since' = [since EXCEPT !.active = @ \/ active',
                              !.scopes = @ \cup {s \in Scopes : Entitled(s)'}]
    /\ UNCHANGED <<po, events, reader, answer>>

Next ==
    \/ \E window \in Windows : Begin(window)
    \/ LoadProfile \/ LoadGrants
    \/ \E p \in Panels : Statement(p)
    \/ CountEvents \/ ListEvents
    \/ \E x \in Pos, content \in Contents : ChangePo(x, content)
    \/ \E event \in Event : AppendEvent(event)
    \/ ChangeRights

Spec == Init /\ [][Next]_vars

-----------------------------------------------------------------------------
\* Properties.

\* A request that answers has found its user active and entitled to the scope that it reads
\* with, by the rules of docs/IAM_MODEL.md, each at some moment since it began: no rights of
\* an earlier moment, and none that a deleted role, group or policy gave.
RightsWereHeld ==
    reader.pc \in Panels \cup {"count", "list"} =>
        since.active /\ reader.scope \in since.scopes

\* The days of "the immediately preceding inclusive period of equal length"
\* (docs/DASHBOARD.md:15-16): each comes as many days before one of the period as that is long.
Precedes(day, window) ==
    HasPrevious(window) /\ Within(day + (window[2] - window[1] + 1), window)

\* The POs that nobody has changed while the overview was read are in every panel once, if
\* they are in the period and the scope, and else in none; the previous period has those of
\* the days that precede the period, and no others, and is left out if the period is open; a
\* product has a PO once for each currency of its lines.
PanelsTellOfUnchanged ==
    reader.pc = "answered" /\ reader.kind = "overview" =>
        \A x \in Pos \ since.changed :
            LET Keys(p) == {entry[1] : entry \in {e \in answer[p] : e[2] = x}}
                open == po[x].status \in OpenStatuses
                counted == x \in Base(reader.scope, reader.window)
                earlier == /\ x \in Base(reader.scope, <<None, None>>)
                           /\ Precedes(po[x].date, reader.window)
            IN  /\ "total" \in Keys("summary") <=> counted
                /\ "open" \in Keys("summary") <=> counted /\ open
                /\ "total" \in Keys("previous") <=> earlier
                /\ "open" \in Keys("previous") <=> earlier /\ open
                /\ \A p \in {"trend", "status", "source", "customer"} :
                      Cardinality(Keys(p)) = IF counted THEN 1 ELSE 0
                /\ Keys("status") \cap {"ON_HOLD"} = Keys("summary") \cap {"ON_HOLD"}
                /\ Keys("products") = IF counted THEN po[x].lines ELSE {}

\* Who walks through the pages until the total says that there are no more has seen every
\* audit event that was there when he began, however many come in on the way; unless one came
\* between the count of the last page and its list, and pushed an older one beyond it.
WalkMissesNothing ==
    reader.pc = "answered" /\ reader.kind = "walk" =>
        since.split \/ since.known \subseteq answer.shown
=============================================================================
