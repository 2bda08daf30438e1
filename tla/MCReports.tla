----------------------------- MODULE MCReports ------------------------------
(***************************************************************************)
(* The instance of Reports that TLC checks.  The user has a role, a group  *)
(* of his tenant and one of another; a policy each, and the role's one     *)
(* directly too.  The POs are his own or his team's; they fall into the    *)
(* period asked for, on the first or the last day of the one before, or on *)
(* the day before that.                                                    *)
(***************************************************************************)
EXTENDS Reports

CONSTANTS Mine, Ours

Blank == [there |-> TRUE, owner |-> None, customer |-> Ours, status |-> "DRAFT",
          source |-> "MANUAL", date |-> 10, lines |-> {<<"item", "EUR">>}, deleted |-> FALSE]
States ==
    {[Blank EXCEPT !.owner = User],
     [Blank EXCEPT !.status = "ON_HOLD", !.date = 7,
                   !.lines = {<<"item", "EUR">>, <<"item", "USD">>}],
     [Blank EXCEPT !.status = "CONVERTED", !.date = 9, !.customer = Mine],
     [Blank EXCEPT !.date = 6],
     [Blank EXCEPT !.deleted = TRUE]}

MineOnly == {Mine}
OursOnly == {Ours}
Asked == {<<10, 12>>, <<None, 10>>, <<1, 45>>, <<2, 1>>}
Allow(scope) == [effect |-> "ALLOW", scope |-> scope]
Deny == [effect |-> "DENY", scope |-> "NONE"]
Effects == {Allow("OWN"), Deny}
Paths == {<<"sales", "p1">>, <<"desk", "p2">>, <<"abroad", "p3">>, <<"direct", "p1">>}
AtFirst == [p1 |-> Allow("TEAM"), p2 |-> Allow("ALL"), p3 |-> Deny]
=============================================================================
