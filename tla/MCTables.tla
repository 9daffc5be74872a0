------------------------------ MODULE MCTables ------------------------------
(***************************************************************************)
(* Components that are functions of a table, a setting or a short record:  *)
(* routing, deduplication, retry delay, rotation.  A behaviour moves one   *)
(* of them.                                                                *)
(***************************************************************************)
EXTENDS Router, Backoff, Rotation, DedupHistory

VARIABLE focus

MCMatches == {[k \in {} |-> 0], [k \in {"type"} |-> 1], [k \in {"labels.a"} |-> 1]}

MCRaw == [base : {-1, 0, 1, 3}, factor : {-1, 0, 1, 2, 3}, max : {-1, 0, 1, 5, 31}]
MCDefaults == [base |-> 2, factor |-> 2, max |-> 20]

\* Days of three ticks, of which day 1 has four and days 3 and 5 have two; turns
\* of two days.
MCDayStart == [d \in -4..8 |-> 3 * d + (IF d > 1 THEN 1 ELSE 0) - (IF d > 3 THEN 1 ELSE 0)
                                     - (IF d > 5 THEN 1 ELSE 0)]
MCShifts == {[user |-> u, from |-> s[1], to |-> s[2]] :
               u \in {"u1", "u3"}, s \in {<<-1, 2>>, <<0, 5>>, <<1, 2>>, <<2, 9>>, <<4, 6>>}}
MCRota == <<"u1", "u2", "u3">>

\* Inherit both, disable both, set both, and one of each.
MCPolicies == {[window |-> 0, repeat |-> 0], [window |-> -1, repeat |-> -1],
               [window |-> 1, repeat |-> 2], [window |-> 2, repeat |-> -1]}

TablesInit ==
  /\ RouterInit /\ RotationInit /\ Init
  /\ \/ focus \in {"routes", "rota", "dedup"} /\ cfg = MCDefaults /\ attempts = 0 /\ delay = 0
     \/ focus = "retries" /\ BackoffInit

TablesNext ==
  /\ UNCHANGED focus
  \* Whatever replaces a route of a full table makes one that is reached anyway.
  /\ \/ /\ focus = "routes" /\ DOMAIN table # Names /\ RouterNext
        /\ UNCHANGED <<retryVars, overrides, vars>>
     \/ focus = "retries" /\ ScheduleRetry /\ UNCHANGED <<table, overrides, vars>>
     \/ focus = "rota" /\ RotationNext /\ UNCHANGED <<retryVars, table, vars>>
     \/ focus = "dedup" /\ Next /\ UNCHANGED <<retryVars, table, overrides>>

tablesVars == <<focus, table, retryVars, overrides, vars>>
TablesSpec == TablesInit /\ [][TablesNext]_tablesVars

-----------------------------------------------------------------------------
(* Rotation's properties, looked at where the rota moves: the person who is
   paged at an instant is the newest override that holds it, else the user
   whose turn it is, and the shifts listed ahead of time are those that will be
   paged (onCallAt and spans of plugins/oncall/schedule.go). *)
RotaHolds == focus = "rota" => PagesTheRightPerson /\ ListMatchesPages
=============================================================================
