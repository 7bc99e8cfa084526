--------------------------- MODULE MCSystemdApply ---------------------------
(***************************************************************************)
(* SystemdApply with two jobs of one app.                                  *)
(***************************************************************************)
EXTENDS SystemdApply

MCJob == 1..2
MCAppOf == [j \in MCJob |-> "x"]

\* One schedule, two schedules, and two of which OnCalendar cannot express one.
MCSchedules == [v1 |-> <<"c1">>, v2 |-> <<"c1", "c2">>, v3 |-> <<"c1", "bad">>]
MCVersion == DOMAIN MCSchedules

JobVersions(js, v) == [j \in js |-> v]

MCManifest ==
  {[app |-> "x", jobs |-> JobVersions({1, 2}, "v1")],
   [app |-> "x", jobs |-> JobVersions({1}, "v2")],
   [app |-> "x", jobs |-> JobVersions({2}, "v3")]}

\* Units 1 and 2 for job 1, 3 and 4 for job 2.
MCUnit == 1..4
MCScheduleName == [name \in MCJob \X {0, 1} |-> 2 * name[1] - 1 + name[2]]

\* Names that no glob confuses.
MCMatches == [j \in MCJob |-> {2 * j - 1, 2 * j}]

\* Unit 5 is an operator's, called cronix-<app>-<job>-... after job 2.
MCUnitMore == 1..5
MCMatchesMore == [MCMatches EXCEPT ![2] = @ \cup {5}]
=============================================================================
