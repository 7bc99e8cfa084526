--------------------------- MODULE MCCrontabApply ---------------------------
(***************************************************************************)
(* CrontabApply with two jobs of one app and one of another.               *)
(***************************************************************************)
EXTENDS CrontabApply

MCJob == 1..3
MCAppOf == [j \in MCJob |-> IF j = 3 THEN "y" ELSE "x"]

\* One schedule, two schedules, and one that cron can express of two.
MCSchedules == [v1 |-> <<"c1">>, v2 |-> <<"c1", "c2">>, v3 |-> <<"bad", "c1">>]
MCVersion == DOMAIN MCSchedules

JobVersions(js, v) == [j \in js |-> v]

\* App x adds, changes, renames and removes a job; app y comes and goes.
MCManifest ==
  {[app |-> "x", jobs |-> JobVersions({1, 2}, "v1")],
   [app |-> "x", jobs |-> JobVersions({1}, "v2")],
   [app |-> "x", jobs |-> JobVersions({2}, "v3")],
   [app |-> "y", jobs |-> JobVersions({3}, "v2")],
   [app |-> "y", jobs |-> JobVersions({}, "v1")]}
=============================================================================
