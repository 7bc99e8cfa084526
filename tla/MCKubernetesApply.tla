------------------------- MODULE MCKubernetesApply -------------------------
(***************************************************************************)
(* KubernetesApply with two jobs of one app, the first with two schedules  *)
(* at most.                                                                *)
(***************************************************************************)
EXTENDS KubernetesApply

MCJob == 1..2
MCAppOf == [j \in MCJob |-> "x"]

\* One schedule, two, and two of which Kubernetes cannot express one.
MCSchedules == [v1 |-> <<"hourly">>, v2 |-> <<"five", "hourly">>, v3 |-> <<"bad">>]
MCVersion == DOMAIN MCSchedules

MCTranslate == [hourly |-> "c1", five |-> "c2", bad |-> None]

MCManifest ==
  {[app |-> "x", jobs |-> [j \in {1, 2} |-> "v1"]],
   [app |-> "x", jobs |-> [j \in {1} |-> "v2"]],
   [app |-> "x", jobs |-> [j \in {2} |-> "v3"]]}

MCName == 1..4
MCScheduleName == [name \in MCJob \X {0, 1} |-> 2 * name[1] - 1 + name[2]]
=============================================================================
