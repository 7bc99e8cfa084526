-------------------------------- MODULE MCApp --------------------------------
(***************************************************************************)
(* The parts around one fire, one of them per behaviour: its delivery to   *)
(* the application, the two verifiers, global-status, history and the two  *)
(* normalizations, each with a small instance of its module.               *)
(***************************************************************************)
EXTENDS Delivery, GlobalStatus, Signing, MCNormalize, TLC

VARIABLES
  part,       \* what this behaviour is
  log, run    \* History

\* Two attempts of one unit with a pause of one: answers up to time 3 count.
MCPause == <<1, 1>>

\* Headers of up to three segments, made and read at times that are nothing,
\* less than the window, the window and more than the window apart; the time
\* and the window of a call are given, given as 0 or left out.
MCTimes == {0, 1, 6}
MCCalls == [now : {Absent, 0, 6}, skew : {Absent, 0, 1}, clock : {1, 6}]
MCAccepted == {<<>>, <<"a">>, <<"", "a">>, <<"b", "a">>}
Headers ==
  {<<>>} \cup {<<x>> : x \in Segment} \cup {<<x, y>> : x, y \in Segment}
  \cup {<<x, y, z>> : x, y, z \in Segment}

\* --parallel 2, and the one slot that --parallel 0 leaves.
MCParallels == {0, 2}

\* Two runs of the job, and a line of something else among theirs.
H == INSTANCE History WITH Run <- {"r1", "r2"}, MaxOther <- 1

-----------------------------------------------------------------------------
historyVs == <<log, run>>
inputVs == <<header, manifest>>
appVars == <<part, deliveryVars, statusVars, historyVs, inputVs>>

NoReport ==
  /\ filter = {} /\ parallel = 2 /\ loop = Backends + 1 /\ slots = {}
  /\ results = <<>> /\ worker = [e \in Entry |-> Idle] /\ main = "done"

AppInit ==
  /\ part \in {"delivery", "verify", "status", "history", "normalize"}
  /\ DeliveryInit /\ H!HistoryInit
  /\ IF part = "status" THEN StatusInit ELSE NoReport
  /\ header \in IF part = "verify" THEN Headers ELSE {<<>>}
  /\ manifest \in IF part = "normalize" THEN MCManifests
                                        ELSE {[jobs |-> <<>>, unknown |-> FALSE]}

DeliveryPart ==
  /\ part = "delivery" /\ DeliveryNext
  /\ UNCHANGED <<part, statusVars, historyVs, inputVs>>

HistoryPart ==
  /\ part = "history" /\ H!HistoryNext
  /\ UNCHANGED <<part, deliveryVars, statusVars, inputVs>>

Others == <<part, deliveryVars, historyVs, inputVs>>

LoopPart == part = "status" /\ (Skip \/ Start \/ Report) /\ UNCHANGED Others

WorkPart(e) == part = "status" /\ Work(e) /\ UNCHANGED Others

AppNext ==
  \/ DeliveryPart \/ HistoryPart
  \/ LoopPart \/ \E e \in Entry : WorkPart(e)

\* GlobalStatus!StatusFairness; the other parts may stop.
AppSpec ==
  /\ AppInit /\ [][AppNext]_appVars
  /\ WF_appVars(LoopPart)
  /\ \A e \in Entry : WF_appVars(WorkPart(e))

-----------------------------------------------------------------------------
\* History says of each run what the shim's own end of it was, in any order of
\* the lines of two runs.
HistoryIsTrue == H!HistoryIsTrue

\* The instances stand where their assumptions hold.
ASSUME DeliveryAssumption
=============================================================================
