-------------------------- MODULE KubernetesApply --------------------------
(***************************************************************************)
(* The Kubernetes backend (go/internal/backends/kubernetes) under apply    *)
(* and prune.  A schedule of a job is a pair of resources, a CronJob and   *)
(* the ConfigMap with the trigger spec.  The API server deletes in the     *)
(* foreground: a resource stays, terminating, until the garbage collector  *)
(* has removed it.  apply writes no spec files for this backend.           *)
(***************************************************************************)
EXTENDS BackendCalls

CONSTANTS
  Name,          \* names of resources, numbered in the order of a listing
  ScheduleName,  \* the name of each <<job, schedule index>>
  Translate,     \* the 5-field form of a schedule, None if there is none
  Edited         \* policy.DriftSpecEdited

CronJob ==
  [job : Job, index : Nat, hash : Version \X Nat, cron : Range(Translate),
   terminating : BOOLEAN]
ConfigMap == [job : Job, index : Nat, version : Version, terminating : BOOLEAN]

KubernetesAssumption ==
  /\ Name \subseteq Nat /\ IsFiniteSet(Name) /\ Range(ScheduleName) \subseteq Name
  /\ \A v \in Version : \A n \in DOMAIN Schedules[v] :
       /\ Schedules[v][n] \in DOMAIN Translate
       /\ \A j \in Job : <<j, n - 1>> \in DOMAIN ScheduleName
  /\ None \notin CronJob /\ None \notin ConfigMap
  /\ Edited \notin Version \X Nat

VARIABLES
  cronjobs,    \* the owned CronJobs, by name
  configmaps   \* the owned ConfigMaps, by name without -spec

resources == <<cronjobs, configmaps>>
vars == <<resources, callVars>>

CronOf(v, idx) == Translate[Schedules[v][idx + 1]]

\* buildResources.
BuildCronJob(j, v, idx) ==
  [job |-> j, index |-> idx, hash |-> Hash(v, idx), cron |-> CronOf(v, idx),
   terminating |-> FALSE]
BuildConfigMap(j, v, idx) ==
  [job |-> j, index |-> idx, version |-> v, terminating |-> FALSE]

\* The names, in order, of the resources labelled with the job j.
Labelled(resource, j) ==
  InOrder({n \in Name : resource[n] # None /\ resource[n].job = j})

\* The label taken for the spec and the schedule.
HashAsLabelled(n) == cronjobs[n].hash

\* computeListHash: what the ConfigMap says, if it says anything of this
\* schedule, and whether the CronJob runs by it; otherwise the label.
ListHash(n) ==
  LET cj == cronjobs[n]
      cm == configmaps[n]
      silent == \/ cm = None
                \/ cj.index >= Len(Schedules[cm.version])
                \/ CronOf(cm.version, cj.index) = None
  IN  IF silent THEN cj.hash
      ELSE IF cj.cron # CronOf(cm.version, cj.index) THEN Edited
      ELSE Hash(cm.version, cj.index)

\* List: the CronJobs labelled as managed, terminating ones included.
List ==
  LET owned == InOrder({n \in Name : cronjobs[n] # None})
  IN  [k \in DOMAIN owned |->
         [job |-> cronjobs[owned[k]].job, hash |-> ListHash(owned[k]),
          index |-> cronjobs[owned[k]].index]]

(* The calls of an operation.                                              *)

\* A deletion of each of these names, in their order.
DeleteEach(what, names) ==
  [k \in DOMAIN names |-> [do |-> what, name |-> names[k]]]

\* The CronJobs with the labels of the job, then its ConfigMaps, which are
\* listed when the CronJobs have been deleted.
DeleteCalls(j) ==
  DeleteEach("deleteCronJob", Labelled(cronjobs, j))
    \o <<[do |-> "listConfigMaps", job |-> j]>>

\* A pair per schedule, the ConfigMap first, up to one that Kubernetes cannot
\* express.
CreateCalls(j, v) ==
  [k \in 1..2 * Len(Schedules[v]) |->
     LET idx == (k - 1) \div 2
         name == ScheduleName[<<j, idx>>]
     IN  IF CronOf(v, idx) = None THEN Refusal
         ELSE IF k % 2 = 1
           THEN [do |-> "createConfigMap", name |-> name,
                 object |-> BuildConfigMap(j, v, idx)]
           ELSE [do |-> "createCronJob", name |-> name,
                 object |-> BuildCronJob(j, v, idx)]]

\* The pairs created over those that are there.
UpdateInPlace(j, v) == CreateCalls(j, v)

UpdateCalls(j, v) == DeleteCalls(j) \o CreateCalls(j, v)

-----------------------------------------------------------------------------
Init ==
  /\ cronjobs = [n \in Name |-> None]
  /\ configmaps = [n \in Name |-> None]
  /\ CallsInit

OneJob(c) ==
  Operation(c, DeleteCalls, UpdateCalls, CreateCalls) /\ UNCHANGED resources

(* The API server.                                                         *)

\* A resource that is gone is as good as deleted.
Terminate(resource, n) ==
  IF resource[n] = None THEN resource
  ELSE [resource EXCEPT ![n].terminating = TRUE]

\* The code takes "already exists" for success, whatever exists.
CreateUnlessThere(resource, n, object) ==
  IF resource[n] = None THEN [resource EXCEPT ![n] = object] ELSE resource

CronJobCall(call) ==
  /\ \/ /\ call.do = "deleteCronJob"
        /\ cronjobs' = Terminate(cronjobs, call.name)
     \/ /\ call.do = "createCronJob"
        /\ cronjobs' = CreateUnlessThere(cronjobs, call.name, call.object)
  /\ UNCHANGED configmaps

ConfigMapCall(call) ==
  /\ \/ /\ call.do = "deleteConfigMap"
        /\ configmaps' = Terminate(configmaps, call.name)
     \/ /\ call.do = "createConfigMap"
        /\ configmaps' = CreateUnlessThere(configmaps, call.name, call.object)
  /\ UNCHANGED cronjobs

\* The next call succeeds.
RunCall(c) ==
  /\ calls[c] # <<>>
  /\ LET call == Head(calls[c])
     IN  \/ NextCall(c, <<>>) /\ (CronJobCall(call) \/ ConfigMapCall(call))
         \/ /\ call.do = "listConfigMaps"
            /\ NextCall(c, DeleteEach("deleteConfigMap",
                                     Labelled(configmaps, call.job)))
            /\ UNCHANGED resources

Other(c) == Between(c, List) /\ UNCHANGED resources

Stops(c) == Abort(c) /\ UNCHANGED resources

\* The garbage collector removes a terminating resource.
Collect ==
  /\ \E n \in Name :
       \/ /\ cronjobs[n] # None /\ cronjobs[n].terminating
          /\ cronjobs' = [cronjobs EXCEPT ![n] = None]
          /\ UNCHANGED configmaps
       \/ /\ configmaps[n] # None /\ configmaps[n].terminating
          /\ configmaps' = [configmaps EXCEPT ![n] = None]
          /\ UNCHANGED cronjobs
  /\ UNCHANGED callVars

\* kubectl edit of a schedule, or kubectl delete of one resource of a pair.
EditByHand ==
  /\ ByHand
  /\ \E n \in Name :
       \/ /\ cronjobs[n] # None
          /\ \/ \E cron \in Range(Translate) \ {None} :
                  cronjobs' = [cronjobs EXCEPT ![n].cron = cron]
             \/ cronjobs' = [cronjobs EXCEPT ![n] = None]
          /\ UNCHANGED configmaps
       \/ /\ configmaps[n] # None
          /\ configmaps' = [configmaps EXCEPT ![n] = None]
          /\ UNCHANGED cronjobs

Next ==
  \/ \E c \in Command : OneJob(c) \/ RunCall(c) \/ Other(c) \/ Stops(c)
  \/ Collect
  \/ EditByHand

Spec == Init /\ [][Next]_vars

-----------------------------------------------------------------------------
\* A resource has the name that its labels say.
TypeOK ==
  /\ \A n \in Name, resource \in {cronjobs, configmaps} :
       resource[n] # None =>
         ScheduleName[<<resource[n].job, resource[n].index>>] = n
  /\ CallsTypeOK

\* The pairs that m asks for.
Wanted(m) ==
  UNION {{[job |-> j, version |-> m.jobs[j], index |-> k - 1] :
            k \in DOMAIN Schedules[m.jobs[j]]} : j \in DOMAIN m.jobs}

NameOf(w) == ScheduleName[<<w.job, w.index>>]

Owned(resource, x) ==
  {n \in Name : resource[n] # None /\ AppOf[resource[n].job] = x}

RunsBy(w) == cronjobs[NameOf(w)].cron = CronOf(w.version, w.index)
Mounts(w) == configmaps[NameOf(w)].version = w.version

\* An empty plan for m means that the CronJobs of its app, those that still
\* terminate included, are those of m, each running by its schedule and with
\* its spec mounted, if somebody has not deleted the ConfigMap; and what is
\* wholly as m says has an empty plan ("a manual kubectl edit cronjob that
\* mutates the schedule still surfaces as drift", kubernetes.go:178-182).
PlanTellsCron ==
  \A m \in Manifest :
    LET noop == IsNoop(Compute(m, List))
        ws == Wanted(m)
        here == Owned(cronjobs, m.app) = {NameOf(w) : w \in ws}
        mapped == {w \in ws : configmaps[NameOf(w)] # None}
        agree == here /\ \A w \in mapped : RunsBy(w) /\ Mounts(w)
    IN  /\ noop => agree
        /\ agree /\ mapped = ws => noop

\* After an apply that succeeds, no CronJob of its app outlives the deletions
\* but those of its manifest, each with the schedule that it asks for, unless
\* its ConfigMap is missing: whatever failed before, and although creates that
\* meet an old CronJob are taken for done.
OnlyWantedFire ==
  \A c \in Command :
    Succeeds(c) =>
      LET ws == Wanted(want[c])
      IN  \A n \in Owned(cronjobs, want[c].app) :
            \/ cronjobs[n].terminating
            \/ \E w \in ws :
                 NameOf(w) = n /\ (RunsBy(w) \/ configmaps[n] = None)

\* "Update replaces all owned (CronJob, ConfigMap) pairs for (app, job.Name)
\* with the freshly rendered form" (kubernetes.go:278-279): when apply
\* succeeds, the pairs of the jobs it has updated are there.
UpdateReplaces ==
  [][\A c \in Command :
       Succeeds(c) =>
         \A w \in Wanted(want[c]) :
           w.job \in plan[c].updates =>
             /\ cronjobs[NameOf(w)] = BuildCronJob(w.job, w.version, w.index)
             /\ configmaps[NameOf(w)]
                  = BuildConfigMap(w.job, w.version, w.index)]_vars
=============================================================================
