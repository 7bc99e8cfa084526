-------------------------- MODULE KubernetesProofs --------------------------
(***************************************************************************)
(* Of KubernetesApply, for any jobs, versions and commands at once: a      *)
(* resource has the name that its labels say, and an empty plan means that *)
(* every CronJob runs by the schedule of its manifest.  For a command that *)
(* has no other beside it: after an apply that succeeds only the CronJobs  *)
(* of the manifest fire.                                                   *)
(***************************************************************************)
EXTENDS KubernetesApply, PlanProofs

\* A resource has the name of its job and index.
HasName(x, n) ==
  /\ <<x.job, x.index>> \in DOMAIN ScheduleName
  /\ ScheduleName[<<x.job, x.index>>] = n

\* A ConfigMap is only made for a schedule that Kubernetes can express.
IsExpressed(x) ==
  x.index < Len(Schedules[x.version]) /\ CronOf(x.version, x.index) # None

ResourcesOK ==
  /\ cronjobs \in [Name -> CronJob \cup {None}]
  /\ configmaps \in [Name -> ConfigMap \cup {None}]
  /\ \A n \in Name : cronjobs[n] # None => HasName(cronjobs[n], n)
  /\ \A n \in Name :
       configmaps[n] # None => HasName(configmaps[n], n) /\ IsExpressed(configmaps[n])

Call ==
  {Refusal} \cup [do : {"deleteCronJob", "deleteConfigMap"}, name : Name]
            \cup [do : {"listConfigMaps"}, job : Job]
            \cup [do : {"createCronJob"}, name : Name, object : CronJob]
            \cup [do : {"createConfigMap"}, name : Name, object : ConfigMap]

\* Each create gives the resource its name.
SafeCall ==
  {call \in Call :
     /\ call.do \in {"createCronJob", "createConfigMap"} =>
          HasName(call.object, call.name)
     /\ call.do = "createConfigMap" => IsExpressed(call.object)}

KubernetesInv ==
  /\ ResourcesOK
  /\ CommandInv
  /\ edits \in 0..MaxEdits
  /\ calls \in [Command -> Seq(SafeCall)]
  /\ \A c \in Command :
       calls[c] # <<>> => pc[c] \in {"delete", "prune", "update", "create"}

-----------------------------------------------------------------------------
(* What the API server lists.                                              *)

Managed == {n \in Name : cronjobs[n] # None}

LEMMA CronJobIs ==
  ASSUME ResourcesOK, NEW n \in Managed
  PROVE  /\ n \in Name /\ cronjobs[n] \in CronJob /\ HasName(cronjobs[n], n)
         /\ cronjobs[n].job \in Job /\ cronjobs[n].index \in Nat
  <1>1. n \in Name /\ cronjobs[n] # None
    BY DEF Managed
  <1>2. cronjobs[n] \in CronJob
    BY <1>1 DEF ResourcesOK
  <1>3. cronjobs[n].job \in Job /\ cronjobs[n].index \in Nat
    BY <1>2 DEF CronJob
  <1> QED BY <1>1, <1>2, <1>3 DEF ResourcesOK

\* Each CronJob is listed once, by its job and index.
LEMMA ListIs ==
  ASSUME KubernetesAssumption, ResourcesOK
  PROVE  /\ IsListing(List) /\ IsOnce(List) /\ Listed(List) \subseteq Job
         /\ \A k \in DOMAIN List : \E n \in Managed :
              /\ List[k].job = cronjobs[n].job /\ List[k].index = cronjobs[n].index
              /\ List[k].hash = ListHash(n)
         /\ \A n \in Managed : \E k \in DOMAIN List :
              /\ List[k].job = cronjobs[n].job /\ List[k].index = cronjobs[n].index
              /\ List[k].hash = ListHash(n)
  <1> DEFINE names == InOrder(Managed)
             size == Cardinality(Managed)
             entry(n) == [job |-> cronjobs[n].job, hash |-> ListHash(n),
                          index |-> cronjobs[n].index]
  <1>1. Managed \in SUBSET Nat /\ IsFiniteSet(Managed)
    <2>1. Name \subseteq Nat /\ IsFiniteSet(Name) /\ Managed \in SUBSET Name
      BY DEF KubernetesAssumption, Managed
    <2> QED BY <2>1, FS_Subset
  <1>2. /\ size \in Nat /\ DOMAIN names = 1..size
        /\ \A k \in 1..size : names[k] \in Managed
        /\ \A k, l \in 1..size : names[k] = names[l] => k = l
        /\ \A n \in Managed : \E k \in 1..size : names[k] = n
    BY <1>1, InOrderLists
  <1>3. List = [k \in DOMAIN names |-> entry(names[k])]
    BY DEF List, Managed
  <1>4. \A n : /\ entry(n).job = cronjobs[n].job /\ entry(n).hash = ListHash(n)
               /\ entry(n).index = cronjobs[n].index
    OBVIOUS
  <1> HIDE DEF names, size, entry
  <1>5. /\ DOMAIN List = 1..size
        /\ \A k \in 1..size : List[k] = entry(names[k])
    BY <1>2, <1>3
  <1>6. \A k \in 1..size : /\ List[k].job = cronjobs[names[k]].job
                           /\ List[k].index = cronjobs[names[k]].index
                           /\ List[k].hash = ListHash(names[k])
    BY <1>4, <1>5
  <1>7. \A n \in Managed : /\ cronjobs[n].job \in Job /\ cronjobs[n].index \in Nat
                           /\ HasName(cronjobs[n], n)
    BY CronJobIs
  <1>8. IsListing(List)
    <2>1. IsFiniteSet(1..size) /\ 1..size \subseteq Nat
      BY <1>2, FS_Interval
    <2>2. \A k \in 1..size : List[k].index \in Nat
      BY <1>2, <1>6, <1>7
    <2> QED BY <1>5, <2>1, <2>2 DEF IsListing
  <1>9. IsOnce(List)
    <2>1. \A k \in 1..size : ScheduleName[<<List[k].job, List[k].index>>] = names[k]
      BY <1>2, <1>6, <1>7 DEF HasName
    <2> SUFFICES ASSUME NEW k \in 1..size, NEW l \in 1..size,
                        List[k].job = List[l].job, List[k].index = List[l].index
                 PROVE  k = l
      BY <1>5 DEF IsOnce
    <2>2. <<List[k].job, List[k].index>> = <<List[l].job, List[l].index>>
      OBVIOUS
    <2>3. names[k] = names[l]
      BY <2>1, <2>2
    <2> QED BY <1>2, <2>3
  <1>10. Listed(List) \subseteq Job
    <2>1. \A k \in DOMAIN List : List[k].job \in Job
      BY <1>2, <1>5, <1>6, <1>7
    <2> QED BY <2>1 DEF Listed
  <1> QED BY <1>2, <1>5, <1>6, <1>8, <1>9, <1>10

LEMMA LabelledIs ==
  ASSUME KubernetesAssumption, NEW resource, NEW j
  PROVE  \E size \in Nat :
           /\ DOMAIN Labelled(resource, j) = 1..size
           /\ \A k \in 1..size : Labelled(resource, j)[k] \in Name
  <1> DEFINE S == {n \in Name : resource[n] # None /\ resource[n].job = j}
  <1>1. S \in SUBSET Nat /\ IsFiniteSet(S) /\ S \in SUBSET Name
    <2>1. Name \subseteq Nat /\ IsFiniteSet(Name) /\ S \in SUBSET Name
      BY DEF KubernetesAssumption
    <2> HIDE DEF S
    <2> QED BY <2>1, FS_Subset
  <1>2. Labelled(resource, j) = InOrder(S)
    BY DEF Labelled
  <1> HIDE DEF S
  <1> QED BY <1>1, <1>2, InOrderLists

-----------------------------------------------------------------------------
(* The calls of an operation.                                              *)

LEMMA DeletesAreSafe ==
  ASSUME KubernetesAssumption, NEW resource, NEW j,
         NEW what \in {"deleteCronJob", "deleteConfigMap"}
  PROVE  DeleteEach(what, Labelled(resource, j)) \in Seq(SafeCall)
  <1> DEFINE names == Labelled(resource, j)
             delete(n) == [do |-> what, name |-> n]
  <1>1. PICK size \in Nat : /\ DOMAIN names = 1..size
                            /\ \A k \in 1..size : names[k] \in Name
    BY LabelledIs
  <1>2. DeleteEach(what, names) = [k \in DOMAIN names |-> delete(names[k])]
    BY DEF DeleteEach
  <1>3. \A n \in Name : delete(n) \in SafeCall
    BY DEF SafeCall, Call
  <1> HIDE DEF names, delete
  <1>4. DeleteEach(what, names) \in [1..size -> SafeCall]
    BY <1>1, <1>2, <1>3
  <1>5. DeleteEach(what, names) \in Seq(SafeCall)
    BY <1>4, SeqDef
  <1> QED BY <1>5 DEF names

\* The schedule that the k-th call of a create is for.
LEMMA PairOf ==
  ASSUME NEW size \in Nat, NEW k \in 1..2 * size
  PROVE  (k - 1) \div 2 \in Nat /\ (k - 1) \div 2 < size
         /\ (k - 1) \div 2 + 1 \in 1..size
  OBVIOUS

LEMMA CreatesAreSafe ==
  ASSUME KubernetesAssumption, NEW j \in Job, NEW v \in Version
  PROVE  CreateCalls(j, v) \in Seq(SafeCall)
  <1> DEFINE size == Len(Schedules[v])
             idxOf(k) == (k - 1) \div 2
             config(i) == [do |-> "createConfigMap", name |-> ScheduleName[<<j, i>>],
                           object |-> BuildConfigMap(j, v, i)]
             cron(i) == [do |-> "createCronJob", name |-> ScheduleName[<<j, i>>],
                         object |-> BuildCronJob(j, v, i)]
             call(k) == IF CronOf(v, idxOf(k)) = None THEN Refusal
                        ELSE IF k % 2 = 1 THEN config(idxOf(k)) ELSE cron(idxOf(k))
  <1>1. size \in Nat /\ DOMAIN Schedules[v] = 1..size
    BY ReconcileAssumption
  <1>2. ASSUME NEW i \in Nat, i + 1 \in 1..size, i < size
        PROVE  /\ <<j, i>> \in DOMAIN ScheduleName /\ ScheduleName[<<j, i>>] \in Name
               /\ CronOf(v, i) \in Range(Translate)
    <2>1. /\ Schedules[v][i + 1] \in DOMAIN Translate
          /\ <<j, (i + 1) - 1>> \in DOMAIN ScheduleName
          /\ Range(ScheduleName) \subseteq Name
      BY <1>1, <1>2 DEF KubernetesAssumption
    <2>2. (i + 1) - 1 = i
      OBVIOUS
    <2> QED BY <2>1, <2>2 DEF Range, CronOf
  <1>3. ASSUME NEW i \in Nat, i + 1 \in 1..size, i < size, CronOf(v, i) # None
        PROVE  config(i) \in SafeCall /\ cron(i) \in SafeCall
    <2> DEFINE cm == BuildConfigMap(j, v, i)
               cj == BuildCronJob(j, v, i)
               name == ScheduleName[<<j, i>>]
    <2>1. /\ cm = [job |-> j, index |-> i, version |-> v, terminating |-> FALSE]
          /\ cj = [job |-> j, index |-> i, hash |-> Hash(v, i), cron |-> CronOf(v, i),
                   terminating |-> FALSE]
      BY DEF BuildConfigMap, BuildCronJob
    <2>2. /\ Hash(v, i) \in Version \X Nat /\ CronOf(v, i) \in Range(Translate)
          /\ FALSE \in BOOLEAN /\ name \in Name
          /\ <<j, i>> \in DOMAIN ScheduleName
      BY <1>2, <1>3 DEF Hash
    <2> HIDE DEF size, config, cron, name
    <2>3. cm \in ConfigMap /\ cm.job = j /\ cm.index = i /\ cm.version = v
      <3> HIDE DEF cm
      <3> QED BY <2>1 DEF ConfigMap
    <2>4. cj \in CronJob /\ cj.job = j /\ cj.index = i
      <3> HIDE DEF cj
      <3> QED BY <2>1, <2>2 DEF CronJob
    <2> HIDE DEF cm, cj
    <2>5. HasName(cm, name) /\ HasName(cj, name) /\ IsExpressed(cm)
      BY <1>3, <2>2, <2>3, <2>4 DEF HasName, IsExpressed, name, size
    <2>6. [do |-> "createConfigMap", name |-> name, object |-> cm] \in SafeCall
      BY <2>2, <2>3, <2>5 DEF SafeCall, Call
    <2>7. [do |-> "createCronJob", name |-> name, object |-> cj] \in SafeCall
      BY <2>2, <2>4, <2>5 DEF SafeCall, Call
    <2> QED BY <2>6, <2>7 DEF config, cron, name, cm, cj
  <1>4. Refusal \in SafeCall
    BY DEF Refusal, SafeCall, Call
  <1>5. \A k \in 1..2 * size : /\ idxOf(k) \in Nat /\ idxOf(k) < size
                               /\ idxOf(k) + 1 \in 1..size
    <2> HIDE DEF size
    <2> QED BY <1>1, PairOf
  <1>6. CreateCalls(j, v) = [k \in 1..2 * size |-> call(k)]
    BY DEF CreateCalls
  <1> HIDE DEF size, idxOf, config, cron
  <1>7. \A k \in 1..2 * size : call(k) \in SafeCall
    BY <1>3, <1>4, <1>5
  <1> HIDE DEF call
  <1>8. CreateCalls(j, v) \in [1..2 * size -> SafeCall] /\ 2 * size \in Nat
    BY <1>1, <1>6, <1>7
  <1> QED BY <1>8, SeqDef

LEMMA OperationsAreSafe ==
  ASSUME KubernetesAssumption, NEW j \in Job
  PROVE  /\ DeleteCalls(j) \in Seq(SafeCall)
         /\ \A v \in Version : /\ CreateCalls(j, v) \in Seq(SafeCall)
                               /\ UpdateCalls(j, v) \in Seq(SafeCall)
  <1>1. DeleteEach("deleteCronJob", Labelled(cronjobs, j)) \in Seq(SafeCall)
    BY DeletesAreSafe
  <1>2. <<[do |-> "listConfigMaps", job |-> j]>> \in Seq(SafeCall)
    <2>1. [do |-> "listConfigMaps", job |-> j] \in SafeCall
      BY DEF SafeCall, Call
    <2> QED BY <2>1
  <1>3. DeleteCalls(j) \in Seq(SafeCall)
    BY <1>1, <1>2, ConcatProperties DEF DeleteCalls
  <1>4. ASSUME NEW v \in Version
        PROVE  /\ CreateCalls(j, v) \in Seq(SafeCall)
               /\ UpdateCalls(j, v) \in Seq(SafeCall)
    <2>1. CreateCalls(j, v) \in Seq(SafeCall)
      BY CreatesAreSafe
    <2> QED BY <1>3, <2>1, ConcatProperties DEF UpdateCalls
  <1> QED BY <1>3, <1>4
-----------------------------------------------------------------------------
(* The inductive invariant of KubernetesApply.                             *)

LEMMA KubernetesInit == Init => KubernetesInv
  <1> SUFFICES ASSUME Init PROVE KubernetesInv
    OBVIOUS
  <1>1. CommandInv
    BY CommandInitOK DEF Init, CallsInit
  <1>2. ResourcesOK
    BY DEF Init, ResourcesOK
  <1>3. edits \in 0..MaxEdits
    BY CallsAssumption DEF Init, CallsInit
  <1>4. <<>> \in Seq(SafeCall) /\ \A c \in Command : calls[c] = <<>>
    BY EmptySeq DEF Init, CallsInit
  <1>5. calls \in [Command -> Seq(SafeCall)]
    BY <1>4 DEF Init, CallsInit
  <1> QED BY <1>1, <1>2, <1>3, <1>4, <1>5 DEF KubernetesInv

\* An operation begins: the resources stay as they are.
LEMMA OneJobKeeps ==
  ASSUME KubernetesAssumption, KubernetesInv, NEW c \in Command, OneJob(c)
  PROVE  KubernetesInv'
  <1>1. PICK j \in Job :
          \/ CallDelete(c, j) /\ Begin(c, DeleteCalls(j))
          \/ CallUpdate(c, j) /\ Begin(c, UpdateCalls(j, want[c].jobs[j]))
          \/ CallCreate(c, j) /\ Begin(c, CreateCalls(j, want[c].jobs[j]))
    BY DEF OneJob, Operation
  <1>2. UNCHANGED <<cronjobs, configmaps>>
    BY DEF OneJob, resources
  <1>3. CommandInv'
    BY <1>1, CallKeeps DEF KubernetesInv
  <1>4. ASSUME CallUpdate(c, j) \/ CallCreate(c, j)
        PROVE  want[c].jobs[j] \in Version
    <2>1. /\ pc[c] \in {"update", "create"} /\ todo[c] # {} /\ j = NextJob(c)
      BY <1>4 DEF CallUpdate, CallCreate
    <2>2. want[c] \in Manifest /\ todo[c] \subseteq DOMAIN want[c].jobs
      BY <2>1 DEF KubernetesInv, CommandInv, ApplyOK, Stopped
    <2>3. j \in DOMAIN want[c].jobs
      BY <2>1, <2>2, NextJobIs DEF KubernetesInv
    <2> QED BY <2>2, <2>3, CommandAssumption
  <1>5. PICK ops \in Seq(SafeCall) : Begin(c, ops)
    BY <1>1, <1>4, OperationsAreSafe
  <1>6. calls' = [calls EXCEPT ![c] = ops] /\ edits' = edits
    BY <1>5 DEF Begin
  <1>7. pc' = pc /\ pc[c] \in {"delete", "prune", "update", "create"}
    BY <1>1 DEF CallDelete, CallUpdate, CallCreate
  <1>8. ResourcesOK'
    BY <1>2 DEF KubernetesInv, ResourcesOK
  <1> QED BY <1>3, <1>6, <1>7, <1>8 DEF KubernetesInv

\* A step that leaves the resources and empties calls at most.
LEMMA QuietKeeps ==
  ASSUME KubernetesInv, CommandInv', UNCHANGED <<resources, edits>>,
         NEW c \in Command,
         \A d \in Command \ {c} : pc'[d] = pc[d],
         calls' = [calls EXCEPT ![c] = <<>>]
  PROVE  KubernetesInv'
  <1>1. ResourcesOK'
    BY DEF resources, KubernetesInv, ResourcesOK
  <1>2. <<>> \in Seq(SafeCall)
    BY EmptySeq
  <1> QED BY <1>1, <1>2 DEF KubernetesInv

LEMMA OtherKeeps ==
  ASSUME KubernetesAssumption, KubernetesInv, NEW c \in Command, Other(c)
  PROVE  KubernetesInv'
  <1>1. /\ calls[c] = <<>> /\ UNCHANGED <<resources, calls, edits>>
        /\ \/ \E m \in Manifest : Apply(c, m)
           \/ Prune(c, List) \/ ComputePlan(c, List)
           \/ NextPass(c) \/ SpecStep(c)
    BY DEF Other, Between
  <1>2. Listed(List) \subseteq Job
    BY ListIs DEF KubernetesInv
  <1>3. CommandInv'
    BY <1>1, <1>2, ApplyKeeps, PruneKeeps, ComputePlanKeeps, NextPassKeeps,
       SpecStepKeeps DEF KubernetesInv
  <1>4. \A d \in Command \ {c} : pc'[d] = pc[d]
    BY <1>1 DEF Apply, Prune, ComputePlan, NextPass, SpecStep, TruncateSpec,
                FillSpec, RemoveOrphan, Pass, Goto, KubernetesInv, CommandInv,
                CommandTypeOK
  <1>5. calls' = [calls EXCEPT ![c] = <<>>]
    BY <1>1 DEF KubernetesInv
  <1> QED BY <1>1, <1>3, <1>4, <1>5, QuietKeeps

LEMMA StopsKeeps ==
  ASSUME KubernetesInv, NEW c \in Command, Stops(c)
  PROVE  KubernetesInv'
  <1>1. /\ Fail(c) /\ calls' = [calls EXCEPT ![c] = <<>>]
        /\ UNCHANGED <<resources, edits>>
    BY DEF Stops, Abort
  <1>2. CommandInv'
    BY <1>1, FailKeeps DEF KubernetesInv
  <1>3. \A d \in Command \ {c} : pc'[d] = pc[d]
    BY <1>1 DEF Fail, Pass, Goto, KubernetesInv, CommandInv, CommandTypeOK
  <1> QED BY <1>1, <1>2, <1>3, QuietKeeps

\* One resource changes.
LEMMA CronJobChanges ==
  ASSUME ResourcesOK, NEW n \in Name, NEW x \in CronJob \cup {None},
         x # None => HasName(x, n),
         cronjobs' = [cronjobs EXCEPT ![n] = x], configmaps' = configmaps
  PROVE  ResourcesOK'
  BY DEF ResourcesOK

LEMMA ConfigMapChanges ==
  ASSUME ResourcesOK, NEW n \in Name, NEW x \in ConfigMap \cup {None},
         x # None => HasName(x, n) /\ IsExpressed(x),
         configmaps' = [configmaps EXCEPT ![n] = x], cronjobs' = cronjobs
  PROVE  ResourcesOK'
  BY DEF ResourcesOK

LEMMA CronJobCallKeeps ==
  ASSUME ResourcesOK, NEW call \in SafeCall, CronJobCall(call)
  PROVE  ResourcesOK'
  <1>1. call.name \in Name /\ configmaps' = configmaps
    BY DEF CronJobCall, SafeCall, Call, Refusal
  <1>2. CASE call.do = "deleteCronJob" /\ cronjobs[call.name] # None
    <2> DEFINE x == [cronjobs[call.name] EXCEPT !.terminating = TRUE]
    <2>1. cronjobs[call.name] \in CronJob /\ HasName(cronjobs[call.name], call.name)
      BY <1>1, <1>2 DEF ResourcesOK
    <2>2. /\ x \in CronJob /\ x.job = cronjobs[call.name].job
          /\ x.index = cronjobs[call.name].index
      BY <2>1 DEF CronJob
    <2>3. cronjobs' = [cronjobs EXCEPT ![call.name] = x]
      BY <1>2 DEF CronJobCall, Terminate
    <2> HIDE DEF x
    <2>4. HasName(x, call.name)
      BY <2>1, <2>2 DEF HasName
    <2> QED BY <1>1, <2>2, <2>3, <2>4, CronJobChanges
  <1>3. CASE call.do = "createCronJob" /\ cronjobs[call.name] = None
    <2>1. call.object \in CronJob /\ HasName(call.object, call.name)
      BY <1>3 DEF SafeCall, Call, Refusal
    <2>2. cronjobs' = [cronjobs EXCEPT ![call.name] = call.object]
      BY <1>3 DEF CronJobCall, CreateUnlessThere
    <2> QED BY <1>1, <2>1, <2>2, CronJobChanges
  <1>4. CASE cronjobs' = cronjobs
    BY <1>1, <1>4 DEF ResourcesOK
  <1> QED BY <1>2, <1>3, <1>4 DEF CronJobCall, Terminate, CreateUnlessThere

LEMMA ConfigMapCallKeeps ==
  ASSUME ResourcesOK, NEW call \in SafeCall, ConfigMapCall(call)
  PROVE  ResourcesOK'
  <1>1. call.name \in Name /\ cronjobs' = cronjobs
    BY DEF ConfigMapCall, SafeCall, Call, Refusal
  <1>2. CASE call.do = "deleteConfigMap" /\ configmaps[call.name] # None
    <2> DEFINE x == [configmaps[call.name] EXCEPT !.terminating = TRUE]
    <2>1. /\ configmaps[call.name] \in ConfigMap
          /\ HasName(configmaps[call.name], call.name)
          /\ IsExpressed(configmaps[call.name])
      BY <1>1, <1>2 DEF ResourcesOK
    <2>2. /\ x \in ConfigMap /\ x.job = configmaps[call.name].job
          /\ x.index = configmaps[call.name].index
          /\ x.version = configmaps[call.name].version
      BY <2>1 DEF ConfigMap
    <2>3. configmaps' = [configmaps EXCEPT ![call.name] = x]
      BY <1>2 DEF ConfigMapCall, Terminate
    <2> HIDE DEF x
    <2>4. HasName(x, call.name) /\ IsExpressed(x)
      BY <2>1, <2>2 DEF HasName, IsExpressed
    <2> QED BY <1>1, <2>2, <2>3, <2>4, ConfigMapChanges
  <1>3. CASE call.do = "createConfigMap" /\ configmaps[call.name] = None
    <2>1. /\ call.object \in ConfigMap /\ HasName(call.object, call.name)
          /\ IsExpressed(call.object)
      BY <1>3 DEF SafeCall, Call, Refusal
    <2>2. configmaps' = [configmaps EXCEPT ![call.name] = call.object]
      BY <1>3 DEF ConfigMapCall, CreateUnlessThere
    <2> QED BY <1>1, <2>1, <2>2, ConfigMapChanges
  <1>4. CASE configmaps' = configmaps
    BY <1>1, <1>4 DEF ResourcesOK
  <1> QED BY <1>2, <1>3, <1>4 DEF ConfigMapCall, Terminate, CreateUnlessThere

LEMMA RunCallKeeps ==
  ASSUME KubernetesAssumption, KubernetesInv, NEW c \in Command, RunCall(c)
  PROVE  KubernetesInv'
  <1> DEFINE call == Head(calls[c])
  <1>1. /\ calls[c] # <<>> /\ calls[c] \in Seq(SafeCall)
        /\ call \in SafeCall /\ Tail(calls[c]) \in Seq(SafeCall)
    <2>1. calls[c] # <<>> /\ calls[c] \in Seq(SafeCall)
      BY DEF RunCall, KubernetesInv
    <2> QED BY <2>1, HeadTailProperties
  <1>2. PICK rest \in Seq(SafeCall) :
          /\ NextCall(c, rest)
          /\ CronJobCall(call) \/ ConfigMapCall(call) \/ UNCHANGED resources
    <2>1. CASE NextCall(c, <<>>) /\ (CronJobCall(call) \/ ConfigMapCall(call))
      BY <2>1, EmptySeq
    <2>2. CASE /\ NextCall(c, DeleteEach("deleteConfigMap",
                                         Labelled(configmaps, call.job)))
               /\ UNCHANGED resources
      BY <2>2, DeletesAreSafe
    <2> QED BY <2>1, <2>2 DEF RunCall
  <1> HIDE DEF call
  <1>3. /\ calls' = [calls EXCEPT ![c] = rest \o Tail(@)]
        /\ edits' = edits /\ UNCHANGED commandVars
    BY <1>2 DEF NextCall
  <1>4. CommandInv' /\ pc' = pc
    BY <1>3, IdleKeeps DEF KubernetesInv, commandVars
  <1>5. ResourcesOK'
    <2>1. CASE UNCHANGED resources
      BY <2>1 DEF resources, KubernetesInv, ResourcesOK
    <2> QED BY <1>1, <1>2, <2>1, CronJobCallKeeps, ConfigMapCallKeeps
            DEF KubernetesInv
  <1>6. rest \o Tail(calls[c]) \in Seq(SafeCall)
    BY <1>1, ConcatProperties
  <1>7. calls' \in [Command -> Seq(SafeCall)]
    BY <1>3, <1>6 DEF KubernetesInv
  <1>8. \A d \in Command : calls'[d] # <<>> => calls[d] # <<>>
    BY <1>1, <1>3 DEF KubernetesInv
  <1> QED BY <1>3, <1>4, <1>5, <1>7, <1>8 DEF KubernetesInv

LEMMA CollectKeeps ==
  ASSUME KubernetesInv, Collect
  PROVE  KubernetesInv'
  <1>1. CommandInv' /\ UNCHANGED <<calls, edits, pc>>
    BY IdleKeeps DEF Collect, callVars, commandVars, KubernetesInv
  <1>2. PICK n \in Name :
          \/ cronjobs' = [cronjobs EXCEPT ![n] = None] /\ configmaps' = configmaps
          \/ configmaps' = [configmaps EXCEPT ![n] = None] /\ cronjobs' = cronjobs
    BY DEF Collect
  <1>3. ResourcesOK'
    BY <1>2, CronJobChanges, ConfigMapChanges DEF KubernetesInv
  <1> QED BY <1>1, <1>3 DEF KubernetesInv

LEMMA EditByHandKeeps ==
  ASSUME KubernetesInv, EditByHand
  PROVE  KubernetesInv'
  <1>1. /\ edits < MaxEdits /\ edits' = edits + 1
        /\ calls' = calls /\ UNCHANGED commandVars
    BY DEF EditByHand, ByHand
  <1>2. CommandInv' /\ pc' = pc
    BY <1>1, IdleKeeps DEF KubernetesInv, commandVars
  <1>3. edits' \in 0..MaxEdits
    BY <1>1, CallsAssumption DEF KubernetesInv
  <1>4. PICK n \in Name :
          \/ /\ cronjobs[n] # None
             /\ \/ \E cron \in Range(Translate) :
                     cronjobs' = [cronjobs EXCEPT ![n].cron = cron]
                \/ cronjobs' = [cronjobs EXCEPT ![n] = None]
             /\ configmaps' = configmaps
          \/ configmaps' = [configmaps EXCEPT ![n] = None] /\ cronjobs' = cronjobs
    BY DEF EditByHand
  <1>5. ResourcesOK'
    <2>1. CASE /\ cronjobs[n] # None /\ configmaps' = configmaps
               /\ \E cron \in Range(Translate) :
                    cronjobs' = [cronjobs EXCEPT ![n].cron = cron]
      <3>1. PICK cron \in Range(Translate) :
              cronjobs' = [cronjobs EXCEPT ![n] = [cronjobs[n] EXCEPT !.cron = cron]]
        BY <2>1
      <3> DEFINE x == [cronjobs[n] EXCEPT !.cron = cron]
      <3>2. cronjobs[n] \in CronJob /\ HasName(cronjobs[n], n)
        BY <2>1 DEF KubernetesInv, ResourcesOK
      <3>3. x \in CronJob /\ x.job = cronjobs[n].job /\ x.index = cronjobs[n].index
        BY <3>2 DEF CronJob
      <3> HIDE DEF x
      <3>4. HasName(x, n)
        BY <3>2, <3>3 DEF HasName
      <3>5. cronjobs' = [cronjobs EXCEPT ![n] = x]
        BY <3>1 DEF x
      <3> QED BY <2>1, <3>3, <3>4, <3>5, CronJobChanges DEF KubernetesInv
    <2> QED BY <1>4, <2>1, CronJobChanges, ConfigMapChanges DEF KubernetesInv
  <1> QED BY <1>1, <1>2, <1>3, <1>5 DEF KubernetesInv

LEMMA StepKeeps ==
  ASSUME KubernetesAssumption
  PROVE  KubernetesInv /\ [Next]_vars => KubernetesInv'
  <1> SUFFICES ASSUME KubernetesInv, [Next]_vars PROVE KubernetesInv'
    OBVIOUS
  <1>1. ASSUME NEW c \in Command, OneJob(c) PROVE KubernetesInv'
    BY <1>1, OneJobKeeps
  <1>2. ASSUME NEW c \in Command, RunCall(c) PROVE KubernetesInv'
    BY <1>2, RunCallKeeps
  <1>3. ASSUME NEW c \in Command, Other(c) PROVE KubernetesInv'
    BY <1>3, OtherKeeps
  <1>4. ASSUME NEW c \in Command, Stops(c) PROVE KubernetesInv'
    BY <1>4, StopsKeeps
  <1>5. CASE Collect
    BY <1>5, CollectKeeps
  <1>6. CASE EditByHand
    BY <1>6, EditByHandKeeps
  <1>7. CASE UNCHANGED vars
    <2>1. CommandInv'
      BY <1>7, IdleKeeps DEF vars, callVars, commandVars, KubernetesInv
    <2> QED BY <1>7, <2>1 DEF vars, resources, callVars, commandVars, KubernetesInv,
                              ResourcesOK
  <1> QED BY <1>1, <1>2, <1>3, <1>4, <1>5, <1>6, <1>7 DEF Next

LEMMA KubernetesInvariant ==
  ASSUME KubernetesAssumption
  PROVE  Spec => []KubernetesInv
  BY KubernetesInit, StepKeeps, PTL DEF Spec
-----------------------------------------------------------------------------
(* What an empty plan says.                                                *)

\* No two schedules have the same name.
DistinctNames ==
  \A s, t \in DOMAIN ScheduleName : ScheduleName[s] = ScheduleName[t] => s = t

\* A CronJob that has its ConfigMap is listed with the hash of a schedule
\* exactly when it runs by it and has its spec mounted.
LEMMA ListHashIs ==
  ASSUME KubernetesAssumption, DistinctNames, ResourcesOK,
         NEW n \in Managed, configmaps[n] # None, NEW v \in Version
  PROVE  ListHash(n) = Hash(v, cronjobs[n].index)
         <=> /\ cronjobs[n].cron = CronOf(v, cronjobs[n].index)
             /\ configmaps[n].version = v
  <1> DEFINE cj == cronjobs[n]
             cm == configmaps[n]
             idx == cj.index
  <1>1. n \in Name /\ HasName(cj, n) /\ idx \in Nat
    BY CronJobIs
  <1>2. /\ cm \in ConfigMap /\ HasName(cm, n) /\ IsExpressed(cm)
    BY <1>1 DEF ResourcesOK
  <1>3. cm.version \in Version
    BY <1>2 DEF ConfigMap
  <1>4. <<cm.job, cm.index>> = <<cj.job, idx>>
    BY <1>1, <1>2 DEF HasName, DistinctNames
  <1>5. cm.index = idx
    BY <1>4
  <1>6. idx < Len(Schedules[cm.version]) /\ CronOf(cm.version, idx) # None
    BY <1>2, <1>5 DEF IsExpressed
  <1>7. ~(idx >= Len(Schedules[cm.version]))
    BY <1>1, <1>3, <1>6, ReconcileAssumption
  <1>8. ListHash(n) = IF cj.cron # CronOf(cm.version, idx) THEN Edited
                      ELSE Hash(cm.version, idx)
    BY <1>6, <1>7 DEF ListHash
  <1>9. Edited \notin Version \X Nat
    BY DEF KubernetesAssumption
  <1> HIDE DEF cj, cm, idx
  <1>10. Hash(v, idx) # Edited /\ (Hash(cm.version, idx) = Hash(v, idx) <=> cm.version = v)
    BY <1>1, <1>9 DEF Hash
  <1>11. ListHash(n) = Hash(v, idx) <=> cj.cron = CronOf(v, idx) /\ cm.version = v
    BY <1>8, <1>10
  <1> QED BY <1>11 DEF cj, cm, idx

\* The pairs that a manifest asks for, one for each schedule of its jobs.
Pair(m, j, k) == [job |-> j, version |-> m.jobs[j], index |-> k - 1]

LEMMA WantedIs ==
  ASSUME KubernetesAssumption, NEW m \in Manifest
  PROVE  /\ \A j \in DOMAIN m.jobs :
              /\ m.jobs[j] \in Version /\ AppOf[j] = m.app
              /\ Len(Schedules[m.jobs[j]]) \in Nat
              /\ \A k \in 1..Len(Schedules[m.jobs[j]]) :
                   /\ Pair(m, j, k) \in Wanted(m)
                   /\ <<j, k - 1>> \in DOMAIN ScheduleName
                   /\ NameOf(Pair(m, j, k)) = ScheduleName[<<j, k - 1>>]
                   /\ NameOf(Pair(m, j, k)) \in Name
         /\ \A w \in Wanted(m) : \E j \in DOMAIN m.jobs :
              \E k \in 1..Len(Schedules[m.jobs[j]]) : w = Pair(m, j, k)
  <1> DEFINE pairs(j) == {[job |-> j, version |-> m.jobs[j], index |-> k - 1] :
                            k \in DOMAIN Schedules[m.jobs[j]]}
  <1>1. Wanted(m) = UNION {pairs(j) : j \in DOMAIN m.jobs}
    BY DEF Wanted
  <1>2. \A j \in DOMAIN m.jobs :
          /\ j \in Job /\ m.jobs[j] \in Version /\ AppOf[j] = m.app
          /\ Len(Schedules[m.jobs[j]]) \in Nat
          /\ DOMAIN Schedules[m.jobs[j]] = 1..Len(Schedules[m.jobs[j]])
    BY CommandAssumption, ReconcileAssumption
  <1>3. \A j : pairs(j) = {Pair(m, j, k) : k \in DOMAIN Schedules[m.jobs[j]]}
    BY DEF Pair
  <1> HIDE DEF pairs
  <1>4. \A w : w \in Wanted(m) <=> \E j \in DOMAIN m.jobs : w \in pairs(j)
    BY <1>1
  <1>5. ASSUME NEW j \in DOMAIN m.jobs, NEW k \in 1..Len(Schedules[m.jobs[j]])
        PROVE  /\ Pair(m, j, k) \in Wanted(m)
               /\ <<j, k - 1>> \in DOMAIN ScheduleName
               /\ NameOf(Pair(m, j, k)) = ScheduleName[<<j, k - 1>>]
               /\ NameOf(Pair(m, j, k)) \in Name
    <2>1. Pair(m, j, k) \in pairs(j)
      BY <1>2, <1>3
    <2>2. Pair(m, j, k).job = j /\ Pair(m, j, k).index = k - 1
      BY DEF Pair
    <2>3. <<j, k - 1>> \in DOMAIN ScheduleName
      BY <1>2 DEF KubernetesAssumption
    <2>4. ScheduleName[<<j, k - 1>>] \in Name
      BY <2>3 DEF KubernetesAssumption, Range
    <2> QED BY <1>4, <2>1, <2>2, <2>3, <2>4 DEF NameOf
  <1>6. ASSUME NEW w \in Wanted(m)
        PROVE  \E j \in DOMAIN m.jobs :
                 \E k \in 1..Len(Schedules[m.jobs[j]]) : w = Pair(m, j, k)
    <2>1. PICK j \in DOMAIN m.jobs : w \in pairs(j)
      BY <1>4
    <2> QED BY <1>2, <1>3, <2>1
  <1> QED BY <1>2, <1>5, <1>6

LEMMA EmptyPlanTells ==
  ASSUME KubernetesAssumption, DistinctNames, ResourcesOK, NEW m \in Manifest
  PROVE  LET ws == Wanted(m)
             here == Owned(cronjobs, m.app) = {NameOf(w) : w \in ws}
             mapped == {w \in ws : configmaps[NameOf(w)] # None}
             agree == here /\ \A w \in mapped : RunsBy(w) /\ Mounts(w)
         IN  /\ IsNoop(Compute(m, List)) => agree
             /\ agree /\ mapped = ws => IsNoop(Compute(m, List))
  <1> DEFINE ws == Wanted(m)
             owned == Owned(cronjobs, m.app)
             names == {NameOf(w) : w \in ws}
             size(j) == Len(Schedules[m.jobs[j]])
             pair(j, k) == Pair(m, j, k)
             fits(w) == RunsBy(w) /\ Mounts(w)
  <1>1. /\ IsListing(List) /\ IsOnce(List)
        /\ \A k \in DOMAIN List : \E n \in Managed :
             /\ List[k].job = cronjobs[n].job /\ List[k].index = cronjobs[n].index
             /\ List[k].hash = ListHash(n)
        /\ \A n \in Managed : \E k \in DOMAIN List :
             /\ List[k].job = cronjobs[n].job /\ List[k].index = cronjobs[n].index
             /\ List[k].hash = ListHash(n)
    BY ListIs
  <1>2. IsNoop(Compute(m, List)) <=> AsAsked(m, List)
    BY <1>1, NoopIs
  <1>3. \A n : n \in owned <=> n \in Managed /\ AppOf[cronjobs[n].job] = m.app
    BY DEF Owned, Managed
  <1>4. \A n \in Managed : /\ n \in Name /\ HasName(cronjobs[n], n)
                           /\ cronjobs[n].index \in Nat
    BY CronJobIs
  <1>5. /\ \A j \in DOMAIN m.jobs :
             m.jobs[j] \in Version /\ AppOf[j] = m.app /\ size(j) \in Nat
        /\ \A j \in DOMAIN m.jobs : \A k \in 1..size(j) :
             /\ pair(j, k) \in ws /\ <<j, k - 1>> \in DOMAIN ScheduleName
             /\ NameOf(pair(j, k)) = ScheduleName[<<j, k - 1>>]
        /\ \A w \in ws : \E j \in DOMAIN m.jobs : \E k \in 1..size(j) : w = pair(j, k)
    BY WantedIs
  <1>6. \A n : n \in names <=> \E w \in ws : n = NameOf(w)
    OBVIOUS
  <1>7. \A j, k : /\ pair(j, k).version = m.jobs[j] /\ pair(j, k).index = k - 1
                  /\ pair(j, k).job = j
    BY DEF Pair
  <1> HIDE DEF ws, owned, names, size, pair
  \* The CronJob of a pair, when it is there.
  <1>8. ASSUME NEW j \in DOMAIN m.jobs, NEW k \in 1..size(j), NEW n \in Managed,
               NameOf(pair(j, k)) = n
        PROVE  cronjobs[n].job = j /\ cronjobs[n].index = k - 1
    <2>1. /\ <<cronjobs[n].job, cronjobs[n].index>> \in DOMAIN ScheduleName
          /\ ScheduleName[<<cronjobs[n].job, cronjobs[n].index>>] = n
      BY <1>4 DEF HasName
    <2>2. /\ <<j, k - 1>> \in DOMAIN ScheduleName
          /\ ScheduleName[<<j, k - 1>>] = n
      BY <1>5, <1>8
    <2>3. \A s, t \in DOMAIN ScheduleName :
            ScheduleName[s] = n /\ ScheduleName[t] = n => s = t
      BY DEF DistinctNames
    <2>4. <<cronjobs[n].job, cronjobs[n].index>> = <<j, k - 1>>
      BY <2>1, <2>2, <2>3, Zenon
    <2> QED BY <2>4
  <1>9. ASSUME NEW j \in DOMAIN m.jobs, NEW k \in 1..size(j), NEW n \in Managed,
               NameOf(pair(j, k)) = n, configmaps[n] # None
        PROVE  ListHash(n) = Hash(m.jobs[j], k - 1) <=> fits(pair(j, k))
    <2>1. cronjobs[n].index = k - 1 /\ m.jobs[j] \in Version
      BY <1>5, <1>8, <1>9
    <2>2. ListHash(n) = Hash(m.jobs[j], k - 1)
          <=> /\ cronjobs[n].cron = CronOf(m.jobs[j], k - 1)
              /\ configmaps[n].version = m.jobs[j]
      BY <1>9, <2>1, ListHashIs
    <2>3. fits(pair(j, k)) <=> /\ cronjobs[n].cron = CronOf(m.jobs[j], k - 1)
                               /\ configmaps[n].version = m.jobs[j]
      BY <1>7, <1>9 DEF RunsBy, Mounts
    <2> QED BY <2>2, <2>3
  <1>10. ASSUME AsAsked(m, List)
         PROVE  /\ owned = names
                /\ \A w \in ws : configmaps[NameOf(w)] # None => fits(w)
    <2>1. ASSUME NEW j \in DOMAIN m.jobs, NEW k \in 1..size(j)
          PROVE  \E n \in owned : /\ n = NameOf(pair(j, k))
                                  /\ ListHash(n) = Hash(m.jobs[j], k - 1)
      <3>1. PICK e \in DOMAIN List : /\ List[e].job = j /\ List[e].index = k - 1
                                     /\ List[e].hash = Hash(m.jobs[j], k - 1)
        BY <1>10 DEF AsAsked, size
      <3>2. PICK n \in Managed : /\ cronjobs[n].job = j /\ cronjobs[n].index = k - 1
                                 /\ ListHash(n) = Hash(m.jobs[j], k - 1)
        BY <1>1, <3>1
      <3>3. n = NameOf(pair(j, k))
        <4>1. ScheduleName[<<j, k - 1>>] = n
          BY <1>4, <3>2 DEF HasName
        <4> QED BY <1>5, <4>1
      <3>4. n \in owned
        BY <1>3, <1>5, <3>2
      <3> QED BY <3>2, <3>3, <3>4
    <2>2. ASSUME NEW n \in owned
          PROVE  \E j \in DOMAIN m.jobs : \E k \in 1..size(j) : n = NameOf(pair(j, k))
      <3> DEFINE j == cronjobs[n].job
                 k == cronjobs[n].index + 1
      <3>1. PICK e \in DOMAIN List :
              List[e].job = j /\ List[e].index = cronjobs[n].index
        BY <1>1, <1>3
      <3>2. j \in DOMAIN m.jobs /\ cronjobs[n].index < size(j)
        BY <1>3, <1>10, <3>1 DEF AsAsked, size
      <3>3. cronjobs[n].index \in Nat /\ HasName(cronjobs[n], n)
        BY <1>3, <1>4
      <3>4. k \in 1..size(j) /\ k - 1 = cronjobs[n].index
        BY <1>5, <3>2, <3>3
      <3>5. NameOf(pair(j, k)) = ScheduleName[<<j, k - 1>>]
        BY <1>5, <3>2, <3>4
      <3>6. n = NameOf(pair(j, k))
        BY <3>3, <3>4, <3>5 DEF HasName
      <3> QED BY <3>2, <3>4, <3>6
    <2>3. owned = names
      <3>1. ASSUME NEW n \in owned PROVE n \in names
        BY <1>5, <1>6, <2>2
      <3>2. ASSUME NEW n \in names PROVE n \in owned
        BY <1>5, <1>6, <2>1
      <3> QED BY <3>1, <3>2
    <2>4. ASSUME NEW w \in ws, configmaps[NameOf(w)] # None PROVE fits(w)
      <3>1. PICK j \in DOMAIN m.jobs : \E k \in 1..size(j) : w = pair(j, k)
        BY <1>5
      <3> PICK k \in 1..size(j) : w = pair(j, k)
        BY <3>1
      <3>2. PICK n \in owned : n = NameOf(pair(j, k))
                               /\ ListHash(n) = Hash(m.jobs[j], k - 1)
        BY <2>1
      <3> HIDE DEF fits
      <3> QED BY <1>3, <1>9, <2>4, <3>2
    <2> QED BY <2>3, <2>4
  <1>11. ASSUME owned = names, \A w \in ws : configmaps[NameOf(w)] # None /\ fits(w)
         PROVE  AsAsked(m, List)
    <2> HIDE DEF fits
    <2>1. ASSUME NEW j \in DOMAIN m.jobs, NEW k \in 1..size(j)
          PROVE  \E e \in DOMAIN List : /\ List[e].job = j /\ List[e].index = k - 1
                                        /\ List[e].hash = Hash(m.jobs[j], k - 1)
      <3> DEFINE n == NameOf(pair(j, k))
      <3>1. n \in Managed /\ pair(j, k) \in ws
        BY <1>3, <1>5, <1>6, <1>11
      <3>2. cronjobs[n].job = j /\ cronjobs[n].index = k - 1
        BY <1>8, <3>1
      <3>3. ListHash(n) = Hash(m.jobs[j], k - 1)
        BY <1>9, <1>11, <3>1
      <3> HIDE DEF n
      <3> QED BY <1>1, <3>1, <3>2, <3>3
    <2>2. ASSUME NEW e \in DOMAIN List, AppOf[List[e].job] = m.app
          PROVE  List[e].job \in DOMAIN m.jobs /\ List[e].index < size(List[e].job)
      <3>1. PICK n \in Managed :
              List[e].job = cronjobs[n].job /\ List[e].index = cronjobs[n].index
        BY <1>1
      <3>2. n \in names
        BY <1>3, <1>11, <2>2, <3>1
      <3>3. PICK j \in DOMAIN m.jobs : \E k \in 1..size(j) : n = NameOf(pair(j, k))
        BY <1>5, <1>6, <3>2
      <3> PICK k \in 1..size(j) : n = NameOf(pair(j, k))
        BY <3>3
      <3>4. cronjobs[n].job = j /\ cronjobs[n].index = k - 1
        BY <1>8
      <3> QED BY <1>5, <3>1, <3>4
    <2> QED BY <2>1, <2>2 DEF AsAsked, size
  <1> QED BY <1>2, <1>10, <1>11 DEF ws, owned, names

-----------------------------------------------------------------------------
(* A command alone.                                                        *)

\* The passes of an apply that has its plan.
Working == {"delete", "update", "create", "specs", "fill", "orphans"}

\* The jobs whose CronJobs are still to be deleted, and those that have none
\* until they are created.
Doomed(c) ==
  IF pc[c] = "delete" THEN todo[c] \cup plan[c].updates
  ELSE IF pc[c] = "update" THEN todo[c] ELSE {}

Pending(c) ==
  IF pc[c] \in {"delete", "update"} THEN plan[c].creates
  ELSE IF pc[c] = "create" THEN todo[c] ELSE {}

\* m asks for the schedule that x is made for.
IsAsked(m, x) ==
  x.job \in DOMAIN m.jobs /\ x.index < Len(Schedules[m.jobs[x.job]])

\* The CronJob n runs by m.
Fine(m, n) ==
  /\ IsAsked(m, cronjobs[n])
  /\ cronjobs[n].cron = CronOf(m.jobs[cronjobs[n].job], cronjobs[n].index)

\* It may stay when m is applied.
Good(m, n) ==
  \/ cronjobs[n].terminating \/ Fine(m, n)
  \/ IsAsked(m, cronjobs[n]) /\ configmaps[n] = None

Queued(c, n) == [do |-> "deleteCronJob", name |-> n] \in Range(calls[c])

\* What is left of an operation builds what is asked for, of a job that is no
\* longer pending.
BuildsAsked(c) ==
  \A x \in Range(calls[c]) :
    x.do \in {"createCronJob", "createConfigMap"} =>
      /\ IsAsked(want[c], x.object) /\ x.object.job \notin Pending(c)
      /\ x.do = "createCronJob" =>
           x.object.cron = CronOf(want[c].jobs[x.object.job], x.object.index)

\* A ConfigMap is created beside no CronJob but one that goes or is right.
CreatesBeside(c) ==
  \A x \in Range(calls[c]) :
    x.do = "createConfigMap" /\ cronjobs[x.name] # None =>
      \/ cronjobs[x.name].terminating \/ Queued(c, x.name)
      \/ Fine(want[c], x.name)

KeptIsGood(c) ==
  \A n \in Owned(cronjobs, want[c].app) :
    Good(want[c], n) \/ cronjobs[n].job \in Doomed(c) \/ Queued(c, n)

PendingHasNone(c) == \A n \in Managed : cronjobs[n].job \notin Pending(c)

PlanSplits(c) ==
  /\ plan[c].creates \cap plan[c].updates = {}
  /\ pc[c] = "update" => todo[c] \subseteq plan[c].updates

Solo(c) ==
  pc[c] \in Working =>
    /\ BuildsAsked(c) /\ CreatesBeside(c) /\ KeptIsGood(c)
    /\ PendingHasNone(c) /\ PlanSplits(c)

SoloInv == \A c \in Command : Solo(c)

(* The calls that an operation starts with.                                *)

LEMMA LabelledAre ==
  ASSUME KubernetesAssumption, NEW resource, NEW j, NEW n
  PROVE  n \in Range(Labelled(resource, j))
         <=> n \in Name /\ resource[n] # None /\ resource[n].job = j
  <1> DEFINE S == {i \in Name : resource[i] # None /\ resource[i].job = j}
             names == InOrder(S)
  <1>1. S \in SUBSET Nat /\ IsFiniteSet(S)
    <2>1. Name \subseteq Nat /\ IsFiniteSet(Name) /\ S \in SUBSET Name
      BY DEF KubernetesAssumption
    <2> HIDE DEF S
    <2> QED BY <2>1, FS_Subset
  <1>2. Labelled(resource, j) = names
    BY DEF Labelled
  <1>3. n \in S <=> n \in Name /\ resource[n] # None /\ resource[n].job = j
    OBVIOUS
  <1> HIDE DEF S
  <1>4. /\ \A k \in DOMAIN names : names[k] \in S
        /\ \A i \in S : \E k \in DOMAIN names : names[k] = i
    BY <1>1, InOrderLists
  <1> HIDE DEF names
  <1>5. n \in Range(names) <=> \E k \in DOMAIN names : n = names[k]
    BY DEF Range
  <1> QED BY <1>2, <1>3, <1>4, <1>5

DeleteOf(n) == [do |-> "deleteCronJob", name |-> n]

LEMMA DeleteEachIs ==
  ASSUME NEW what, NEW names, NEW x
  PROVE  x \in Range(DeleteEach(what, names))
         <=> \E n \in Range(names) : x = [do |-> what, name |-> n]
  <1> DEFINE calling(n) == [do |-> what, name |-> n]
  <1>1. DeleteEach(what, names) = [k \in DOMAIN names |-> calling(names[k])]
    BY DEF DeleteEach
  <1> HIDE DEF calling
  <1>2. x \in Range(DeleteEach(what, names)) <=> \E n \in Range(names) : x = calling(n)
    BY <1>1 DEF Range
  <1> QED BY <1>2 DEF calling

\* The deletions are those of all CronJobs of the job.
LEMMA DeleteCallsAre ==
  ASSUME KubernetesAssumption, NEW j \in Job
  PROVE  /\ \A n \in Managed : cronjobs[n].job = j => DeleteOf(n) \in Range(DeleteCalls(j))
         /\ \A x \in Range(DeleteCalls(j)) :
              x.do \notin {"createCronJob", "createConfigMap"}
  <1> DEFINE names == Labelled(cronjobs, j)
             dels == DeleteEach("deleteCronJob", names)
             list == [do |-> "listConfigMaps", job |-> j]
  <1>1. /\ dels \in Seq(SafeCall) /\ <<list>> \in Seq(SafeCall)
    <2>1. list \in SafeCall
      BY DEF SafeCall, Call
    <2> HIDE DEF list
    <2> QED BY <2>1, DeletesAreSafe
  <1>2. \A x : x \in Range(dels) <=> \E n \in Range(names) : x = DeleteOf(n)
    BY DeleteEachIs DEF DeleteOf
  <1>3. \A n : n \in Range(names) <=> n \in Managed /\ cronjobs[n].job = j
    BY LabelledAre DEF Managed
  <1>4. \A x : x \in Range(<<list>>) => x = list
    BY DEF Range
  <1>5. DeleteCalls(j) = dels \o <<list>>
    BY DEF DeleteCalls
  <1>6. list.do = "listConfigMaps" /\ \A n : DeleteOf(n).do = "deleteCronJob"
    BY DEF DeleteOf
  <1> HIDE DEF names, dels, list
  <1>7. \A x : x \in Range(DeleteCalls(j)) <=> x \in Range(dels) \/ x \in Range(<<list>>)
    BY <1>1, <1>5, RangeOfConcat
  <1> QED BY <1>2, <1>3, <1>4, <1>6, <1>7

\* The call builds a resource of the job j for a schedule of the version v.
BuildsFor(x, j, v) ==
  /\ x.object.job = j /\ x.object.index < Len(Schedules[v])
  /\ x.do = "createCronJob" => x.object.cron = CronOf(v, x.object.index)

LEMMA CreateCallsAre ==
  ASSUME NEW j \in Job, NEW v \in Version
  PROVE  \A x \in Range(CreateCalls(j, v)) :
           /\ x.do # "deleteCronJob"
           /\ x.do \in {"createCronJob", "createConfigMap"} => BuildsFor(x, j, v)
  <1> DEFINE size == Len(Schedules[v])
             idxOf(k) == (k - 1) \div 2
             config(i) == [do |-> "createConfigMap", name |-> ScheduleName[<<j, i>>],
                           object |-> BuildConfigMap(j, v, i)]
             cron(i) == [do |-> "createCronJob", name |-> ScheduleName[<<j, i>>],
                         object |-> BuildCronJob(j, v, i)]
             call(k) == IF CronOf(v, idxOf(k)) = None THEN Refusal
                        ELSE IF k % 2 = 1 THEN config(idxOf(k)) ELSE cron(idxOf(k))
             right(x) == /\ x.do # "deleteCronJob"
                         /\ x.do \in {"createCronJob", "createConfigMap"}
                              => BuildsFor(x, j, v)
  <1>1. size \in Nat
    BY ReconcileAssumption
  <1>2. \A k \in 1..2 * size : idxOf(k) \in Nat /\ idxOf(k) < size
    <2> HIDE DEF size
    <2> QED BY <1>1, PairOf
  <1>3. CreateCalls(j, v) = [k \in 1..2 * size |-> call(k)]
    BY DEF CreateCalls
  <1>4. ASSUME NEW i \in Nat, i < size PROVE right(config(i)) /\ right(cron(i))
    <2>1. /\ config(i).do = "createConfigMap" /\ config(i).object.job = j
          /\ config(i).object.index = i
      BY DEF BuildConfigMap
    <2>2. /\ cron(i).do = "createCronJob" /\ cron(i).object.job = j
          /\ cron(i).object.index = i /\ cron(i).object.cron = CronOf(v, i)
      BY DEF BuildCronJob
    <2> HIDE DEF config, cron
    <2>3. right(config(i))
      BY <1>4, <2>1 DEF BuildsFor
    <2>4. right(cron(i))
      BY <1>4, <2>2 DEF BuildsFor
    <2> QED BY <2>3, <2>4
  <1>5. right(Refusal)
    BY DEF Refusal
  <1> HIDE DEF size, idxOf, config, cron, right
  <1>6. \A k \in 1..2 * size : right(call(k))
    BY <1>2, <1>4, <1>5
  <1> HIDE DEF call
  <1>7. \A x \in Range(CreateCalls(j, v)) : right(x)
    BY <1>3, <1>6 DEF Range
  <1> QED BY <1>7 DEF right

(* What the next steps of a command leave true.                            *)

\* A resource that is there has the name of one schedule only.
LEMMA SameName ==
  ASSUME DistinctNames, NEW x, NEW y, NEW n, HasName(x, n), HasName(y, n)
  PROVE  x.job = y.job /\ x.index = y.index
  <1>1. <<x.job, x.index>> = <<y.job, y.index>>
    BY DEF HasName, DistinctNames
  <1> QED BY <1>1

LEMMA PlanBegins ==
  ASSUME KubernetesAssumption, DistinctNames, KubernetesInv, NEW c \in Command,
         calls[c] = <<>>, ComputePlan(c, List), UNCHANGED <<resources, calls>>
  PROVE  Solo(c)'
  <1> DEFINE m == want[c]
             p == Compute(m, List)
  <1>1. m \in Manifest
    BY DEF ComputePlan, KubernetesInv, CommandInv, ApplyOK, Stopped
  <1>2. /\ pc'[c] = "delete" /\ plan'[c] = p /\ todo'[c] = p.deletes /\ want' = want
        /\ calls'[c] = <<>> /\ cronjobs' = cronjobs /\ configmaps' = configmaps
    BY DEF ComputePlan, Pass, Goto, resources, KubernetesInv, CommandInv, CommandTypeOK
  <1>3. /\ IsListing(List) /\ IsOnce(List)
        /\ \A n \in Managed : \E k \in DOMAIN List :
             /\ List[k].job = cronjobs[n].job /\ List[k].index = cronjobs[n].index
             /\ List[k].hash = ListHash(n)
    BY ListIs DEF KubernetesInv
  <1>4. /\ p.creates = DOMAIN m.jobs \ Listed(List)
        /\ p.updates = {j \in DOMAIN m.jobs \cap Listed(List) : j \notin p.skips}
        /\ p.deletes = {j \in Listed(List) \ DOMAIN m.jobs : AppOf[j] = m.app}
    BY DEF Compute
  <1>5. \A n \in Managed : cronjobs[n].job \in Listed(List)
    BY <1>3 DEF Listed
  <1>6. \A j \in DOMAIN m.jobs : m.jobs[j] \in Version /\ Len(Schedules[m.jobs[j]]) \in Nat
    BY <1>1, CommandAssumption, ReconcileAssumption
  <1>7. \A n \in Managed : cronjobs[n].index \in Nat
    BY CronJobIs DEF KubernetesInv
  <1>8. ASSUME NEW n \in Managed, cronjobs[n].job \in p.skips
        PROVE  Good(m, n)
    <2> DEFINE j == cronjobs[n].job
               idx == cronjobs[n].index
               v == m.jobs[j]
    <2>1. PICK k \in DOMAIN List : /\ List[k].job = j /\ List[k].index = idx
                                   /\ List[k].hash = ListHash(n)
      BY <1>3
    <2>2. j \in DOMAIN m.jobs
      BY <1>8 DEF Compute
    <2>3. /\ EntriesOf(List, j) # {} /\ k \in EntriesOf(List, j)
          /\ ListedHashes(List, j) = DesiredHashes(v)
      BY <1>1, <1>8, <2>1, <2>2, SkippedIs DEF EntriesOf
    <2>4. v \in Version /\ idx \in Nat /\ Len(Schedules[v]) \in Nat
      BY <1>6, <1>7, <2>2
    <2> HIDE DEF m, p, j, idx, v
    <2>5. /\ List[k].index < Len(Schedules[v])
          /\ \A i \in 1..Len(Schedules[v]) : HashAt(List, j, i - 1) = Hash(v, i - 1)
      BY <1>3, <2>3, <2>4, SameHashes
    <2>6. HashAt(List, j, idx) = Hash(v, idx)
      <3>1. idx + 1 \in 1..Len(Schedules[v]) /\ (idx + 1) - 1 = idx
        BY <2>1, <2>4, <2>5
      <3> QED BY <2>5, <3>1
    <2>7. ListHash(n) = Hash(v, idx)
      BY <1>3, <2>1, <2>6, EntryHash
    <2>8. IsAsked(m, cronjobs[n])
      BY <2>1, <2>2, <2>5 DEF IsAsked, j, v, idx
    <2>9. CASE configmaps[n] = None
      BY <2>8, <2>9 DEF Good
    <2>10. CASE configmaps[n] # None
      <3>1. cronjobs[n].cron = CronOf(v, idx)
        BY <2>4, <2>7, <2>10, ListHashIs DEF idx, KubernetesInv
      <3> QED BY <2>8, <3>1 DEF Good, Fine, v, j, idx
    <2> QED BY <2>9, <2>10
  <1> HIDE DEF m, p
  <1>9. \A n \in Owned(cronjobs, m.app) : n \in Managed /\ AppOf[cronjobs[n].job] = m.app
    BY DEF Owned, Managed
  <1>10. \A n \in Owned(cronjobs, m.app) :
           \/ Good(m, n)
           \/ cronjobs[n].job \in p.deletes \/ cronjobs[n].job \in p.updates
    BY <1>4, <1>5, <1>8, <1>9
  <1>11. \A n \in Managed : cronjobs[n].job \notin p.creates
    BY <1>4, <1>5
  <1>12. Doomed(c)' = p.deletes \cup p.updates /\ Pending(c)' = p.creates
    BY <1>2 DEF Doomed, Pending
  <1>13. Range(calls[c])' = {}
    BY <1>2 DEF Range
  <1>14. BuildsAsked(c)' /\ CreatesBeside(c)'
    BY <1>13 DEF BuildsAsked, CreatesBeside
  <1>15. KeptIsGood(c)'
    <2>1. Owned(cronjobs, want[c].app)' = Owned(cronjobs, m.app)
      BY <1>2 DEF Owned, m
    <2>2. \A n : Good(want[c], n)' <=> Good(m, n)
      BY <1>2 DEF Good, Fine, IsAsked, m
    <2> QED BY <1>2, <1>10, <1>12, <2>1, <2>2 DEF KeptIsGood
  <1>16. PendingHasNone(c)'
    BY <1>2, <1>11, <1>12 DEF PendingHasNone, Managed
  <1>17. PlanSplits(c)'
    BY <1>2, <1>4 DEF PlanSplits
  <1> QED BY <1>14, <1>15, <1>16, <1>17 DEF Solo

\* No call is left and no pass has work that the next does not take over.
LEMMA PassContinues ==
  ASSUME KubernetesInv, NEW c \in Command, Solo(c), calls[c] = <<>>,
         NextPass(c) \/ SpecStep(c), UNCHANGED <<resources, calls>>
  PROVE  Solo(c)'
  <1> SUFFICES ASSUME pc'[c] \in Working PROVE Solo(c)'
    BY DEF Solo
  <1>1. /\ plan' = plan /\ want' = want
        /\ cronjobs' = cronjobs /\ configmaps' = configmaps /\ calls' = calls
    BY DEF NextPass, SpecStep, TruncateSpec, FillSpec, RemoveOrphan, resources
  <1>2. /\ pc[c] \in Working /\ Doomed(c) \subseteq Doomed(c)'
        /\ Pending(c)' \subseteq Pending(c)
        /\ pc'[c] = "update" => todo'[c] \subseteq plan[c].updates
    <2>1. CASE NextPass(c)
      <3>1. /\ todo[c] = {}
            /\ \/ pc[c] = "delete" /\ pc'[c] = "update" /\ todo'[c] = plan[c].updates
               \/ pc[c] = "update" /\ pc'[c] = "create" /\ todo'[c] = plan[c].creates
               \/ pc[c] = "create" /\ pc'[c] = "specs"
               \/ pc[c] = "specs" /\ pc'[c] = "orphans"
               \/ pc'[c] = "done"
        BY <2>1 DEF NextPass, Pass, Goto, KubernetesInv, CommandInv, CommandTypeOK
      <3> QED BY <1>1, <3>1 DEF Doomed, Pending, Working
    <2>2. CASE SpecStep(c)
      <3>1. pc[c] \in {"specs", "fill", "orphans"} /\ pc'[c] \in {"specs", "fill", "orphans"}
        BY <2>2 DEF SpecStep, TruncateSpec, FillSpec, RemoveOrphan, Pass, Goto,
                    KubernetesInv, CommandInv, CommandTypeOK
      <3> QED BY <3>1 DEF Doomed, Pending, Working
    <2> QED BY <2>1, <2>2
  <1>3. BuildsAsked(c) /\ CreatesBeside(c) /\ KeptIsGood(c) /\ PendingHasNone(c) /\ PlanSplits(c)
    BY <1>2 DEF Solo
  <1>4. BuildsAsked(c)' /\ CreatesBeside(c)'
    <2>1. Range(calls[c])' = {}
      BY <1>1 DEF Range
    <2> QED BY <2>1 DEF BuildsAsked, CreatesBeside
  <1>5. KeptIsGood(c)'
    <2>1. Owned(cronjobs, want[c].app)' = Owned(cronjobs, want[c].app)
      BY <1>1 DEF Owned
    <2>2. \A n : Good(want[c], n)' <=> Good(want[c], n)
      BY <1>1 DEF Good, Fine, IsAsked
    <2>3. \A n : Queued(c, n)' <=> Queued(c, n)
      BY <1>1 DEF Queued
    <2> QED BY <1>1, <1>2, <1>3, <2>1, <2>2, <2>3 DEF KeptIsGood
  <1>6. PendingHasNone(c)'
    BY <1>1, <1>2, <1>3 DEF PendingHasNone, Managed
  <1>7. PlanSplits(c)'
    BY <1>1, <1>2, <1>3 DEF PlanSplits
  <1> QED BY <1>4, <1>5, <1>6, <1>7 DEF Solo

\* The CronJob n is as it was, its deletion still to come if it was, and a new
\* ConfigMap is only beside one that may stay.
Undisturbed(c, n) ==
  /\ n \in Managed /\ cronjobs'[n] = cronjobs[n]
  /\ Queued(c, n) => Queued(c, n)'
  /\ configmaps[n] = None =>
       \/ configmaps'[n] = None
       \/ Queued(c, n) \/ cronjobs[n].terminating \/ Fine(want[c], n)

\* Each CronJob is undisturbed or right, and the calls left of c are some that
\* it had and deletions of ConfigMaps.
LEMMA CallsContinue ==
  ASSUME NEW c \in Command, Solo(c), UNCHANGED commandVars,
         \A x \in Range(calls'[c]) : x \in Range(calls[c]) \/ x.do = "deleteConfigMap",
         \A n \in Managed' :
           /\ cronjobs'[n].job \notin Pending(c)
           /\ cronjobs'[n].terminating \/ Fine(want[c], n)' \/ Undisturbed(c, n),
         \A x \in Range(calls[c]) :
           x.do = "createConfigMap" => x.name \in Name
  PROVE  Solo(c)'
  <1> SUFFICES ASSUME pc'[c] \in Working PROVE Solo(c)'
    BY DEF Solo
  <1>1. pc' = pc /\ want' = want /\ plan' = plan /\ todo' = todo
    BY DEF commandVars
  <1>2. BuildsAsked(c) /\ CreatesBeside(c) /\ KeptIsGood(c) /\ PendingHasNone(c) /\ PlanSplits(c)
    BY <1>1 DEF Solo
  <1>3. Doomed(c)' = Doomed(c) /\ Pending(c)' = Pending(c)
    BY <1>1 DEF Doomed, Pending
  <1>4. BuildsAsked(c)'
    <2>1. \A x : IsAsked(want[c], x)' <=> IsAsked(want[c], x)
      BY <1>1 DEF IsAsked
    <2> QED BY <1>1, <1>2, <1>3, <2>1 DEF BuildsAsked, CronOf
  <1>5. \A n : cronjobs'[n] = cronjobs[n] => (Fine(want[c], n)' <=> Fine(want[c], n))
    BY <1>1 DEF Fine, IsAsked
  <1>6. CreatesBeside(c)'
    <2> SUFFICES ASSUME NEW x \in Range(calls'[c]),
                        x.do = "createConfigMap", cronjobs'[x.name] # None
                 PROVE  \/ cronjobs'[x.name].terminating \/ Queued(c, x.name)'
                        \/ Fine(want[c], x.name)'
      BY DEF CreatesBeside
    <2>1. x \in Range(calls[c]) /\ x.name \in Managed'
      BY DEF Managed
    <2>2. CASE Undisturbed(c, x.name)
      BY <1>2, <1>5, <2>1, <2>2 DEF CreatesBeside, Undisturbed
    <2> QED BY <2>1, <2>2
  <1>7. KeptIsGood(c)'
    <2> SUFFICES ASSUME NEW n \in Owned(cronjobs', want[c].app)
                 PROVE  \/ Good(want[c], n)' \/ cronjobs'[n].job \in Doomed(c)
                        \/ Queued(c, n)'
      BY <1>1, <1>3 DEF KeptIsGood, Owned
    <2>1. n \in Managed' /\ AppOf[cronjobs'[n].job] = want[c].app
      BY DEF Owned, Managed
    <2>2. CASE cronjobs'[n].terminating \/ Fine(want[c], n)'
      BY <2>2 DEF Good
    <2>3. CASE Undisturbed(c, n)
      <3>1. n \in Owned(cronjobs, want[c].app)
        BY <2>1, <2>3 DEF Owned, Managed, Undisturbed
      <3>2. Good(want[c], n) \/ cronjobs[n].job \in Doomed(c) \/ Queued(c, n)
        BY <1>2, <3>1 DEF KeptIsGood
      <3>3. IsAsked(want[c], cronjobs[n])' <=> IsAsked(want[c], cronjobs[n])
        BY <1>1, <2>3 DEF IsAsked, Undisturbed
      <3> QED BY <1>5, <2>3, <3>2, <3>3 DEF Good, Undisturbed
    <2> QED BY <2>1, <2>2, <2>3
  <1>8. PendingHasNone(c)'
    BY <1>3 DEF PendingHasNone
  <1>9. PlanSplits(c)'
    BY <1>1, <1>2 DEF PlanSplits
  <1> QED BY <1>4, <1>6, <1>7, <1>8, <1>9 DEF Solo

LEMMA CallRuns ==
  ASSUME KubernetesAssumption, DistinctNames, KubernetesInv,
         NEW c \in Command, pc[c] \in Working, Solo(c), RunCall(c)
  PROVE  Solo(c)'
  <1> DEFINE call == Head(calls[c])
             left == Tail(calls[c])
             n0 == call.name
  <1>1. /\ calls[c] # <<>> /\ calls[c] \in Seq(SafeCall)
        /\ call \in SafeCall /\ left \in Seq(SafeCall)
    <2>1. calls[c] # <<>> /\ calls[c] \in Seq(SafeCall)
      BY DEF RunCall, KubernetesInv
    <2> QED BY <2>1, HeadTailProperties
  <1>2. /\ call \in Range(calls[c])
        /\ \A x : x \in Range(left) => x \in Range(calls[c])
        /\ \A x : x \in Range(calls[c]) => x = call \/ x \in Range(left)
    BY <1>1, RangeOfTail
  <1>3. PICK rest \in Seq(SafeCall) :
          /\ NextCall(c, rest)
          /\ \/ rest = <<>> /\ (CronJobCall(call) \/ ConfigMapCall(call))
             \/ /\ call.do = "listConfigMaps"
                /\ \A x \in Range(rest) : x.do = "deleteConfigMap"
                /\ UNCHANGED resources
    <2>1. CASE NextCall(c, <<>>) /\ (CronJobCall(call) \/ ConfigMapCall(call))
      BY <2>1, EmptySeq
    <2>2. CASE /\ NextCall(c, DeleteEach("deleteConfigMap",
                                         Labelled(configmaps, call.job)))
               /\ call.do = "listConfigMaps"
               /\ UNCHANGED resources
      <3> DEFINE dels == DeleteEach("deleteConfigMap", Labelled(configmaps, call.job))
      <3>1. dels \in Seq(SafeCall)
        BY DeletesAreSafe
      <3>2. \A x \in Range(dels) : x.do = "deleteConfigMap"
        BY DeleteEachIs
      <3> HIDE DEF dels
      <3> QED BY <2>2, <3>1, <3>2 DEF dels
    <2> QED BY <2>1, <2>2 DEF RunCall
  <1> HIDE DEF call, left
  <1>4. /\ calls'[c] = rest \o left /\ UNCHANGED commandVars
    BY <1>3 DEF NextCall, KubernetesInv, left
  <1>5. \A x : x \in Range(calls'[c]) <=> x \in Range(rest) \/ x \in Range(left)
    BY <1>1, <1>4, RangeOfConcat
  <1>6. \A x \in Range(rest) : x.do = "deleteConfigMap"
    BY <1>3 DEF Range
  <1>7. \A x \in Range(calls'[c]) : x \in Range(calls[c]) \/ x.do = "deleteConfigMap"
    BY <1>2, <1>5, <1>6
  \* A call that has run is gone.
  <1>8. \A n : Queued(c, n) => Queued(c, n)' \/ call = DeleteOf(n)
    BY <1>2, <1>5 DEF Queued, DeleteOf
  <1>9. \A x \in Range(calls[c]) :
          /\ x \in SafeCall
          /\ x.do \in {"createConfigMap", "createCronJob"} => x.name \in Name
    <2>1. \A x \in Range(calls[c]) : x \in SafeCall
      BY <1>1 DEF Range
    <2> QED BY <2>1 DEF SafeCall, Call, Refusal
  <1>10. BuildsAsked(c) /\ CreatesBeside(c) /\ PendingHasNone(c)
    BY DEF Solo
  <1>11. \A n \in Managed : cronjobs[n].job \notin Pending(c)
    BY <1>10 DEF PendingHasNone
  <1>12. want' = want
    BY <1>4 DEF commandVars
  <1> DEFINE Kept(n) == /\ cronjobs'[n].job \notin Pending(c)
                        /\ \/ cronjobs'[n].terminating \/ Fine(want[c], n)'
                           \/ Undisturbed(c, n)
  \* What a call leaves alone.
  <1>13. ASSUME NEW n \in Managed', cronjobs'[n] = cronjobs[n],
                configmaps[n] = None => configmaps'[n] = None,
                call # DeleteOf(n)
         PROVE  Kept(n)
    <2>1. n \in Managed
      BY <1>13 DEF Managed
    <2> QED BY <1>8, <1>11, <1>13, <2>1 DEF Undisturbed
  <1>14. CASE call.do = "deleteCronJob" /\ CronJobCall(call)
    <2>1. /\ cronjobs' = Terminate(cronjobs, n0) /\ configmaps' = configmaps
          /\ n0 \in Name /\ cronjobs \in [Name -> CronJob \cup {None}]
      BY <1>1, <1>14 DEF CronJobCall, SafeCall, Call, Refusal, KubernetesInv, ResourcesOK
    <2>2. ASSUME NEW n \in Managed' PROVE Kept(n)
      <3>1. CASE n = n0
        <4>1. cronjobs[n] # None
          BY <2>1, <2>2, <3>1 DEF Terminate, Managed
        <4>2. n \in Managed /\ cronjobs[n] \in CronJob
          BY <2>1, <3>1, <4>1 DEF Managed
        <4>3. cronjobs'[n] = [cronjobs[n] EXCEPT !.terminating = TRUE]
          BY <2>1, <3>1, <4>1 DEF Terminate
        <4>4. cronjobs'[n].terminating /\ cronjobs'[n].job = cronjobs[n].job
          BY <4>2, <4>3 DEF CronJob
        <4> QED BY <1>11, <4>2, <4>4
      <3>2. CASE n # n0
        <4>1. cronjobs'[n] = cronjobs[n]
          BY <2>1, <3>2 DEF Terminate
        <4>2. call # DeleteOf(n)
          BY <3>2 DEF DeleteOf
        <4> QED BY <1>13, <2>1, <4>1, <4>2
      <3> QED BY <3>1, <3>2
    <2> QED BY <1>4, <1>7, <1>9, <2>2, CallsContinue
  <1>15. CASE call.do = "createCronJob" /\ CronJobCall(call)
    <2>1. /\ cronjobs' = CreateUnlessThere(cronjobs, n0, call.object)
          /\ configmaps' = configmaps
          /\ n0 \in Name /\ cronjobs \in [Name -> CronJob \cup {None}]
      BY <1>1, <1>15 DEF CronJobCall, SafeCall, Call, Refusal, KubernetesInv, ResourcesOK
    <2>2. /\ IsAsked(want[c], call.object) /\ call.object.job \notin Pending(c)
          /\ call.object.cron = CronOf(want[c].jobs[call.object.job], call.object.index)
      BY <1>2, <1>10, <1>15 DEF BuildsAsked
    <2>3. ASSUME NEW n \in Managed' PROVE Kept(n)
      <3>1. CASE n = n0 /\ cronjobs[n0] = None
        <4>1. cronjobs'[n] = call.object
          BY <2>1, <3>1 DEF CreateUnlessThere
        <4>2. Fine(want[c], n)'
          BY <1>12, <2>2, <4>1 DEF Fine, IsAsked, CronOf
        <4> QED BY <2>2, <4>1, <4>2
      <3>2. CASE ~(n = n0 /\ cronjobs[n0] = None)
        <4>1. cronjobs'[n] = cronjobs[n]
          BY <2>1, <3>2 DEF CreateUnlessThere
        <4>2. call # DeleteOf(n)
          BY <1>15 DEF DeleteOf
        <4> QED BY <1>13, <2>1, <4>1, <4>2
      <3> QED BY <3>1, <3>2
    <2> QED BY <1>4, <1>7, <1>9, <2>3, CallsContinue
  <1>16. CASE call.do = "deleteConfigMap" /\ ConfigMapCall(call)
    <2>1. /\ configmaps' = Terminate(configmaps, n0) /\ cronjobs' = cronjobs
          /\ n0 \in Name /\ configmaps \in [Name -> ConfigMap \cup {None}]
      BY <1>1, <1>16 DEF ConfigMapCall, SafeCall, Call, Refusal, KubernetesInv, ResourcesOK
    <2>2. \A n \in Name : configmaps[n] = None => configmaps'[n] = None
      BY <2>1 DEF Terminate
    <2>3. \A n : call # DeleteOf(n)
      BY <1>16 DEF DeleteOf
    <2>4. \A n \in Managed' : Kept(n)
      BY <1>13, <2>1, <2>2, <2>3 DEF Managed
    <2> QED BY <1>4, <1>7, <1>9, <2>4, CallsContinue
  <1>17. CASE call.do = "createConfigMap" /\ ConfigMapCall(call)
    <2>1. /\ configmaps' = CreateUnlessThere(configmaps, n0, call.object)
          /\ cronjobs' = cronjobs
      BY <1>17 DEF ConfigMapCall
    <2>2. \A n : call # DeleteOf(n)
      BY <1>17 DEF DeleteOf
    <2>3. \A n \in Name : n # n0 => configmaps'[n] = configmaps[n]
      BY <2>1 DEF CreateUnlessThere, KubernetesInv, ResourcesOK
    <2>4. cronjobs[n0] # None =>
            cronjobs[n0].terminating \/ Queued(c, n0) \/ Fine(want[c], n0)
      BY <1>2, <1>10, <1>17 DEF CreatesBeside
    <2>5. ASSUME NEW n \in Managed' PROVE Kept(n)
      <3>1. n \in Managed /\ n \in Name /\ cronjobs[n] # None
        BY <2>1, <2>5 DEF Managed
      <3> QED BY <1>8, <1>11, <2>1, <2>2, <2>3, <2>4, <3>1 DEF Undisturbed
    <2> QED BY <1>4, <1>7, <1>9, <2>5, CallsContinue
  <1>18. CASE UNCHANGED resources /\ call.do = "listConfigMaps"
    <2>1. cronjobs' = cronjobs /\ configmaps' = configmaps
      BY <1>18 DEF resources
    <2>2. \A n : call # DeleteOf(n)
      BY <1>18 DEF DeleteOf
    <2>3. \A n \in Managed' : Kept(n)
      BY <1>13, <2>1, <2>2
    <2> QED BY <1>4, <1>7, <1>9, <2>3, CallsContinue
  <1>19. /\ CronJobCall(call) => call.do \in {"deleteCronJob", "createCronJob"}
         /\ ConfigMapCall(call) => call.do \in {"deleteConfigMap", "createConfigMap"}
    BY DEF CronJobCall, ConfigMapCall
  <1> QED BY <1>3, <1>14, <1>15, <1>16, <1>17, <1>18, <1>19

LEMMA OperationBegins ==
  ASSUME KubernetesAssumption, DistinctNames, KubernetesInv,
         NEW c \in Command, pc[c] \in Working, Solo(c), OneJob(c)
  PROVE  Solo(c)'
  <1> DEFINE m == want[c]
             right(x, j) == x.do \in {"createCronJob", "createConfigMap"} =>
                              BuildsFor(x, j, m.jobs[j])
  <1>1. PICK j \in Job :
          \/ CallDelete(c, j) /\ Begin(c, DeleteCalls(j))
          \/ CallUpdate(c, j) /\ Begin(c, UpdateCalls(j, m.jobs[j]))
          \/ CallCreate(c, j) /\ Begin(c, CreateCalls(j, m.jobs[j]))
    BY DEF OneJob, Operation
  <1>2. /\ cronjobs' = cronjobs /\ configmaps' = configmaps
        /\ calls[c] = <<>> /\ pc' = pc /\ want' = want /\ plan' = plan
        /\ todo'[c] = todo[c] \ {j} /\ j \in todo[c]
        /\ pc[c] \in {"delete", "update", "create"}
    <2>1. todo' = [todo EXCEPT ![c] = @ \ {j}] /\ todo \in [Command -> SUBSET Job]
      BY <1>1 DEF CallDelete, CallUpdate, CallCreate, Done, KubernetesInv, CommandInv
    <2>2. CallUpdate(c, j) \/ CallCreate(c, j) => j \in todo[c]
      BY NextJobIs DEF CallUpdate, CallCreate, KubernetesInv
    <2>3. CallDelete(c, j) => j \in todo[c]
      BY DEF CallDelete
    <2> QED BY <1>1, <2>1, <2>2, <2>3 DEF OneJob, resources, Begin, CallDelete, CallUpdate,
                                     CallCreate, Working
  <1>3. /\ KeptIsGood(c) /\ PendingHasNone(c) /\ PlanSplits(c) /\ m \in Manifest
        /\ plan[c].creates \cup plan[c].updates \subseteq DOMAIN m.jobs
        /\ pc[c] \in {"update", "create"} => todo[c] \subseteq DOMAIN m.jobs
    BY <1>2 DEF Solo, KubernetesInv, CommandInv, ApplyOK, Stopped
  <1>4. pc[c] \in {"update", "create"} => j \in DOMAIN m.jobs /\ m.jobs[j] \in Version
    BY <1>2, <1>3, CommandAssumption
  <1>5. \A n : ~Queued(c, n)
    BY <1>2 DEF Queued, Range
  \* The deletions cover what is no longer doomed.
  <1>6. ASSUME \A n \in Managed : \/ cronjobs[n].job \notin Doomed(c) \ Doomed(c)'
                                  \/ Queued(c, n)'
        PROVE  KeptIsGood(c)'
    <2>1. Owned(cronjobs, want[c].app)' = Owned(cronjobs, m.app)
      BY <1>2 DEF Owned
    <2>2. \A n \in Owned(cronjobs, m.app) : n \in Managed
      BY DEF Owned, Managed
    <2>3. \A n : Good(want[c], n)' <=> Good(m, n)
      BY <1>2 DEF Good, Fine, IsAsked
    <2> QED BY <1>2, <1>3, <1>5, <1>6, <2>1, <2>2, <2>3 DEF KeptIsGood
  <1>7. PendingHasNone(c)' /\ PlanSplits(c)' /\ Pending(c)' \subseteq Pending(c)
    <2>1. Pending(c)' \subseteq Pending(c)
      BY <1>2 DEF Pending
    <2>2. PendingHasNone(c)'
      BY <1>2, <1>3, <2>1 DEF PendingHasNone, Managed
    <2> QED BY <1>2, <1>3, <2>1, <2>2 DEF PlanSplits
  <1>8. ASSUME j \in DOMAIN m.jobs, j \notin Pending(c)',
               \A x \in Range(calls'[c]) : right(x, j)
        PROVE  BuildsAsked(c)'
    <2>1. \A x : BuildsFor(x, j, m.jobs[j]) => IsAsked(m, x.object)
      BY <1>8 DEF BuildsFor, IsAsked
    <2>2. \A x : IsAsked(want[c], x)' <=> IsAsked(m, x)
      BY <1>2 DEF IsAsked
    <2> QED BY <1>2, <1>8, <2>1, <2>2 DEF BuildsFor, BuildsAsked, CronOf
  \* A name that is built is that of a CronJob of the job, if there is one.
  <1>9. ASSUME calls'[c] \in Seq(SafeCall),
               \A x \in Range(calls'[c]) : right(x, j),
               \A n \in Managed : cronjobs[n].job = j => Queued(c, n)'
        PROVE  CreatesBeside(c)'
    <2> SUFFICES ASSUME NEW x \in Range(calls'[c]),
                        x.do = "createConfigMap", cronjobs'[x.name] # None
                 PROVE  Queued(c, x.name)'
      BY DEF CreatesBeside
    <2>1. x \in SafeCall
      BY <1>9 DEF Range
    <2>2. HasName(x.object, x.name) /\ x.name \in Name
      BY <2>1 DEF SafeCall, Call, Refusal
    <2>3. x.name \in Managed
      BY <1>2, <2>2 DEF Managed
    <2>4. HasName(cronjobs[x.name], x.name)
      BY <2>3, CronJobIs DEF KubernetesInv
    <2>5. x.object.job = j
      BY <1>9 DEF BuildsFor
    <2>6. cronjobs[x.name].job = j
      BY <2>2, <2>4, <2>5, SameName
    <2> QED BY <1>9, <2>3, <2>6
  <1>10. calls \in [Command -> Seq(SafeCall)]
    BY DEF KubernetesInv
  <1>11. /\ DeleteCalls(j) \in Seq(SafeCall)
         /\ \A v \in Version : /\ CreateCalls(j, v) \in Seq(SafeCall)
                               /\ UpdateCalls(j, v) \in Seq(SafeCall)
    BY OperationsAreSafe
  <1>12. /\ \A n \in Managed : cronjobs[n].job = j => DeleteOf(n) \in Range(DeleteCalls(j))
         /\ \A x \in Range(DeleteCalls(j)) : right(x, j)
    BY DeleteCallsAre
  <1>13. pc[c] \in {"update", "create"} =>
           \A x \in Range(CreateCalls(j, m.jobs[j])) : right(x, j)
    BY <1>4, CreateCallsAre
  <1>14. Doomed(c) \ Doomed(c)' \subseteq {j}
    BY <1>2 DEF Doomed
  <1> HIDE DEF right
  <1>15. CASE CallDelete(c, j) /\ Begin(c, DeleteCalls(j))
    <2>1. calls'[c] = DeleteCalls(j)
      BY <1>10, <1>15 DEF Begin
    <2>2. \A n \in Managed : cronjobs[n].job = j => Queued(c, n)'
      BY <1>12, <2>1 DEF Queued, DeleteOf
    <2>3. BuildsAsked(c)' /\ CreatesBeside(c)'
      BY <2>1, DeleteCallsAre DEF BuildsAsked, CreatesBeside
    <2> QED BY <1>6, <1>7, <1>14, <2>2, <2>3 DEF Solo
  <1>16. CASE CallUpdate(c, j) /\ Begin(c, UpdateCalls(j, m.jobs[j]))
    <2>1. pc[c] = "update"
      BY <1>16 DEF CallUpdate
    <2>2. calls'[c] = DeleteCalls(j) \o CreateCalls(j, m.jobs[j])
      BY <1>10, <1>16 DEF Begin, UpdateCalls
    <2>3. \A x : x \in Range(calls'[c]) <=> \/ x \in Range(DeleteCalls(j))
                                            \/ x \in Range(CreateCalls(j, m.jobs[j]))
      BY <1>4, <1>11, <2>1, <2>2, RangeOfConcat
    <2>4. \A x \in Range(calls'[c]) : right(x, j)
      BY <1>12, <1>13, <2>1, <2>3
    <2>5. \A n \in Managed : cronjobs[n].job = j => Queued(c, n)'
      BY <1>12, <2>3 DEF Queued, DeleteOf
    <2>6. j \notin Pending(c)'
      BY <1>2, <1>3, <2>1 DEF Pending, PlanSplits
    <2>7. calls'[c] \in Seq(SafeCall)
      BY <1>4, <1>11, <2>1, <2>2 DEF UpdateCalls
    <2> QED BY <1>4, <1>6, <1>7, <1>8, <1>9, <1>14, <2>1, <2>4, <2>5, <2>6, <2>7 DEF Solo
  <1>17. CASE CallCreate(c, j) /\ Begin(c, CreateCalls(j, m.jobs[j]))
    <2>1. pc[c] = "create"
      BY <1>17 DEF CallCreate
    <2>2. calls'[c] = CreateCalls(j, m.jobs[j]) /\ calls'[c] \in Seq(SafeCall)
      BY <1>4, <1>10, <1>11, <1>17, <2>1 DEF Begin
    <2>3. \A x \in Range(calls'[c]) : right(x, j)
      BY <1>13, <2>1, <2>2
    <2>4. \A n \in Managed : cronjobs[n].job # j
      BY <1>2, <1>3, <2>1 DEF PendingHasNone, Pending
    <2>5. j \notin Pending(c)'
      BY <1>2, <2>1 DEF Pending
    <2> QED BY <1>4, <1>6, <1>7, <1>8, <1>9, <1>14, <2>1, <2>2, <2>3, <2>4, <2>5 DEF Solo
  <1> QED BY <1>1, <1>15, <1>16, <1>17

\* Resources go away or stay.
LEMMA RestContinues ==
  ASSUME KubernetesInv, NEW c \in Command, pc[c] \in Working, Solo(c),
         UNCHANGED commandVars, calls' = calls,
         \A n \in Managed' :
           /\ n \in Managed /\ cronjobs'[n] = cronjobs[n]
           /\ configmaps[n] = None => configmaps'[n] = None
  PROVE  Solo(c)'
  <1>1. PendingHasNone(c)
    BY DEF Solo
  <1>2. \A n : Queued(c, n) => Queued(c, n)'
    BY DEF Queued
  <1>3. \A n \in Managed' : cronjobs'[n].job \notin Pending(c) /\ Undisturbed(c, n)
    BY <1>1, <1>2 DEF PendingHasNone, Undisturbed
  <1>4. \A x \in Range(calls[c]) : x.do = "createConfigMap" => x.name \in Name
    <2>1. \A x \in Range(calls[c]) : x \in SafeCall
      BY DEF Range, KubernetesInv
    <2> QED BY <2>1 DEF SafeCall, Call, Refusal
  <1> QED BY <1>3, <1>4, CallsContinue

LEMMA CollectContinues ==
  ASSUME KubernetesInv, NEW c \in Command, pc[c] \in Working, Solo(c), Collect
  PROVE  Solo(c)'
  <1>1. UNCHANGED commandVars /\ calls' = calls
    BY DEF Collect, callVars
  <1>2. PICK n0 \in Name :
          \/ cronjobs' = [cronjobs EXCEPT ![n0] = None] /\ configmaps' = configmaps
          \/ configmaps' = [configmaps EXCEPT ![n0] = None] /\ cronjobs' = cronjobs
    BY DEF Collect
  <1>3. /\ cronjobs \in [Name -> CronJob \cup {None}]
        /\ configmaps \in [Name -> ConfigMap \cup {None}]
    BY DEF KubernetesInv, ResourcesOK
  <1>4. ASSUME NEW n \in Managed'
        PROVE  /\ n \in Managed /\ cronjobs'[n] = cronjobs[n]
               /\ configmaps[n] = None => configmaps'[n] = None
    <2>1. n \in Name /\ cronjobs'[n] # None
      BY <1>4 DEF Managed
    <2>2. cronjobs'[n] = cronjobs[n] /\ n \in Managed
      BY <1>2, <1>3, <2>1 DEF Managed
    <2> QED BY <1>2, <1>3, <2>1, <2>2
  <1> QED BY <1>1, <1>4, RestContinues

LEMMA SoloStep ==
  ASSUME KubernetesAssumption, DistinctNames, \A c, d \in Command : c = d
  PROVE  KubernetesInv /\ SoloInv /\ [Next]_vars => SoloInv'
  <1> SUFFICES ASSUME KubernetesInv, SoloInv, [Next]_vars,
                      NEW c \in Command, pc'[c] \in Working
               PROVE  Solo(c)'
    BY DEF SoloInv, Solo
  <1>1. Solo(c)
    BY DEF SoloInv
  <1>2. pc \in [Command -> Stopped \cup {"compute", "delete", "update", "create",
                                         "specs", "fill", "orphans", "prune"}]
    BY DEF KubernetesInv, CommandInv, CommandTypeOK
  <1>3. CASE OneJob(c)
    <2>1. pc' = pc
      BY <1>3 DEF OneJob, Operation, CallDelete, CallUpdate, CallCreate
    <2> QED BY <1>1, <1>3, <2>1, OperationBegins
  <1>4. CASE RunCall(c)
    <2>1. pc' = pc
      BY <1>4 DEF RunCall, NextCall, commandVars
    <2> QED BY <1>1, <1>4, <2>1, CallRuns
  <1>5. CASE Other(c)
    <2>1. /\ calls[c] = <<>> /\ UNCHANGED <<resources, calls>>
          /\ \/ \E m \in Manifest : Apply(c, m)
             \/ Prune(c, List) \/ ComputePlan(c, List)
             \/ NextPass(c) \/ SpecStep(c)
      BY <1>5 DEF Other, Between
    <2>2. ~\E m \in Manifest : Apply(c, m)
      BY <1>2 DEF Apply, Goto, Working
    <2>3. ~Prune(c, List)
      BY <1>2 DEF Prune, Pass, Goto, Working
    <2>4. CASE ComputePlan(c, List)
      BY <2>1, <2>4, PlanBegins
    <2>5. CASE NextPass(c) \/ SpecStep(c)
      BY <1>1, <2>1, <2>5, PassContinues
    <2> QED BY <2>1, <2>2, <2>3, <2>4, <2>5
  <1>6. ~Stops(c)
    BY <1>2 DEF Stops, Abort, Fail, Pass, Goto, Working
  <1>7. CASE Collect
    <2>1. pc' = pc
      BY <1>7 DEF Collect, callVars, commandVars
    <2> QED BY <1>1, <1>7, <2>1, CollectContinues
  <1>8. ~EditByHand
    BY DEF EditByHand, ByHand, commandVars, Working, Stopped
  <1>9. CASE UNCHANGED vars
    <2>1. /\ UNCHANGED commandVars /\ calls' = calls
          /\ cronjobs' = cronjobs /\ configmaps' = configmaps
      BY <1>9 DEF vars, resources, callVars
    <2>2. Managed' = Managed /\ pc' = pc
      BY <2>1 DEF Managed, commandVars
    <2> QED BY <1>1, <2>1, <2>2, RestContinues
  <1>10. CASE \E d \in Command : OneJob(d) \/ RunCall(d) \/ Other(d) \/ Stops(d)
    BY <1>3, <1>4, <1>5, <1>6, <1>10
  <1> QED BY <1>7, <1>8, <1>9, <1>10 DEF Next

\* What the invariant says of an apply at its end.
LEMMA GoodAtEnd ==
  ASSUME KubernetesAssumption, KubernetesInv, NEW c \in Command, Solo(c),
         pc[c] = "orphans", NEW n \in Owned(cronjobs, want[c].app)
  PROVE  \/ cronjobs[n].terminating
         \/ \E w \in Wanted(want[c]) :
              NameOf(w) = n /\ (RunsBy(w) \/ configmaps[n] = None)
  <1> DEFINE m == want[c]
             j == cronjobs[n].job
             idx == cronjobs[n].index
             w == Pair(m, j, idx + 1)
  <1>1. m \in Manifest
    BY DEF KubernetesInv, CommandInv, ApplyOK, Stopped
  <1>2. n \in Managed
    BY DEF Owned, Managed
  <1>3. calls[c] = <<>> /\ Doomed(c) = {} /\ KeptIsGood(c)
    BY DEF KubernetesInv, Doomed, Solo, Working
  <1>4. ~Queued(c, n)
    BY <1>3 DEF Queued, Range
  <1>5. Good(m, n)
    BY <1>3, <1>4 DEF KeptIsGood
  <1>6. HasName(cronjobs[n], n) /\ idx \in Nat
    BY <1>2, CronJobIs DEF KubernetesInv
  <1>7. ASSUME IsAsked(m, cronjobs[n])
        PROVE  /\ w \in Wanted(m) /\ NameOf(w) = n
               /\ w.version = m.jobs[j] /\ w.index = idx
    <2>1. j \in DOMAIN m.jobs /\ idx < Len(Schedules[m.jobs[j]])
      BY <1>7 DEF IsAsked
    <2>2. Len(Schedules[m.jobs[j]]) \in Nat
      BY <1>1, <2>1, WantedIs
    <2>3. idx + 1 \in 1..Len(Schedules[m.jobs[j]]) /\ (idx + 1) - 1 = idx
      BY <1>6, <2>1, <2>2
    <2> HIDE DEF m, j, idx, w
    <2>4. Pair(m, j, idx + 1) \in Wanted(m)
          /\ NameOf(Pair(m, j, idx + 1)) = ScheduleName[<<j, (idx + 1) - 1>>]
      BY <1>1, <2>1, <2>3, WantedIs
    <2>5. ScheduleName[<<j, idx>>] = n
      BY <1>6 DEF HasName, j, idx
    <2> QED BY <2>3, <2>4, <2>5 DEF w, Pair
  <1> HIDE DEF w
  <1>8. IsAsked(m, cronjobs[n]) /\ cronjobs[n].cron = CronOf(m.jobs[j], idx)
          => RunsBy(w)
    BY <1>7 DEF RunsBy
  <1> QED BY <1>5, <1>7, <1>8 DEF Good, Fine
-----------------------------------------------------------------------------
\* A resource has the name that its labels say, whatever fails, is collected
\* or is edited (buildResources, kubernetes.go).
THEOREM KubernetesTypeCorrect ==
  ASSUME KubernetesAssumption
  PROVE  Spec => []TypeOK
  <1>1. KubernetesInv => TypeOK
    <2> SUFFICES ASSUME KubernetesInv PROVE TypeOK
      OBVIOUS
    <2>1. \A n \in Name : \A resource \in {cronjobs, configmaps} :
            resource[n] # None =>
              ScheduleName[<<resource[n].job, resource[n].index>>] = n
      BY DEF KubernetesInv, ResourcesOK, HasName
    <2> QED BY <2>1 DEF TypeOK, CallsTypeOK, KubernetesInv, CommandInv
  <1> QED BY <1>1, KubernetesInvariant, PTL

\* An empty plan says the truth of every schedule that the cluster runs, and
\* what is wholly as the manifest says has an empty plan, provided that no two
\* schedules share a name (computeListHash, kubernetes.go:178-182).
THEOREM KubernetesPlanTells ==
  ASSUME KubernetesAssumption, DistinctNames
  PROVE  Spec => []PlanTellsCron
  <1>1. KubernetesInv => PlanTellsCron
    BY EmptyPlanTells DEF KubernetesInv, PlanTellsCron
  <1> QED BY <1>1, KubernetesInvariant, PTL

\* After an apply that succeeds, with no other command beside it, every CronJob
\* of its app that is not being deleted is one that the manifest asks for and
\* runs by its schedule, unless its ConfigMap is missing: whatever earlier
\* commands have failed at and people have edited between them, and although a
\* create that meets an old CronJob is taken for done (reconcile.Apply over
\* kubernetes.go).
THEOREM OnlyWantedFireAfterApply ==
  ASSUME KubernetesAssumption, DistinctNames, \A c, d \in Command : c = d
  PROVE  Spec => [][OnlyWantedFire]_vars
  <1>1. Init => SoloInv
    BY DEF Init, CallsInit, CommandInit, SoloInv, Solo, Working
  <1>2. KubernetesInv /\ SoloInv /\ [Next]_vars => SoloInv'
    BY SoloStep
  <1>3. KubernetesInv /\ SoloInv /\ [Next]_vars => [OnlyWantedFire]_vars
    BY GoodAtEnd DEF OnlyWantedFire, Succeeds, SoloInv
  <1> QED BY <1>1, <1>2, <1>3, KubernetesInvariant, PTL DEF Spec
=============================================================================
