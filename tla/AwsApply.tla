------------------------------ MODULE AwsApply ------------------------------
(***************************************************************************)
(* The EventBridge Scheduler backend (go/internal/backends/aws) under      *)
(* apply and prune.  What a schedule of a job is and which hash it has is  *)
(* in its description; its name follows from job and index.                *)
(***************************************************************************)
EXTENDS BackendCalls

CONSTANTS
  Name,          \* names in the group with cronix's prefix, in their order
  ScheduleName,  \* the name of each <<job, schedule index>>
  Translate,     \* the cron(...) expression of a schedule, None if none
  Undescribed    \* a schedule whose description is not cronix's

\* A described schedule: its description and its expression.
Schedule ==
  [job : Job, index : Nat, hash : Version \X Nat, cron : Range(Translate)]

ASSUME AwsAssumption ==
  /\ Name \subseteq Nat /\ IsFiniteSet(Name) /\ Range(ScheduleName) \subseteq Name
  /\ \A v \in Version : \A n \in DOMAIN Schedules[v] :
       /\ Schedules[v][n] \in DOMAIN Translate
       /\ \A j \in Job : <<j, n - 1>> \in DOMAIN ScheduleName
  /\ Undescribed # None /\ {None, Undescribed} \cap Schedule = {}

VARIABLES schedules   \* the schedules of the group, by name

vars == <<schedules, callVars>>

IsDescribed(n) == schedules[n] \notin {None, Undescribed}

\* buildDescription, and the expression.
Build(j, v, idx) ==
  [job |-> j, index |-> idx, hash |-> Hash(v, idx),
   cron |-> Translate[Schedules[v][idx + 1]]]

Described == {n \in Name : IsDescribed(n)}

\* What a description says.
Mark(s) == [job |-> s.job, index |-> s.index, hash |-> s.hash]

\* List: the description only; the expression is not looked at.
List ==
  LET names == InOrder(Described)
  IN  [k \in DOMAIN names |-> Mark(schedules[names[k]])]

(* The calls of an operation.                                              *)

\* Of these entries, in their order, by the name each should have.
DeleteEach(places) ==
  LET found == InOrder(places)
  IN  [k \in DOMAIN found |->
         LET e == List[found[k]]
         IN  [do |-> "delete", name |-> ScheduleName[<<e.job, e.index>>]]]

\* The first schedule of a job taken for all.
DeleteFirst(j) == DeleteEach(At(List, j, 0))

\* List, and a call for each schedule of the job.
DeleteCalls(j) == DeleteEach(EntriesOf(List, j))

\* A call per schedule, up to one that EventBridge cannot express.
CreateCalls(j, v) ==
  [n \in DOMAIN Schedules[v] |->
     IF Translate[Schedules[v][n]] = None THEN Refusal
     ELSE [do |-> "create", name |-> ScheduleName[<<j, n - 1>>],
           schedule |-> Build(j, v, n - 1)]]

UpdateCalls(j, v) == DeleteCalls(j) \o CreateCalls(j, v)

-----------------------------------------------------------------------------
\* Somebody may have schedules with cronix's prefix.
Init ==
  /\ \E theirs \in SUBSET (Name \ Range(ScheduleName)) :
       schedules = [n \in Name |-> IF n \in theirs THEN Undescribed ELSE None]
  /\ CallsInit

OneJob(c) ==
  Operation(c, DeleteCalls, UpdateCalls, CreateCalls) /\ UNCHANGED schedules

(* EventBridge refuses to create what exists and to delete what does not.  *)

DeleteSchedule(call) ==
  /\ call.do = "delete" /\ schedules[call.name] # None
  /\ schedules' = [schedules EXCEPT ![call.name] = None]

\* As if it replaced what exists.
CreateOrReplace(call) ==
  /\ call.do = "create"
  /\ schedules' = [schedules EXCEPT ![call.name] = call.schedule]

CreateSchedule(call) ==
  /\ call.do = "create" /\ schedules[call.name] = None
  /\ schedules' = [schedules EXCEPT ![call.name] = call.schedule]

\* The next call succeeds.
RunCall(c) ==
  /\ NextCall(c, <<>>)
  /\ LET call == Head(calls[c]) IN DeleteSchedule(call) \/ CreateSchedule(call)

Other(c) == Between(c, List) /\ UNCHANGED schedules

Stops(c) == Abort(c) /\ UNCHANGED schedules

\* Somebody changes the expression or the description of a schedule in the
\* console, or deletes it.
EditByHand ==
  /\ ByHand
  /\ \E n \in Name :
       /\ IsDescribed(n)
       /\ \/ \E cron \in Range(Translate) \ {None} :
               schedules' = [schedules EXCEPT ![n].cron = cron]
          \/ schedules' = [schedules EXCEPT ![n] = Undescribed]
          \/ schedules' = [schedules EXCEPT ![n] = None]

Next ==
  \/ \E c \in Command : OneJob(c) \/ RunCall(c) \/ Other(c) \/ Stops(c)
  \/ EditByHand

Spec == Init /\ [][Next]_vars

-----------------------------------------------------------------------------
\* A schedule has the name that its description says.
TypeOK ==
  /\ \A n \in Name :
       IsDescribed(n) =>
         ScheduleName[<<schedules[n].job, schedules[n].index>>] = n
  /\ CallsTypeOK

Built(j, v) == {Build(j, v, n - 1) : n \in DOMAIN Schedules[v]}

WantedMarks(m) ==
  UNION {{Mark(s) : s \in Built(j, m.jobs[j])} : j \in DOMAIN m.jobs}

OwnedMarks(x) ==
  {Mark(schedules[n]) :
     n \in {k \in Name : IsDescribed(k) /\ AppOf[schedules[k].job] = x}}

\* An apply that succeeds leaves the schedules of its app as its manifest says,
\* whatever earlier commands have failed at, and those of the jobs it has
\* created or updated with the right expression, hand edits undone; those that
\* it skips keep an expression that somebody has changed.
SchedulesConverge ==
  \A c \in Command :
    Succeeds(c) =>
      LET m == want[c]
      IN  /\ OwnedMarks(m.app) = WantedMarks(m)
          /\ \A j \in plan[c].creates \cup plan[c].updates :
               Built(j, m.jobs[j]) \subseteq Range(schedules)

Owned(x) ==
  {schedules[n] : n \in {k \in Name : IsDescribed(k) /\ AppOf[schedules[k].job] = x}}

Wanted(m) == UNION {Built(j, m.jobs[j]) : j \in DOMAIN m.jobs}

\* The plan for a manifest is empty exactly when the descriptions are those it
\* asks for, a create that stopped half-way included; if nobody has edited a
\* schedule by hand, exactly when the schedules are, expressions included.  An
\* expression that somebody has changed in the console is the exception:
\* ManualEditsDetected.
PlanIsExact ==
  \A m \in Manifest :
    LET noop == IsNoop(Compute(m, List))
    IN  /\ noop <=> OwnedMarks(m.app) = WantedMarks(m)
        /\ edits = 0 => (noop <=> Owned(m.app) = Wanted(m))

\* "Manual edits are always detected" (concepts/drift.md:86-92): an empty plan
\* means that the schedules of its app have the expressions it asks for.
ManualEditsDetected ==
  \A m \in Manifest : IsNoop(Compute(m, List)) => Owned(m.app) = Wanted(m)

\* Delete "MUST refuse to delete entries not owned by cronix"
\* (backends/backend.go:44-46): a schedule that does not carry cronix's
\* description is never touched, not even one with the name of a job's.
ForeignKept ==
  [][\A n \in Name :
       schedules[n] = Undescribed => schedules'[n] = Undescribed]_vars
=============================================================================
