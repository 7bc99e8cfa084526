---------------------------- MODULE ApplyCommand ----------------------------
(***************************************************************************)
(* `cronix apply` and `cronix prune` (go/internal/cli/commands and         *)
(* reconcile.Apply) over any backend, with the trigger specs that apply    *)
(* keeps beside it (trigger/spec.go).  Nothing holds a lock over a whole   *)
(* command, and a command may fail or be killed between any two of its     *)
(* steps.  The module of a backend says what the operations do to it.      *)
(***************************************************************************)
EXTENDS Reconcile

CONSTANTS
  Command,     \* the apply and prune commands that may run at once
  Manifest,    \* the manifests they may be given
  Torn,        \* a file truncated and not written yet
  KeepsSpecs   \* whether apply has a spec directory; not for kubernetes

ASSUME CommandAssumption ==
  /\ KeepsSpecs \in BOOLEAN
  /\ \A m \in Manifest : \A j \in DOMAIN m.jobs :
       j \in Job /\ AppOf[j] = m.app /\ m.jobs[j] \in Version
  /\ Torn \notin Version \cup {None}

VARIABLES
  specs,    \* <spec-dir>/<app>.<job>.json, for each job
  pc,       \* where each command is
  want,     \* the manifest it applies
  plan,     \* the plan it has computed
  todo      \* the jobs left in its present pass

commandVars == <<specs, pc, want, plan, todo>>

NoPlan == [creates |-> {}, skips |-> {}, updates |-> {}, deletes |-> {}]

Stopped == {"idle", "done", "failed"}

Goto(c, label) == pc' = [pc EXCEPT ![c] = label]

\* The next pass of the command c, over the jobs js.
Pass(c, label, js) == Goto(c, label) /\ todo' = [todo EXCEPT ![c] = js]

\* The job j of the present pass is done.
Done(c, j) == todo' = [todo EXCEPT ![c] = @ \ {j}]

\* Jobs in the order of the manifest.
NextJob(c) == Min(todo[c])

-----------------------------------------------------------------------------
CommandInit ==
  /\ specs = [j \in Job |-> None]
  /\ pc = [c \in Command |-> "idle"]
  /\ want = [c \in Command |-> None]
  /\ plan = [c \in Command |-> NoPlan]
  /\ todo = [c \in Command |-> {}]

\* apply: the manifest has been fetched, validated and normalized.
Apply(c, m) ==
  /\ pc[c] \in Stopped
  /\ Goto(c, "compute")
  /\ want' = [want EXCEPT ![c] = m]
  /\ plan' = [plan EXCEPT ![c] = NoPlan]
  /\ UNCHANGED <<specs, todo>>

\* Compute, from what the backend lists.
ComputePlan(c, entries) ==
  /\ pc[c] = "compute"
  /\ plan' = [plan EXCEPT ![c] = Compute(want[c], entries)]
  /\ Pass(c, "delete", plan'[c].deletes)
  /\ UNCHANGED <<specs, want>>

\* prune: List, and the confirmation, for all that is listed or with --app.
Prune(c, entries) ==
  /\ pc[c] \in Stopped
  /\ \/ Pass(c, "prune", Listed(entries))
     \/ \E k \in Job :
          Pass(c, "prune", {j \in Listed(entries) : AppOf[j] = AppOf[k]})
  /\ want' = [want EXCEPT ![c] = None]
  /\ plan' = [plan EXCEPT ![c] = NoPlan]
  /\ UNCHANGED specs

(* The calls of the backend's operations.                                  *)

\* Deletes come in the order of a Go map, or of the entries.
CallDelete(c, j) ==
  /\ pc[c] \in {"delete", "prune"} /\ j \in todo[c]
  /\ Done(c, j)
  /\ UNCHANGED <<specs, pc, want, plan>>

CallUpdate(c, j) ==
  /\ pc[c] = "update" /\ todo[c] # {} /\ j = NextJob(c)
  /\ Done(c, j)
  /\ UNCHANGED <<specs, pc, want, plan>>

CallCreate(c, j) ==
  /\ pc[c] = "create" /\ todo[c] # {} /\ j = NextJob(c)
  /\ Done(c, j)
  /\ UNCHANGED <<specs, pc, want, plan>>

(* The trigger specs.                                                      *)

\* writeSpecs: os.WriteFile truncates the file of every desired job ...
TruncateSpec(c) ==
  /\ pc[c] = "specs" /\ todo[c] # {}
  /\ specs' = [specs EXCEPT ![NextJob(c)] = Torn]
  /\ Goto(c, "fill")
  /\ UNCHANGED <<want, plan, todo>>

\* ... and writes it.
FillSpec(c) ==
  /\ pc[c] = "fill"
  /\ LET j == NextJob(c) IN
       /\ specs' = [specs EXCEPT ![j] = want[c].jobs[j]]
       /\ Pass(c, "specs", todo[c] \ {j})
  /\ UNCHANGED <<want, plan>>

\* removeOrphanSpecs: the jobs this plan has deleted.
RemoveOrphan(c) ==
  /\ pc[c] = "orphans"
  /\ \E j \in todo[c] : specs' = [specs EXCEPT ![j] = None] /\ Done(c, j)
  /\ UNCHANGED <<pc, want, plan>>

SpecStep(c) == TruncateSpec(c) \/ FillSpec(c) \/ RemoveOrphan(c)

(* From pass to pass.                                                      *)

WithSpecs(js) == IF KeepsSpecs THEN js ELSE {}

NextPass(c) ==
  /\ todo[c] = {}
  /\ \/ pc[c] = "delete" /\ Pass(c, "update", plan[c].updates)
     \/ pc[c] = "update" /\ Pass(c, "create", plan[c].creates)
     \/ pc[c] = "create" /\ Pass(c, "specs", WithSpecs(DOMAIN want[c].jobs))
     \/ pc[c] = "specs" /\ Pass(c, "orphans", WithSpecs(plan[c].deletes))
     \/ pc[c] \in {"orphans", "prune"} /\ Pass(c, "done", {})
  /\ UNCHANGED <<specs, want, plan>>

\* An operation returns an error, or the command is killed.
Fail(c) ==
  /\ pc[c] \notin Stopped
  /\ Pass(c, "failed", {})
  /\ UNCHANGED <<specs, want, plan>>

-----------------------------------------------------------------------------
CommandTypeOK ==
  /\ specs \in [Job -> Version \cup {None, Torn}]
  /\ pc \in [Command -> Stopped \cup {"compute", "delete", "update", "create",
                                      "specs", "fill", "orphans", "prune"}]
  /\ want \in [Command -> Manifest \cup {None}]
  /\ \A c \in Command :
       /\ todo[c] \subseteq Job
       /\ pc[c] \in Stopped \cup {"compute"} => todo[c] = {}

\* The command c is an apply that is about to succeed.
Succeeds(c) == pc[c] = "orphans" /\ pc'[c] = "done"

\* The command c may touch what app x has.
Concerns(c, x) == pc[c] = "prune" \/ (want[c] # None /\ want[c].app = x)

\* The specs of the jobs of m are what m says.
SpecsOf(m) == KeepsSpecs => \A j \in DOMAIN m.jobs : specs[j] = m.jobs[j]
=============================================================================
