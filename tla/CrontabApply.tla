---------------------------- MODULE CrontabApply ----------------------------
(***************************************************************************)
(* The crontab backend (go/internal/backends/crontab) under apply and      *)
(* prune.  Each operation rewrites the crontab under a lock of its own.    *)
(* Operators edit the crontab by hand.                                     *)
(***************************************************************************)
EXTENDS ApplyCommand

CONSTANTS
  Cron,        \* the 5-field expressions crontab can express
  MaxEdits     \* bound of the model: edits by hand

EditsAssumption == MaxEdits \in Nat

VARIABLES
  lines,    \* the crontab
  edits     \* the edits by hand so far

vars == <<lines, edits, commandVars>>

(* The crontab.                                                            *)

ScheduleLine(j, cron) == [kind |-> "schedule", job |-> j, cron |-> cron]
OwnerLine(j, hash, idx) ==
  [kind |-> "owner", job |-> j, hash |-> hash, index |-> idx]
ForeignLine == [kind |-> "foreign"]

\* Every block with the first schedule of the job.
BlockOfFirst(j, v, idx) ==
  <<ScheduleLine(j, Schedules[v][1]), OwnerLine(j, Hash(v, idx), idx)>>

Block(j, v, idx) ==
  <<ScheduleLine(j, Schedules[v][idx + 1]), OwnerLine(j, Hash(v, idx), idx)>>

\* render: a block per schedule, but none for one that cron cannot express.
Render(j, v) ==
  FoldLeft(\o, <<>>, [n \in DOMAIN Schedules[v] |->
    IF Schedules[v][n] \in Cron THEN Block(j, v, n - 1) ELSE <<>>])

IsOwner(line) == line.kind = "owner"

\* Strip that leaves the schedule line behind.
StripMarks(ls, j) ==
  SelectSeq(ls, LAMBDA line : ~(IsOwner(line) /\ line.job = j))

\* stripOwnedFor: an owner line goes, and so does the line kept before it.
Strip(ls, j) ==
  LET step(out, line) ==
        IF IsOwner(line) /\ line.job = j
          THEN IF out = <<>> THEN out ELSE Front(out)
          ELSE Append(out, line)
  IN  FoldLeft(step, <<>>, ls)

\* List: the owner lines, but for one with nothing before it.
List(ls) ==
  IF ls = <<>> THEN <<>>
  ELSE LET owners == SelectSeq(Tail(ls), IsOwner)
       IN  [n \in DOMAIN owners |-> [job |-> owners[n].job,
              hash |-> owners[n].hash, index |-> owners[n].index]]

-----------------------------------------------------------------------------
Init ==
  /\ lines \in {<<>>, <<ForeignLine>>}
  /\ edits = 0
  /\ CommandInit

DeleteJob(c, j) == CallDelete(c, j) /\ lines' = Strip(lines, j)

UpdateJob(c, j) ==
  CallUpdate(c, j) /\ lines' = Strip(lines, j) \o Render(j, want[c].jobs[j])

CreateJob(c, j) ==
  CallCreate(c, j) /\ lines' = lines \o Render(j, want[c].jobs[j])

\* The steps that read or rewrite the crontab, and those that do neither.
\* List takes no lock.
Rewrite(c) ==
  \E j \in Job : DeleteJob(c, j) \/ UpdateJob(c, j) \/ CreateJob(c, j)

Other(c) ==
  /\ \/ \E m \in Manifest : Apply(c, m)
     \/ Prune(c, List(lines)) \/ ComputePlan(c, List(lines))
     \/ NextPass(c) \/ SpecStep(c) \/ Fail(c)
  /\ UNCHANGED lines

\* An operator adds a line of their own, changes the schedule of a job in
\* place, or removes one of its blocks; the last two not during a command.
EditByHand ==
  /\ edits < MaxEdits
  /\ edits' = edits + 1
  /\ \/ lines' = Append(lines, ForeignLine)
     \/ /\ \A c \in Command : pc[c] \in Stopped
        /\ \E n \in 2..Len(lines) :
             /\ IsOwner(lines[n])
             /\ \/ /\ lines[n - 1].kind = "schedule"
                   /\ \E cron \in Cron :
                        lines' = [lines EXCEPT ![n - 1].cron = cron]
                \/ lines' = SubSeq(lines, 1, n - 2)
                              \o SubSeq(lines, n + 1, Len(lines))
  /\ UNCHANGED commandVars

Next ==
  \/ \E c \in Command : (Rewrite(c) \/ Other(c)) /\ UNCHANGED edits
  \/ EditByHand

Spec == Init /\ [][Next]_vars

-----------------------------------------------------------------------------
\* The crontab is made of foreign lines and of whole blocks.
TypeOK ==
  /\ \A n \in DOMAIN lines :
       lines[n].kind = "schedule" <=>
         n < Len(lines) /\ lines[n + 1].kind = "owner"
                        /\ lines[n + 1].job = lines[n].job
  /\ CommandTypeOK

\* What the owner lines of app x say, with repetitions.
Marks(ls, x) == SelectSeq(List(ls), LAMBDA e : AppOf[e.job] = x)

\* The entries a crontab should have for the version v of the job j.
Entries(j, v) ==
  {[job |-> j, hash |-> Hash(v, n - 1), index |-> n - 1] :
     n \in {k \in DOMAIN Schedules[v] : Schedules[v][k] \in Cron}}

\* The owner lines say what m says for the app of m, each once.
Installed(ls, m) ==
  LET marks == Marks(ls, m.app)
      wanted == UNION {Entries(j, m.jobs[j]) : j \in DOMAIN m.jobs}
  IN  Range(marks) = wanted /\ Len(marks) = Cardinality(wanted)

\* The blocks of the job j, as cron and List read them.
BlocksOf(ls, j) ==
  {<<ls[n - 1], ls[n]>> : n \in {k \in 2..Len(ls) : IsOwner(ls[k]) /\ ls[k].job = j}}

\* The job j has the blocks of its version v: cron runs it by its schedules.
RunsBy(ls, j, v) ==
  BlocksOf(ls, j) =
    {<<ScheduleLine(j, Schedules[v][e.index + 1]), OwnerLine(j, e.hash, e.index)>> :
       e \in Entries(j, v)}

\* The blocks of every job of m are what m says.
RunsAsAsked(ls, m) == \A j \in DOMAIN m.jobs : RunsBy(ls, j, m.jobs[j])

Expressible(m) ==
  \A j \in DOMAIN m.jobs : Range(Schedules[m.jobs[j]]) \subseteq Cron

\* An apply that succeeds leaves the owner lines and the specs as its manifest
\* says, whatever earlier commands have failed or been killed at, torn and
\* missing spec files included: "re-running after a partial failure converges
\* to the desired state without duplicating entries" (docs
\* operations/runbook.md:109).  Cron runs the jobs it has created or updated
\* by the schedules of the manifest, changes by hand undone, and so it does
\* every job if nobody has edited the crontab; a job it skips keeps a schedule
\* line that somebody has changed.
Converges ==
  \A c \in Command :
    Succeeds(c) =>
      LET m == want[c]
      IN  /\ Installed(lines, m) /\ SpecsOf(m)
          /\ \A j \in plan[c].creates \cup plan[c].updates :
               RunsBy(lines, j, m.jobs[j])
          /\ edits = 0 => RunsAsAsked(lines, m)

\* The plan for a manifest is empty exactly when the owner lines are those it
\* asks for (RFC.md, "Idempotency"), whatever blocks a hand has removed, for a
\* manifest that cron can express; if nobody has edited the crontab, exactly
\* when cron runs the jobs by it.  A schedule line changed in place, its owner
\* line left alone, is the exception: ManualEditsDetected.
PlanIsExact ==
  \A m \in Manifest :
    Expressible(m) =>
      LET noop == IsNoop(Compute(m, List(lines)))
      IN  /\ noop <=> Installed(lines, m)
          /\ edits = 0 => (noop <=> Installed(lines, m) /\ RunsAsAsked(lines, m))

\* "Manual edits are always detected": a schedule field edited by hand under
\* its marker is drift (concepts/drift.md:86-92, worked out for the crontab at
\* :122-141), so that an empty plan means that cron runs the jobs as asked.
ManualEditsDetected ==
  \A m \in Manifest :
    Expressible(m) /\ IsNoop(Compute(m, List(lines))) => RunsAsAsked(lines, m)

\* No command touches a line that cronix does not own, nor an entry of an app
\* it was not asked about ("MUST refuse to delete entries not owned by
\* cronix", backends/backend.go:44-46).
UnownedKept ==
  edits' = edits =>
    LET foreign(ls) == SelectSeq(ls, LAMBDA line : line.kind = "foreign")
    IN  /\ foreign(lines') = foreign(lines)
        /\ \A j \in Job :
             \/ Marks(lines', AppOf[j]) = Marks(lines, AppOf[j])
             \/ \E c \in Command : Concerns(c, AppOf[j])

\* "Concurrent apply invocations against the same host [...] MUST NOT corrupt
\* state" (RFC.md:786-787): a schedule of a job has at most one block, so that
\* it fires once.
NoDuplicateBlocks ==
  LET es == List(lines)
  IN  \A k, n \in DOMAIN es :
        es[k].job = es[n].job /\ es[k].index = es[n].index => k = n
=============================================================================
