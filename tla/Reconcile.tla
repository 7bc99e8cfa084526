----------------------------- MODULE Reconcile -----------------------------
(***************************************************************************)
(* The reconciler (go/internal/reconcile): Compute diffs a manifest        *)
(* against the entries a backend lists.  A job is identified by its app    *)
(* and name; jobs are numbered in the order of their names.  A version     *)
(* stands for everything else a normalized job says, its schedules         *)
(* included.  A manifest has an app and a version for some of its jobs.    *)
(***************************************************************************)
EXTENDS Ordering, SequencesExt

CONSTANTS
  Job,         \* the (app, name) pairs
  AppOf,       \* the app of each of them
  Version,     \* what a manifest can say of a job
  Schedules,   \* the sequence of schedules of each version
  None         \* no hash, no file

ASSUME ReconcileAssumption ==
  /\ Job \subseteq Nat /\ IsFiniteSet(Job)
  /\ DOMAIN AppOf = Job
  /\ DOMAIN Schedules = Version
  /\ \A v \in Version :
       /\ Len(Schedules[v]) \in Nat \ {0}
       /\ DOMAIN Schedules[v] = 1..Len(Schedules[v])
  /\ None \notin Version \cup (Version \X Nat)

\* The 64-bit fold over the canonical job, salted with the schedule index; the
\* model has no collisions.
Hash(v, idx) == <<v, idx>>

\* A backend lists entries with a job, a hash and an index, one per schedule
\* that it has.
DesiredHashes(v) == [n \in 1..Len(Schedules[v]) |-> Hash(v, n - 1)]

\* Where the entries of the job j are, and those of its schedule idx.
EntriesOf(entries, j) == {n \in DOMAIN entries : entries[n].job = j}
At(entries, j, idx) == {n \in EntriesOf(entries, j) : entries[n].index = idx}

\* Each entry overwrites those before it with its index.
HashAt(entries, j, idx) ==
  LET at == At(entries, j, idx)
  IN  IF at = {} THEN None ELSE entries[Max(at)].hash

\* The hashes by index.
ListedHashes(entries, j) ==
  LET top == Max({entries[n].index : n \in EntriesOf(entries, j)})
  IN  [n \in 1..top + 1 |-> HashAt(entries, j, n - 1)]

Listed(entries) == {entries[n].job : n \in DOMAIN entries}

\* The first schedule taken for the job.
ComputeByFirst(m, entries) ==
  LET desired == DOMAIN m.jobs
      same(j) == ListedHashes(entries, j)[1] = DesiredHashes(m.jobs[j])[1]
  IN  [creates |-> desired \ Listed(entries),
       skips   |-> {j \in desired \cap Listed(entries) : same(j)},
       updates |-> {j \in desired \cap Listed(entries) : ~same(j)},
       deletes |-> {j \in Listed(entries) \ desired : AppOf[j] = m.app}]

\* Every job the manifest does not name taken for one to delete.
ComputeAllApps(m, entries) ==
  LET desired == DOMAIN m.jobs
      same(j) == ListedHashes(entries, j) = DesiredHashes(m.jobs[j])
  IN  [creates |-> desired \ Listed(entries),
       skips   |-> {j \in desired \cap Listed(entries) : same(j)},
       updates |-> {j \in desired \cap Listed(entries) : ~same(j)},
       deletes |-> Listed(entries) \ desired]

\* The plan, one set of jobs per action.
Compute(m, entries) ==
  LET desired == DOMAIN m.jobs
      same(j) == ListedHashes(entries, j) = DesiredHashes(m.jobs[j])
  IN  [creates |-> desired \ Listed(entries),
       skips   |-> {j \in desired \cap Listed(entries) : same(j)},
       updates |-> {j \in desired \cap Listed(entries) : ~same(j)},
       deletes |-> {j \in Listed(entries) \ desired : AppOf[j] = m.app}]

\* What is listed taken for what is asked for.
InSyncAsListed(v, entries, j) ==
  /\ EntriesOf(entries, j) # {}
  /\ \A n \in EntriesOf(entries, j) :
       entries[n].hash = Hash(v, entries[n].index)

\* computeInSync: `show` compares the entries of a job with its schedules once
\* more, on its own.
InSync(v, entries, j) ==
  /\ Cardinality(EntriesOf(entries, j)) = Len(Schedules[v])
  /\ \A n \in DOMAIN Schedules[v] : HashAt(entries, j, n - 1) = Hash(v, n - 1)

IsNoop(plan) == plan.creates \cup plan.updates \cup plan.deletes = {}

\* Each index of the job j is listed once.
ListedOnce(entries, j) ==
  \A n, k \in EntriesOf(entries, j) :
    entries[n].index = entries[k].index => n = k

\* "Mirrors reconcile.Compute's hash logic" (cli/commands/show.go:178): a job
\* that `show` calls in sync is one that apply skips, and a job that apply
\* skips is called in sync unless one of its schedules is listed twice.
ShowAgrees(m, entries) ==
  \A j \in DOMAIN m.jobs :
    LET shown == InSync(m.jobs[j], entries, j)
        skipped == j \in Compute(m, entries).skips
    IN  /\ shown => skipped
        /\ skipped /\ ListedOnce(entries, j) => shown
=============================================================================
