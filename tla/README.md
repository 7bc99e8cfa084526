# A TLA+ verification of cronix

cronix runs the scheduled jobs of applications on schedulers that exist
already: crontab, systemd timers, Kubernetes CronJobs, EventBridge, Vercel.  An
application publishes a *manifest* of its jobs; `cronix apply` reconciles the
scheduler with it; when the scheduler fires, `cronix trigger` (the *shim*)
takes a lock, signs a request and sends it to the application, retrying under
the job's policy.  This directory models the parts of that code whose
correctness depends on the order of events, checks them with TLC on small
instances and proves the main safety properties with TLAPS for all instances.

Paths below are relative to the repository; `locks/`, `trigger/`, `reconcile/`,
`backends/` and `cli/` stand for `go/internal/...`.

## The system

| Component | State it keeps | Operations | Hard because | Correct when |
|---|---|---|---|---|
| flock lock (`locks/flock`, `locks/replacer*.go`) | `<key>.lock` (the kernel's flock), `<key>.holder` (host and pid) | Acquire, AcquireOrReplace, Release | two files that cannot change together; SIGTERM to a pid read from a file; shims killed anywhere; recycled pids | one shim holds it, nobody waits for ever, the signal goes to the holder |
| Redis lock (`locks/redis`) | a key with a token and a time to live | Acquire, Release, Refresh | time; commands that run after their caller has given up; lost replies | a running lease is alone; nothing is leaked beyond its time to live |
| Trigger shim (`trigger/shim.go`, `cli/commands/trigger.go`) | nothing on disk; phase, attempt, exit code | Run: load, lock, attempts with backoff, release | composition with the lock, panics, timeouts, signals | fires exclude each other, the exit code tells the truth, the lock comes back |
| Trigger specs (`trigger/spec.go`) | `<dir>/<app>.<job>.json` | Save, LoadSpec | written in place, by another command than the one that changes the schedule | every installed job has its spec |
| Reconciler (`reconcile`, `policy`) | none | Compute, Apply, IsNoop | plans from a state that others change; stops at the first error | converges on retry, empty plan iff in sync, other apps untouched |
| crontab backend (`backends/crontab`) | the crontab | List, Create, Update, Delete, adopt, History | markers are comments next to lines people edit; lock per write only | owned blocks exactly those of the manifest, foreign lines kept |
| systemd backend | unit files, systemd's loaded and enabled units | the same | several `systemctl` calls per operation, each may fail; globs over names | the same, and timers really enabled |
| Kubernetes backend (`backends/kubernetes`) | a CronJob and a ConfigMap per schedule | the same, as API calls | deletion takes effect later; the hash comes from another object than the schedule | an empty plan means the right CronJobs run |
| AWS backend (`backends/aws`) | schedules in an EventBridge group | the same, one call per schedule | operations that stop half-way; ownership is a line of text | converges, operators' schedules kept |
| Vercel backend (`backends/vercel`) | the crons in `vercel.json` | the same, as rewrites of the file | truncated before it is written; the app is not stored | schedules there, the user's part kept |
| Adoption (`backends/crontab/adopt.go`, `cli/commands/adopt.go`) | markers in the crontab | match, mark | three reads, one of them under the lock | only markers are added, an adopted job is in sync |
| Manifest (`manifest`, TS `manifest.ts`, `cron.ts`) | none | parse, validate, normalize | the same rules and grammars by hand in two languages; a normal form is normalized again | what is accepted twice is normalized to the same, and what is accepted once is known |
| Signing (`auth`, `go/pkg/cronsdk`, TS `auth.ts`) | none; secrets on two sides | sign, verify | two parsers; retries later than the replay window; rotation of secrets | every attempt of a configured job verifies |
| TypeScript SDK registry (`registry.ts`) | registered jobs and handlers, in memory | register, on, verifyTrigger, dispatch | hooks and handlers awaited in between; restarts | the shim hears what the handler returned |
| History (`backends/historyutil`) | none | FoldShimLogs | lines of several runs mixed, a window cut at any line | one true entry per run |
| Global status (`cli/commands/global_status.go`) | results, a semaphore | run, query | a goroutine per backend | complete report, no deadlock |
| list, show, drift, validate | none | read and print | `show` has a comparison of its own | it says what apply would do |
| Adapters, Lambda entry, telemetry, scaffolding, Helm, docs | none | conversion and packaging | | |

How they interact: `apply` calls the reconciler, which calls one backend's
List, Delete, Update and Create; then it writes the trigger specs.  The host
scheduler starts a shim for every fire; the shim reads its spec, takes the
lock the policy asks for, and talks HTTP to the application, which verifies
the signature.  `apply`, the shims and operators share only files (or remote
objects): there is no daemon, no memory outlives a command, and any process
may be killed between two calls.

PROJECT.json lists, under `hazards`, the places where this can go wrong, each
with the properties that cover it or the reason why none does yet.

## Modules

| Module | Models | Notes |
|---|---|---|
| `JobMutex` | what `locks.Lock` promises | the abstract specification |
| `Flock` | `locks/flock` call by call, with processes and signals | implements `JobMutex` |
| `Trigger` | `trigger.Run` and `cronix trigger`, composed with `Flock` | fires implement `JobMutex` again |
| `RedisLock` | `locks/redis` and the Redis commands it sends | leases implement `JobMutex` |
| `Backoff` | `computeBackoff` | a pure operator |
| `RedisFire` | the timing of `trigger.Run` over `RedisLock` | |
| `Reconcile` | `reconcile.Compute`, the hashes, `IsNoop` | pure operators |
| `ApplyCommand` | the passes of `cronix apply` and `cronix prune`, and the specs | uses `Reconcile`; says nothing of the backend |
| `CrontabApply` | both commands over the crontab | extends `ApplyCommand` |
| `CrontabAdopt` | `adopt` beside them | extends `CrontabApply` |
| `BackendCalls` | operations that are sequences of calls | extends `ApplyCommand` |
| `SystemdApply`, `KubernetesApply`, `AwsApply`, `VercelApply` | the four other backends | extend `BackendCalls` |
| `Delivery` | a fire between the shim and `registry.ts`, with time and a rotation of secrets | |
| `Signing` | the two verifiers of the signature header | pure operators over all headers |
| `Normalize` | validation and normalization, twice | pure operators over manifests |
| `GlobalStatus` | `runGlobalStatus` and its goroutines | |
| `History` | the log of shims and its fold | |
| `Ordering` | the order in which a directory or a service lists names | one operator, `InOrder` |
| `TriggerProofs` | | theorems about `Flock` and `Trigger` |
| `RedisProofs` | | theorems about `RedisLock` and `RedisFire` |
| `AppProofs` | | theorems about `Signing`, `Normalize`, `GlobalStatus` and `Delivery` |
| `OrderingProofs` | | least and greatest elements of sets of numbers, and their `InOrder` |
| `PlanProofs` | | lemmas about `Reconcile` and `ApplyCommand` over any backend, and what `show` says |
| `AwsProofs`, `KubernetesProofs`, `SystemdProofs` | | theorems about the three backends |
| `MCLocks` | the flock lock between processes of two hosts, and the shims of a job over it | one part per behaviour |
| `MCRedis` | two processes on the Redis lock, which may be the shims of a job | one part per behaviour |
| `MCCommands` | one command line tool over the five backends, and adopt | one backend per behaviour |
| `MCApp` | the parts around one fire | one part per behaviour |
| other `MC*` | instances for TLC | |

Some definitions named after another one (`SignalAgain` for `Signal`,
`StripMarks` for `Strip`, ...) are wrong on purpose: each is a plausible bug,
and the property it is paired with in PROJECT.json must fail when it replaces
the correct definition.  No specification uses them.

### Flock

A process is an identity, a (host, pid) pair.  `pc` says where each identity
is: `free` (no such process), `other` (the pid belongs to an unrelated
program) or a point in the shim's use of the lock.

| `pc` | In the code |
|---|---|
| `idle` | the shim runs, has not asked for the lock |
| `try` | before `TryLock` in Acquire |
| `read`, `signal` | AcquireOrReplace: before `readHolder`, before `Signal(SIGTERM)` |
| `poll` | its loop around `TryLock` until `waitForExit` is over |
| `truncate`, `write` | `makeHandle`: the two halves of `os.WriteFile` on the holder file |
| `held` | Acquire has returned a Handle |
| `remove`, `unlock` | Release: before `os.Remove`, before `Unlock` |
| `contended`, `failed`, `released` | ErrContended, another error, after Release |

`owner` is what the kernel knows of the lock, `holder` what the holder file
says (`Empty` between the truncation and the write).  `Crash` and `Terminate`
may hit a shim anywhere: the kernel drops the flock, the file stays, and the
identity may be given to another shim or program.  Processes in `Faulty` may
fail to write or remove the holder file: the code ignores both errors.

What the process writes to the lock file itself, and the polling branch of
Acquire for a context with a deadline, which no caller in the repository uses,
are left out.  Every shim contends for one key; keys do not interact.

### Trigger

`phase` is where a shim is in `Run`; `Boot` is the load of spec and secrets
and the branch on `concurrency`; `LockStep` is any step of `Flock`; `Acquired`
and `NotAcquired` are the two returns of the lock step; `Send` and `Answer` are
one iteration of the attempt loop, `backoff` the sleep in it; `Return` sets the
exit code and `DeferredRelease` runs the deferred Release.  `Panic` is the
recover in `Run`.  `cronix trigger` installs no signal handler, so SIGTERM ends
the shim without its defers.  Policies may differ between two fires of one job,
since apply may rewrite the spec between them.

### RedisLock and RedisFire

Time is discrete.  `left` is the time to live of the entry, `since` the time
since a process's last SET or EXPIRE took effect; a lease *runs* while `since <
Ttl`.  A script whose caller has stopped waiting is put in `late` and executed
at any later time or never.  `RedisFire` adds the shim's own timers: an attempt
lasts at most `Timeout`, a backoff what `computeBackoff` says, `Ttl = Timeout +
Headroom` as in shim.go:201.  Run never calls Refresh, so neither does
`RedisFire`.  No command builds the Redis backend at this commit
(cli/commands/trigger.go:62 always builds flock, whatever `concurrency_scope`
says); the module models the package and `Run`, which accepts any lock.

### Reconcile, ApplyCommand and CrontabApply

Jobs are numbers, in the order of their names; a *version* stands for what a
normalized job says, schedules included, and the hash of a schedule is its
version and index, without collisions.  The crontab is a sequence of schedule
lines, owner markers and foreign lines.  `List`, `Strip` and `Render` are
`List`, `stripOwnedFor` and `render`, including the lines that Render drops
because cron cannot express them and the line that Strip drops whatever it is.

In `ApplyCommand` a command goes through the passes `compute`, `delete`, `update`, `create`,
`specs` (and `fill`), `orphans`, or through `prune`; `todo` is what is left of
the present pass.  A backend says what its List returns, which is handed to
`ComputePlan` and `Prune`, and what its operations do, beside `CallDelete`,
`CallUpdate` and `CallCreate`.  An operation of the crontab is one atomic step: the
code rewrites the crontab under its own flock with a temporary file and a rename.  A spec
file is written in two steps, because `os.WriteFile` truncates first.  `Fail`
ends a command anywhere: an operation that returns an error has changed
nothing, and the commands do not undo what they did before.  `EditByHand` adds
foreign lines at any time; it changes the schedule of a block or removes a
block only while no command runs, since an edit of the very block that apply
has just compared proves nothing about apply.  `InSync` is `computeInSync`, the second
comparison that `show` makes.

### BackendCalls

The four backends other than crontab take no lock and do an operation as a
sequence of calls to another program: `systemctl` and file writes, the
Kubernetes API, the EventBridge API, rewrites of `vercel.json`.  `calls` is what
is left of the operation of each command.  `Operation` begins the next one of
the pass with the calls that the backend says it makes, `RunCall` of each
backend makes the next call, `Abort` ends the command at any of them.  `Refuse`
is a call that nobody answers: it stands for the error of a schedule that the
backend cannot express, found after the calls before it.  A change by hand
(`ByHand`) happens while no command runs.  These backends have `KeepsSpecs =
FALSE`: the passes that write spec files depend on the plan only, and are
checked with crontab.

### SystemdApply

A unit has a timer and a service file (`files`); systemd has a set of timers
linked for the next boot (`enabled`) and, for each that it runs now, the timer
file as it was when last loaded (`running`).  `DeleteCalls`, `CreateCalls` and
`UpdateCalls` translate the three methods: for each unit they queue the first of
its calls, and each call puts the one after it on the same unit in its place
(`Then`).  `enable --now` and `disable --now` are two calls each, and a file is
truncated before it is written.  What globs
match is a constant, so that an instance decides which names they confuse.
systemd itself is known only by how the backend uses it.  A file that is
truncated parses as nobody's, as `parseUnit` has it.  An edit by hand changes
OnCalendar in a timer file and nothing else; `Reboot` starts what is enabled.

### KubernetesApply, AwsApply, VercelApply

*Kubernetes.*  A schedule is a CronJob and a ConfigMap of one name.  A deletion
marks a resource as `terminating`; `Collect`, the garbage collector, removes it
at any later time, so creates meet resources that are still there, and the code
takes AlreadyExists for success.  `ListHash` is `computeListHash`: the hash comes
from the ConfigMap, the schedule from the CronJob, the label is the fallback.
The ConfigMaps of a delete are listed after its CronJobs have been deleted
(`listConfigMaps`).  By hand: kubectl edit of a schedule, kubectl delete of one of
the pair.

*AWS.*  A schedule's description says whose it is and which hash it has; List
looks at nothing else, Delete goes by the name it should have.  EventBridge
refuses to create what exists and to delete what does not.  `Undescribed` is a
schedule with cronix's prefix and another description.

*Vercel.*  Every operation reads `vercel.json`, truncates it and writes it.  A
missing and an empty file both read as a new one.  The user has a cron and other
keys in it.  The job of a cron is told by its path and its app is unknown, so
`List` gives jobs of the app `""` (`Unnamed`), which no manifest has.  Hence every
apply adds the crons of its manifest again; `MaxCrons` bounds the list, and a
command that would pass it can only fail.

### CrontabAdopt

An adoption reads the crontab (`AdoptRead`), reads it again to see what is
managed already (`AdoptDecide`), and inserts markers under the lock at the line
numbers of the first read (`AdoptMark`); apply, prune and an editor act in
between.  A number past the end of the file panics, which changes nothing.
`--dry-run` is an adoption that stops before the last step.

### Delivery

One fire of a job against the application, in discrete time.  `shim` has the
phase and the timer of the attempt loop and what it signed with: the time of
the fire and the first secret of the spec, both fixed before the first attempt.
`request` follows each attempt through `verifyTrigger`, `dispatch`, the hooks and
the handler, with an action per await; it goes on when the shim has stopped
waiting, and its answer is then lost.  `job` is the registry: registered or not,
bound to a handler or not (`cron.on` may come later), with or without
`skipVerify`; `Restart` empties it and breaks every connection.  `AddSecret`,
`Apply`, `DropSecret` are the rotation of concepts/secrets.md.  A hook that throws
is caught (`runHook`), so `Reply` has one outcome; the mutant `ReplyOrThrow` has
two.  The lock lets one fire at a time in (`Begin`), and a second one
changes nothing that the first reads: it only makes `Begin` and `DropSecret`
wait; so one fire is enough for TLC, and the theorems are about any number.

### Signing and Normalize

Both compare two implementations, in Go and in TypeScript, over every input of
a bounded set.  A header is a sequence of segments, each plain or garbled in one
of the ways the parsers tell apart; a MAC is the secret and time it was made
with.  `ReadsAlike` names what the two parsers are known to read differently: a
sign before the timestamp, a timestamp past 2^53, a signature that is not hex
before one that is.  A verifier is called with a time and a window, each given,
given as 0 or left out: 0 is left out for Go (auth.go:101-108), a value for
TypeScript (auth.ts:60-61).

A manifest is a sequence of jobs with their fields, each of which may be left
out or null; it may have fields that nobody knows, which Go rejects
(manifest.go:159) and zod strips.  `GoSchedule` and `TsSchedule` are the two
hand-written validators of schedules, cron.go:27-69 and cron.ts:13-52, over what
they look at: white space around (one kind for each language alone), a shortcut,
a name that JavaScript's `in` finds in any object, `@every` with its letters,
white space, sign, number and unit, and Go's product that wraps around
(`Wrapped`).  What a library decides stands in the input as the set of those that
take it: robfig/cron and cron-parser of five fields, net/url and URL of a URL.
The types of the fields that are there are right.  Version, app, headers, keys in
another case or twice, numbers with a fraction, the trim that zod gives a URL, and
the bytes of the canonical JSON are left out.  `Served` is what `manifestFn` of the
registry answers, which Go then parses and normalizes again.

The two languages do differ, so the property names every difference as an
exception: `SpeltAlike` excludes unknown fields, null, numbers beyond 2^53, URLs
without a host or that one parser takes, and (`AlikeSchedule`) `@EVERY 5m`,
`@every5m`, `@every +5m`, `constructor`, an `@every` whose seconds do not fit in an
int, one-sided white space, and five fields that one cron parser takes.

### GlobalStatus and History

`GlobalStatus` has the loop of the main goroutine, the semaphore `slots`, a
goroutine per backend and the list `results`; a query returns rows or an error,
at its deadline at the latest.  In `History` runs write log lines as `Run` does
(killed shims write no more), other lines come between, and `FoldShimLogs` reads
any suffix of the log.

## What is checked

All runs finish in a few minutes with two workers.

| Run | Instance | Distinct states | Result |
|---|---|---|---|
| `locks` | the lock alone: 3 identities on 2 hosts; or fires: 2 identities on one host, all policies, 2 attempts, weak fairness; the holder files of two identities may fail | 251 724 | holds |
| `redis` | the lock alone, or the shims of fires that fit (unit 5s, 3 attempts); 2 processes, 4 tokens, Ttl 7, weak fairness of time | 51 280 | holds |
| `commands` | one of crontab, adopt, systemd, Kubernetes, AWS, Vercel per behaviour; 2 or 3 jobs, 2 to 4 manifests, 1 command at a time, 1 change by hand | 1 181 102 | holds |
| `app` | one of delivery, verifiers, status, history, normalization per behaviour | 173 073 | holds |
| `redis_fire_retries` | unit 30s: attempts of 60s, 30s headroom, 3 attempts | | violated: `ShimWithinLease` |
| `manual_edits` | the instance of `commands` | | violated: `EditsAreDetected` |
| `apply_concurrent` | crontab, 2 commands at once, no edit | | violated: `NoDuplicateBlocks` |
| `systemd_rerun` | systemd, 2 jobs of one app, 1 command at a time | | violated: `RerunSchedules` |
| `systemd_names` | the same with an operator's timer named after a job | | violated: `ForeignKept` |
| `kubernetes_update` | Kubernetes, 2 jobs of one app | | violated: `UpdateReplaces` |
| `retry_window` | the policy documented in retries.md, in units of 300s | | violated: `AuthenticNeverRefused` |
| `served_manifest` | all manifests of `MCNormalize` | | violated: `ServedIsAccepted` |

`commands`, `app`, `locks` and `redis` are disjoint unions.  The first state chooses a
backend, or a part; every step is a step of its module and leaves the variables
of the others alone, so the run visits exactly the states of each module by
itself.  What the properties say of one module they say of behaviours of that
module.  `MCLocks` extends `Trigger`, `MCCommands` `AwsApply`, and `MCApp` `Delivery`,
`GlobalStatus`, `Signing` and `Normalize`, so that the properties TLC checks there
are the definitions the theorems are about; the other modules are INSTANCEs with
constants of their own, and `BackendAssumptions` evaluates what they assume.

Bounds, and why they are enough:

- *Identities*: two contenders on one host and one on another make every
  comparison of hosts come out both ways; a recycled pid needs one identity to
  die and come back, which identities do without bound.  The fires have two, for
  the size of the liveness graph; what a third shim can do to the lock is in the
  other part of `locks` and in the proofs.
- *Attempts*: with two, an attempt is once not the last and once the last.
- *Tokens*: one per process, one in the entry, one in a late script, so that a
  fresh one always exists.
- *Manifests*: one with two jobs, one that drops a job and gives the other a
  second schedule, one that the backend cannot express, wholly or in part, and
  for crontab one of another app: every pair makes every action of a plan.
- *Units and names*: two per job, so that an operation has a first and a last
  one and an update may drop one; AWS has a fifth name that is an operator's.
  One app is enough for backends without specs: what keeps apps apart is in
  Compute, and crontab has two.  On Vercel one app is all there can be, since
  List gives none.
- *Changes by hand*: one at a time; the commands in between are unbounded.
- *Crons*: four in `vercel.json`, the user's and three of cronix.
- *Time of a delivery*: a clock of 4 and a window of 3 units, two attempts of
  one unit with a pause of one: every attempt falls within the window, the
  answers may come after it.
- *Headers*: up to three segments, so that a key is there twice around another;
  made and read at the times 0, 1 and 6 with a default window of 5: apart by
  nothing, by less than the window, by the window and by more; the time and the
  window of a call given, given as 0 or left out.
- *Numbers*: `MaxInt` 32767 for 2^63 - 1, `MaxSafe` 20000 for 2^53 - 1 and
  `MaxNumber` 60000 for the largest number of JavaScript, which keep their order;
  TLC's own integers end at 2^31 - 1.  The numbers of `@every` have hours or minutes
  that fit, that wrap around to more and to less than a minute, and are themselves
  too large for Go or for both.  The theorem is about any three such numbers.
- *Schedules*: every form of `Form` with these numbers, with every white space
  before it, in a job of its own.
- *Manifest fields*: left out, null, and each bounded field at its bounds and one past them, in the
  only job or beside another of the same or another name; lists of 64, 65, 8, 9,
  256 and 257.
- *Backends of a status*: three, for two slots and for one.
- *Log*: two runs of two attempts and one other line, cut anywhere.

Fairness: `Trigger!RunFairSpec`, stated again over the union in `MCLocks`,
assumes that a shim that is neither killed nor in a call without a bound takes
its next step: every wait in the code has a time limit (the HTTP timeout of an
attempt, `waitForExit`, the length of a backoff). Nothing obliges the scheduler
to fire, anybody to crash, or a lock to be free. `RedisLock!FairSpec` assumes
that time passes; `MCRedis` states it again over its union.
`GlobalStatus!StatusFairness`, stated again over the union in `MCApp`, assumes
that Go runs every goroutine that can run; a query returns because its context
has a deadline. The commands, deliveries and logs have no fairness: what they
promise is what is left behind by one that does reach its end.

The deadlock check is off where the program ends: the delivery, the log, the
report (`app`), the fire of `retry_window`.  Everywhere else it is on.

### What the runs show

*Holds.* The flock lock has one owner, a live shim in the lock code, under any
order of kills and reuse of pids, and implements `JobMutex`; the holder file is
true while its writer runs its job and gone before its lock is, so no Release
removes the next holder's file.  Over it, fires of one job under Forbid or
Replace are alone from the first attempt to the last, exit codes say what
happened, every fire ends and every lock comes back.  Redis leases exclude each
other and orphans expire; a fire whose attempts and backoffs fit in the time to
live is alone.

An apply that succeeds leaves the owner lines of the crontab and the specs as its
manifest says, whatever failed or was killed before, and touches nothing else;
cron runs by the manifest the jobs that it has created or updated, and, if nobody
has edited the crontab, all of them.  Its plan is empty exactly when the owner
lines are right, whatever blocks a hand has removed, for manifests that cron can
express; until the first edit, exactly when cron runs the jobs as asked.  A
schedule line changed under its owner line is the exception (`manual_edits`): the
plan stays empty and the apply that succeeds leaves the changed line.  That the
specs are rewritten even when the plan is empty is what repairs a command killed
before or inside that pass.  Over systemd no timer is scheduled, now or after a
reboot, without both its files, wherever an operation stops; an apply that
succeeds has the timers its manifest asks for, and those that it created or
updated run; an edit of OnCalendar shows in the plan.  On Kubernetes an empty plan means
that the right CronJobs are there, those that still terminate included, and run
by the right schedules, if nobody has deleted a ConfigMap; and no other CronJob
outlives an apply.  On AWS a
create that stopped half-way shows in the next plan, with the same exception for
an expression changed in the console; an apply that succeeds leaves the
descriptions of its manifest, and the expressions of the jobs that it has created
or updated; and a schedule without cronix's description is never touched.  On
Vercel every rewrite keeps the user's part, and an apply that succeeds leaves
its schedules there.  An adoption only ever adds markers, whatever happens to
the crontab meanwhile, and one that nobody disturbs leaves nothing to do.  `show`
calls a job in sync exactly when apply skips it, except for blocks listed twice.

Retries within the replay window are never refused for their signature, through
a rotation and through restarts of the application.  A handler that was ok runs
again in a fire only when its answer was lost.  The two verifiers agree on all
headers but those `ReadsAlike` excludes, where TypeScript is the stricter, as long
as neither time nor window is given as 0.  The two languages accept the same of the
manifests that are spelt alike, and to every manifest that both accept they give
the same normal form if both trim what is around its schedules; one that was
normalized by the SDK comes out of Go as it was, if Go takes it.  `global-status`
always ends with a complete report, `--parallel 0` included.  History tells one
true entry per run from any window of the log.

*Does not hold*, each a finding in PROJECT.json:

1. `ShimWithinLease` - with retries, the Redis lock expires under the shim.
2. `NoDuplicateBlocks` - two applies plan from the same crontab and both append;
   the duplicates stay, since List keeps the last of equal markers and the
   plan is then empty.
3. `RerunSchedules` - the systemd backend writes the hash before it enables the
   timer and before it writes the service; the apply after one that failed in
   between skips the job and succeeds.
4. `ForeignKept` - Delete's glob takes timers that cronix never wrote.
5. `UpdateReplaces` - a Kubernetes update creates over resources that are still
   being deleted, succeeds, and leaves nothing.
6. `AuthenticNeverRefused` - attempts are signed with the time of the fire, so
   those later than the replay window are refused and end the fire.
7. `ServedIsAccepted` - the SDK serves `secret_refs: []` and `min_seconds` above the
   default `max_seconds`, which Go rejects; so it does what `SpeltAlike` excludes,
   as `@EVERY 5m`.
8. `EditsAreDetected` - a schedule edited by hand under its marker, in a crontab or
   in EventBridge, is in no plan: drift reports nothing and apply does not undo it,
   where concepts/drift.md:86-98 and its example (:122-141), and RFC.md:797-805 for
   the crontab, say that both do.  The trace is a create and an edit of the
   schedule line in place.  On systemd and Kubernetes such an edit shows
   (`HostPlansAreExact`, `PlanTellsCron`).

*Seen while modelling*, without a run of its own:

- A Replace contender signals a pid that it has read earlier: the holder may be
  gone and the pid another program's (flock.go:143).  One that finds no holder
  file, because the holder has not written it yet, is turned away without a
  signal (flock.go:126).
- The shim keeps its lock through the backoffs, where concepts/retries.md:119
  says that it is released and taken again.
- `concurrency_scope: global` selects nothing (cli/commands/trigger.go:62); the
  runbook gives a lock failure exit code 9, the code 4.
- Kubernetes: after a create met an old ConfigMap the pair disagrees until the
  next apply; a ConfigMap whose CronJob is gone is never deleted.
- Vercel: a plan never finds the jobs of its manifest, so apply is not
  idempotent, which docs vercel.md:46 says it is, and `prune --app` deletes
  nothing.  A kill between the truncation and the write loses the user's part.
- adopt: a hand-written copy of a job that is managed already is marked with the
  same indices (adopt.go:102), and `show` then says drifted where apply skips.
  Line numbers of an earlier read may put a marker under another line
  (adopt.go:185), which a later Delete takes away with it.

## What is proved

| Theorem | Says |
|---|---|
| `TriggerProofs!TypeCorrect` | `Flock`: `Spec => []TypeOK` |
| `TriggerProofs!OwnerCorrect` | `Spec => []OwnerIsInside` |
| `TriggerProofs!HolderFileCorrect` | `Spec => []HolderFileIsTrue` |
| `TriggerProofs!FlockImplementsJobMutex` | `Spec => ImplementsJobMutex` |
| `TriggerProofs!RunIsFlock` | `RunSpec => Spec`: shims use the lock as Flock allows |
| `TriggerProofs!RunTypeCorrect` | `RunSpec => []RunTypeOK`, of which `ShimsTypeOK` is the instance in `locks` |
| `TriggerProofs!ExitCodeCorrect` | `RunSpec => []ExitCodeTells` |
| `TriggerProofs!FiresAreExclusive` | `RunSpec => FiresExclude` |
| `RedisProofs!RedisTypeCorrect` | `RedisLock`: `Spec => []TypeOK` |
| `RedisProofs!LeaseCorrect`, `LeasesAreExclusive` | `Spec => []LeaseIsEntry`, `Spec => LeasesExclude` |
| `RedisProofs!FireTypeCorrect` | `FireSpec => []FireTypeOK` |
| `RedisProofs!FittingFireIsWithinLease`, `FittingFireIsAlone` | if all attempts and backoffs fit in the time to live, `ShimWithinLease` and `OneFire` |
| `RedisProofs!SingleAttemptIsAlone` | a job without retries always fits |
| `AppProofs!DeliveryTypeCorrect` | `DeliverySpec => []DeliveryTypeOK` |
| `AppProofs!RepeatedCorrect` | `DeliverySpec => []RepeatedOnlyIfLost` |
| `AppProofs!FittingAttemptsAreAuthentic` | if all attempts and backoffs fit in the replay window, `DeliverySpec => []AuthenticNeverRefused` |
| `AppProofs!VerifiersAlwaysAgree` | `VerifiersAgree` for headers of any length, any secrets, clock, default window and options: the same verdict if the header is in the common form and neither time nor window is given as 0; what TypeScript accepts Go accepts likewise, if the time is not given as 0 |
| `AppProofs!NormalFormsAlwaysAgree` | `NormalizeSpec => []NormalFormsAgree` for manifests of any length, any schedules and any largest numbers: the same accepted of what is spelt alike, the same normal form of what both accept and trim |
| `AppProofs!StatusTypeCorrect`, `ReportIsComplete` | `StatusSpec => []StatusTypeOK`, `StatusSpec => []ReportComplete` |
| `PlanProofs!ShowAlwaysAgrees` | `ShowAgrees` for whatever a backend lists |
| `AwsProofs!AwsTypeCorrect` | `AwsApply`: `Spec => []TypeOK` |
| `AwsProofs!AwsPlanIsExact` | `Spec => []PlanIsExact`, with any number of commands at once: descriptions always, expressions until the first edit by hand |
| `AwsProofs!ForeignIsKept` | `Spec => ForeignKept`, with any number of commands at once |
| `AwsProofs!ApplyConverges` | `Spec => [][SchedulesConverge]_vars`, with one command at a time |
| `KubernetesProofs!KubernetesTypeCorrect` | `KubernetesApply`: `Spec => []TypeOK` |
| `KubernetesProofs!KubernetesPlanTells` | `Spec => []PlanTellsCron`, if no two schedules share a name |
| `KubernetesProofs!OnlyWantedFireAfterApply` | `Spec => [][OnlyWantedFire]_vars`, with one command at a time, if no two schedules share a name |
| `SystemdProofs!SystemdTypeCorrect` | `SystemdApply`: `Spec => []TypeOK` |
| `SystemdProofs!SystemdPlanIsExact` | `Spec => []PlanIsExact`, with any number of commands at once |
| `SystemdProofs!SystemdScheduledIsInstalled` | `Spec => []ScheduledIsInstalled`, with one command at a time, if no two schedules share a unit |
| `SystemdProofs!UnitsConvergeAfterApply` | `Spec => [][UnitsConverge]_vars`, with one command at a time, if no two schedules share a unit and no job's glob finds the units of another job of its app |

*Flock.* `TypeOK /\ OwnerIsInside` is inductive.  `TypeOK` says that only a shim
has a policy and only a Replace contender about to signal has a target, which
is what makes Signal's four cases complete.  `OwnerIsInside` ties the kernel's
owner to the program counter; exclusion follows, since two processes inside
would both be the owner.  `HolderFileIsTrue` needs `OwnerIsInside`: only the
owner writes or removes the file.  The refinement maps `inside` to the
processes between the return of Acquire and Unlock; each action enters, leaves
or stutters.

*Trigger.* `RunIsFlock` shows that every step of a shim is a step of the lock
code or leaves it alone, so the theorems of Flock hold of the composition.
`RunTypeOK` contains `PhaseAgrees`, the relation between phase, program
counter, attempts and exit code, and is inductive with it.  A shim that starts
firing has a Handle, so it is the owner; one that was firing already would be
the owner too.

*Redis.* `RedisInv` is `TypeOK`, `LeaseIsEntry` and `LateIsHarmless`: a release
that is still to run carries a token that is in no Handle any more, because
Release forgets the Handle first.  The fences of the scripts keep `LeaseIsEntry`;
exclusion follows, since the entry has one token.

*RedisFire.* `E[a]` is the longest a fire may have lasted when its attempt `a`
goes out (`IsElapsed`); `WithinBudget` bounds the age of a shim's lease by its
attempt, its phase and its timer, and is inductive with `RedisInv` and
`FireTypeOK`.  `Fits(E)` says that the last attempt ends before the time to live
does, hence within it every phase.

*Delivery.* `DeliveryInv` gives every variable its shape and says that a request
exists exactly if its attempt has been sent, so that an attempt that goes out
meets none of its number.  `HeardInv` follows what the handler returned to the
answer, and the answer to the shim: `RepeatedOnlyIfLost` is not inductive
without what a request says before its answer goes out.  `SignedInv` bounds the
age of a signature by attempt, phase and timer as `WithinBudget` does for the
lease, and follows the rotation: the spec never names a secret first that the
application does not accept (`Rotated`), and `DropSecret` waits for the shims
that signed with the old one.  `Fits(E)` says that the last attempt ends with
the window at the latest; `retry_window` shows that without it the theorem is
false, and in `app` it holds of the instance.

*Signing and Normalize.*  These are not about steps but about every input.  What
TypeScript parses Go parses; the other way round it takes `ReadsAlike`, since a
signature that is not hex and passes Go would be the last one, hence the only
one.  A time or a window given as 0 is excluded where Go takes it for none: with
the window at 0 TypeScript accepts only the very second, which Go accepts by its
default, so one direction stays.  The manifests that are spelt alike are accepted
alike validator by validator: for `@every` with a number whose seconds fit in an
int, `Wrapped` is the identity.  The normal forms agree job by job (`JobsAgree`, `DefaultsAgree`); that the
Go side changes nothing in what the SDK serves needs that defaults change nothing
in a job that has them, and that a second sort by name changes nothing: the names
of an accepted manifest are distinct, and `InOrderLists` says that an ordered
listing has every element once.

*GlobalStatus.* `StatusInv` says which goroutines the loop has started, that
`slots` has exactly those at work, and that `results` has the row of each
goroutine that is past its append, once, with the answer of its own query.  When
all are done, the rows are as many as the chosen backends, and the sort puts them
in the order of the config.

*Reconcile.*  `SameHashes` says what equality of the two lists of hashes means
index by index, the last entry of an index standing for it; `NoopIs` says that,
over a backend that lists each schedule once, the plan is empty exactly when what
is listed is what the manifest asks for.  `ShowAlwaysAgrees` compares counting
entries, which is what `show` does, with comparing lists.  The two theorems about
plans of backends rest on `NoopIs`.

*AwsApply.* `AwsInv` is inductive: a described schedule has the name its
description says (`SchedulesOK`); a command that is past its plan is an apply of a
manifest and has only its jobs left (`CommandInv`); and every call that is still
to be made is a `SafeCall`, whose create says its own name and whose delete goes
to a name that is not an operator's.  The last part is what `ForeignIsKept` is
about: a delete is planned from a listing that other commands have changed since,
and stays safe because nobody turns a described schedule into an undescribed one
while commands run.  That plans are exact in the expressions, too, as long as
`edits = 0`, takes a second invariant: every schedule of cronix, and every one that
a call is still to create, has the expression of what its hash is of (`IsGenuine`),
so that the descriptions tell the schedules (`MarksTell`).  `ApplyConverges` is about one command, since two applies of
the same app undo each other's work.  `ConvergeInv` follows the command through
its passes: the plan splits the manifest (`PlanOK`), what is left of an operation
is its deletes and then its creates (`CallsOK`), and each job is deleted, built
(`Settled`) or skipped because it was right (`Holds`) in its turn (`Progress`).
At the end, no job is left to do, and the listing is what is wanted.

*KubernetesApply.* `KubernetesInv` has the same shape: every resource has the name
that its labels say, a ConfigMap exists only for a schedule that Kubernetes can
express, and so does every create that is still to come.  The second part makes
`computeListHash` fall back on the label only where there is no ConfigMap at all
(`ListHashIs`), which is why the plan cannot be fooled by a label that survives an
edit or by a pair of which one half is old.  It holds under garbage collection,
edits, deletes of one half, and any number of commands.  Without distinct names
(`DistinctNames`; policy.go:38 joins app and job with a hyphen that both may
contain) it is false: a ConfigMap of another job would be read.
`OnlyWantedFire` is about one command, and says what it can although a create that
meets an old object counts as done.  `SoloInv` says of the command, at every point
of its passes, that what is left of the operation builds only what the manifest
asks for; that a CronJob of the app is right, or goes already, or belongs to a job
whose turn to be deleted comes (`Doomed`), or is queued for deletion; that a
ConfigMap is created beside no CronJob but one that is right or goes; and that the
jobs still to be created have none.  The operations that come from the plan need
that the plan tells (`PlanTellsCron`), so the proof of that comes first.

*SystemdApply.* `SystemdInv` says that a file of cronix is in the unit that its
annotations name, and that every write still to come is (`SafeCall`); with `NoopIs`
and an inverse of the names (`OwnedIs`, `WantedIs`) that makes plans exact, for
any commands at once.  `ScheduledIsInstalled` takes more, and is not inductive by
itself: `SoloInv` says of what is left of the operation of a command that it
removes before it writes and writes before it starts (`Phased`), that a timer that
is about to be taken away or written over does not run, or is disabled before, and
that one that is about to be started has its service by then (`CallsOK`); and that
the jobs it has still to create have no timer (`PendingOK`), which is why Create,
unlike Update, need not disable anything.  It fails as soon as a second command
works on the same host: TLC has one command enable a timer between the `disable`
of another and its removal of the file.  Hence the hypothesis, which nothing in the code enforces:
the systemd backend has no lock.  Without distinct unit names it fails as well, since
Create would write over a timer that runs.
`UnitsConverge` says what the apply is for, and takes one more invariant on top of
`SoloInv`.  `ConvergeInv` says of every unit what it still waits for while an apply
goes through its passes: a timer of the app is wanted, or of a job whose turn to be
removed comes (`Doomed`), or is to be removed by the operation at work (`Accounted`);
a wanted timer of a job whose turn is past (`Left`) is there as it should be, or
the operation will write it, and one of a job to create or update runs as it
should be, or the operation will start it (`InHand`).  Whatever an operation takes
away or writes it writes and starts again, if it is wanted; a refused operation
promises everything, for it ends the command.  When the plan is made,
`SkippedTimers` says that the timers of a skipped job are those of the manifest,
which is why it makes no difference what earlier commands left.  That they run it
does not say, and `systemd_rerun` shows that they need not.
The theorem needs `OwnGlobs`: Delete looks for `cronix-<app>-<job>-*`
(backend.go:160), which finds the units of another job when its name extends this
one's by a hyphen, so that an update of `sync` takes away what the plan skipped
of `sync-full`.

Assumptions are those of the modules: FlockAssumption, TriggerAssumption,
RedisAssumption, RedisFireAssumption, PauseAssumption, DeliveryAssumption,
StatusAssumption, NormalizeAssumption, ReconcileAssumption, CommandAssumption,
CallsAssumption and AwsAssumption, each evaluated by a run, and
KubernetesAssumption and SystemdAssumption, which `MCCommands` evaluates of its
instances and the theorems have as a hypothesis.  The second says that the glob of
a job finds the units of its own schedules, which is how their names are made
(policy.go:38, backend.go:160).  The fitting theorems, `ApplyConverges`,
`KubernetesPlanTells`, `OnlyWantedFireAfterApply`, `SystemdScheduledIsInstalled`
and `UnitsConvergeAfterApply` assume in addition what the table says.  The hash of
a schedule has no collisions (`Hash` is its version and index).

Only model-checked:

- liveness (`ContentionEnds`, `FireEnds`, `LockComesBack`, `OrphansExpire`,
  `StatusEnds`), which is out of the prover's reach;
- what crontab, adopt and Vercel do (`CrontabConverges`, `HostPlansAreExact` of
  crontab, `UnownedKept`, `OnlyMarksAdded`, `AdoptedIsInstalled`,
  `AppliedIsScheduled`) and what history reads (`HistoryIsTrue`): their conversions
  are folds over lists (`Strip`, `Mark`, `FoldShimLogs`), and what a fold returns for
  every list needs an induction that the prover cannot instantiate;
- the unions themselves: a theorem is about a module, `AllTypeOK`,
  `ScheduledIsInstalled`, `HostPlansAreExact`, `ShowAgreesWithPlan` and
  `PlanTellsCron` of `MCCommands` say the same of each of their parts.

## What is left

Worth proving next, without an induction over data: that what is foreign in
crontab and the user's on Vercel is kept, of which only the part of AWS is proved
(`ForeignIsKept`).

Modelled in part: the manifest (headers, the canonical JSON and what
*Signing and Normalize* above lists are left out), the trigger specs (only what commands write and when a
shim reads it), the read-only commands (`list` and `validate` read and print),
and of the shim the return on a cancelled context, which only the Lambda entry
point can cause.  Two jobs whose names join to one unit name (policy.go:38) and
hand edits of half a crontab block are hazards without a property: the loss is
certain and a model would restate the line.

Not modelled: the adapters, the Lambda entry point, telemetry, printing, flags,
scaffolding and packaging, which keep no state; HMAC, JSON, cron syntax and HTTP,
which are libraries or pure conversions.
