----------------------------- MODULE MCCommands -----------------------------
(***************************************************************************)
(* `cronix --backend b apply`, prune and adopt: one backend per behaviour, *)
(* each with a small instance of its module.  The crontab has three jobs   *)
(* of two apps and keeps the trigger specs; the others have two jobs of    *)
(* one app, which is what their own code sees of a manifest.               *)
(***************************************************************************)
EXTENDS AwsApply

CONSTANTS Cron, Foreign, Edited

VARIABLES
  backend,                   \* the --backend of this behaviour
  lines,                     \* CrontabApply
  adopter,                   \* CrontabAdopt
  files, enabled, running,   \* SystemdApply
  cronjobs, configmaps,      \* KubernetesApply
  file                       \* VercelApply

\* Schedules 1 and 2 every backend can express, 3 none.
Expressed == {1, 2}
MCVersion == {"v1", "v2", "v3"}
MCSchedules == [v1 |-> <<1>>, v2 |-> <<2, 1>>, v3 |-> <<1, 3>>]
MCTranslate == <<"c1", "c2", None>>
HostSchedules == [MCSchedules EXCEPT !.v3 = <<3, 1>>]
FewSchedules == [MCSchedules EXCEPT !.v3 = <<3>>]

Asks(x, js, v) == [app |-> x, jobs |-> [j \in js |-> v]]

\* App x adds, changes, renames and removes a job; app y has one.
HostJob == 1..3
HostAppOf == <<"x", "x", "y">>
HostManifest ==
  {Asks("x", {1, 2}, "v1"), Asks("x", {1}, "v2"), Asks("x", {2}, "v3"),
   Asks("y", {3}, "v1")}

MCJob == 1..2
MCAppOf == <<"x", "x">>
MCManifest == {m \in HostManifest : m.app = "x"}
AdoptManifest == {Asks("x", {1}, "v2"), Asks("x", {2}, "v1")}

\* Names 1 and 2 for job 1, 3 and 4 for job 2; 5 is somebody else's.
MCName == 1..5
MCScheduleName == [name \in MCJob \X {0, 1} |-> 2 * name[1] - 1 + name[2]]
MCMatches == [j \in MCJob |-> {2 * j - 1, 2 * j}]

\* Vercel lists the jobs 1 and 2 as the jobs 3 and 4 of no app.
VercelJob == 1..4
VercelAppOf == <<"x", "x", "", "">>
VercelPathOf == <<11, 12, 11, 12>>

C == INSTANCE CrontabApply WITH
       Job <- HostJob, AppOf <- HostAppOf, Schedules <- HostSchedules,
       Manifest <- HostManifest, KeepsSpecs <- TRUE

\* The lines of a job in another order than its schedules, lines of two jobs.
AdoptLines ==
  {<<C!ScheduleLine(1, 1), C!ForeignLine, C!ScheduleLine(1, 2)>>,
   <<C!ScheduleLine(1, 1), C!ScheduleLine(2, 1)>>}

A == INSTANCE CrontabAdopt WITH
       Manifest <- AdoptManifest, HandWritten <- AdoptLines

S == INSTANCE SystemdApply WITH
       Unit <- 1..4, Matches <- MCMatches, Calendar <- Expressed

K == INSTANCE KubernetesApply WITH
       Schedules <- FewSchedules, Name <- 1..4

V == INSTANCE VercelApply WITH
       Job <- VercelJob, AppOf <- VercelAppOf,
       Path <- 11..12, UserCron <- [path |-> 10, schedule |-> 1],
       PathOf <- VercelPathOf, Unnamed <- (11 :> 3 @@ 12 :> 4),
       Valid <- Expressed, UserKeys <- {"rewrites"}, MaxCrons <- 4

ASSUME BackendAssumptions ==
  /\ C!ReconcileAssumption /\ C!CommandAssumption /\ C!EditsAssumption
  /\ S!SystemdAssumption /\ K!KubernetesAssumption
  /\ V!VercelAssumption

-----------------------------------------------------------------------------
CrontabVars == <<lines, adopter>>
SystemdVars == <<files, enabled, running>>
KubernetesVars == <<cronjobs, configmaps>>
OtherVars == <<CrontabVars, SystemdVars, KubernetesVars, file>>
allVars == <<backend, vars, OtherVars>>

NoCrontab == lines = <<>> /\ adopter = [at |-> "rest"]
NoUnits == files = <<>> /\ enabled = {} /\ running = <<>>
NoResources == cronjobs = <<>> /\ configmaps = <<>>
NoSchedules == schedules = [n \in Name |-> None]
NoFile == file = None
NoCalls == calls = [c \in Command |-> <<>>]

AllInit ==
  \/ /\ backend = "aws" /\ Init
     /\ NoCrontab /\ NoUnits /\ NoResources /\ NoFile
  \/ /\ backend = "crontab" /\ C!Init /\ NoCalls /\ adopter = [at |-> "rest"]
     /\ NoUnits /\ NoResources /\ NoSchedules /\ NoFile
  \/ /\ backend = "adopt" /\ A!AdoptInit /\ NoCalls
     /\ NoUnits /\ NoResources /\ NoSchedules /\ NoFile
  \/ /\ backend = "systemd" /\ S!Init
     /\ NoCrontab /\ NoResources /\ NoSchedules /\ NoFile
  \/ /\ backend = "kubernetes" /\ K!Init
     /\ NoCrontab /\ NoUnits /\ NoSchedules /\ NoFile
  \/ /\ backend = "vercel" /\ V!Init
     /\ NoCrontab /\ NoUnits /\ NoResources /\ NoSchedules

Uses(b) == backend = b /\ UNCHANGED backend

UseAws == Uses("aws") /\ Next /\ UNCHANGED OtherVars

UseCrontab ==
  /\ Uses("crontab") /\ C!Next
  /\ UNCHANGED <<adopter, SystemdVars, KubernetesVars, calls, schedules, file>>

UseAdopt ==
  /\ Uses("adopt") /\ A!AdoptNext
  /\ UNCHANGED <<SystemdVars, KubernetesVars, calls, schedules, file>>

UseSystemd ==
  /\ Uses("systemd") /\ S!Next
  /\ UNCHANGED <<CrontabVars, KubernetesVars, schedules, file>>

UseKubernetes ==
  /\ Uses("kubernetes") /\ K!Next
  /\ UNCHANGED <<CrontabVars, SystemdVars, schedules, file>>

UseVercel ==
  /\ Uses("vercel") /\ V!Next
  /\ UNCHANGED <<CrontabVars, SystemdVars, KubernetesVars, schedules>>

AllNext ==
  UseAws \/ UseCrontab \/ UseAdopt \/ UseSystemd \/ UseKubernetes \/ UseVercel

AllSpec == AllInit /\ [][AllNext]_allVars

-----------------------------------------------------------------------------
\* The type invariant of each backend's module.
AllTypeOK ==
  /\ backend = "crontab" => C!TypeOK
  /\ backend = "adopt" => A!AdoptTypeOK
  /\ backend = "systemd" => S!TypeOK
  /\ backend = "kubernetes" => K!TypeOK
  /\ backend = "aws" => TypeOK
  /\ backend = "vercel" => V!TypeOK

\* On systemd the plan is empty exactly when the timers are what the manifest
\* asks for.  In a crontab it is when the owner lines are; the schedule lines
\* before them count as long as nobody has edited the crontab by hand, and one
\* changed in place is not seen afterwards.
HostPlansAreExact ==
  /\ backend = "crontab" => C!PlanIsExact
  /\ backend = "systemd" => S!PlanIsExact

\* An empty plan means that cron, or EventBridge, runs the jobs as asked: edits
\* by hand are "always detected" (concepts/drift.md:86).
EditsAreDetected ==
  /\ backend = "crontab" => C!ManualEditsDetected
  /\ backend = "aws" => ManualEditsDetected

\* `show` and apply say the same of a job, at any moment of a command or an
\* adoption.
ShowAgreesWithPlan ==
  /\ backend = "crontab" => \A m \in HostManifest : C!ShowAgrees(m, C!List(lines))
  /\ backend = "adopt" =>
       \A m \in AdoptManifest : A!ShowAgrees(m, A!List(lines))
  /\ \A m \in Manifest :
       /\ backend = "systemd" => S!ShowAgrees(m, S!List(files["timer"]))
       /\ backend = "kubernetes" => K!ShowAgrees(m, K!List)
       /\ backend = "aws" => ShowAgrees(m, List)

\* An apply that succeeds leaves the owner lines and the specs as its manifest
\* says, whatever earlier commands have failed at, and cron runs by it the jobs
\* that it has created or updated; those it skips keep a schedule line that
\* somebody has changed by hand.
CrontabConverges == [][backend = "crontab" => C!Converges]_allVars

\* No command touches a line, or an app's entry, that is not its business, nor
\* what the user has in vercel.json.
UnownedKept ==
  [][/\ backend = "crontab" => C!UnownedKept
     /\ backend = "vercel" => V!UserKept]_allVars

\* Adoption adds markers and changes no line, whatever has happened meanwhile.
OnlyMarksAdded == [][backend = "adopt" => A!OnlyMarksAdded]_allVars

\* An undisturbed adoption leaves nothing to do for its job.
AdoptedIsInstalled == [][backend = "adopt" => A!AdoptedIsInstalled]_allVars

\* What systemd fires has its files, wherever an operation has stopped.
ScheduledIsInstalled == backend = "systemd" => S!ScheduledIsInstalled

\* An apply that succeeds leaves the timers of its manifest.
UnitsConverge == [][backend = "systemd" => S!UnitsConverge]_allVars

\* An empty plan means that the CronJobs run by the manifest.
PlanTellsCron == backend = "kubernetes" => K!PlanTellsCron

\* After an apply that succeeds only the manifest's CronJobs stay.
OnlyWantedFire == [][backend = "kubernetes" => K!OnlyWantedFire]_allVars

\* An apply that succeeds leaves the EventBridge schedules of its manifest.
AwsConverges == [][backend = "aws" => SchedulesConverge]_allVars

\* An apply that succeeds leaves every schedule of its manifest in vercel.json.
AppliedIsScheduled == [][backend = "vercel" => V!AppliedIsScheduled]_allVars
=============================================================================
