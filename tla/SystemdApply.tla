---------------------------- MODULE SystemdApply ----------------------------
(***************************************************************************)
(* The systemd-timer backend (go/internal/backends/systemd) under apply    *)
(* and prune.  An operation is a sequence of calls to the file system and  *)
(* to systemctl, with no lock around it; it may stop between any two.      *)
(***************************************************************************)
EXTENDS BackendCalls

CONSTANTS
  Unit,          \* names of units, numbered in the order of the glob
  ScheduleName,  \* the unit of each <<job, schedule index>>
  Matches,       \* the units that the glob of Delete matches, for each job
  Calendar,      \* the schedules that OnCalendar can express
  Foreign,       \* a timer without the annotations of cronix
  Edited         \* policy.DriftSpecEdited

\* What the annotations of a unit say, and of a timer whether its OnCalendar is
\* still the annotated one.
File ==
  [job : Job, hash : Version \X Nat, index : Nat, edited : BOOLEAN]

SystemdAssumption ==
  /\ Unit \subseteq Nat /\ IsFiniteSet(Unit) /\ Range(ScheduleName) \subseteq Unit
  /\ \A j \in Job, v \in Version : \A n \in DOMAIN Schedules[v] :
       /\ <<j, n - 1>> \in DOMAIN ScheduleName
       /\ ScheduleName[<<j, n - 1>>] \in Matches[j]
  /\ \A j \in Job : Matches[j] \subseteq Unit
  /\ {None, Torn, Foreign} \cap File = {} /\ None \notin {Torn, Foreign}
  /\ Edited \notin Version \X Nat

VARIABLES
  files,    \* the timer and the service file of each unit
  enabled,  \* the timers linked to timers.target
  running   \* what systemd runs for each timer: its file as last loaded

unitVars == <<files, enabled, running>>
vars == <<unitVars, callVars>>

IsOwned(file) == file \notin {None, Torn, Foreign}

\* What the timer and the service say: the annotations, and for the timer
\* whether OnCalendar is no longer the annotated one.
Render(j, v, idx) ==
  [job |-> j, hash |-> Hash(v, idx), index |-> idx, edited |-> FALSE]

Entry(f) ==
  [job |-> f.job, hash |-> IF f.edited THEN Edited ELSE f.hash,
   index |-> f.index]

\* List: the owned timers, in the order of the glob.
List(timers) ==
  LET owned == InOrder({u \in Unit : IsOwned(timers[u])})
  IN  [n \in DOMAIN owned |-> Entry(timers[owned[n]])]

(* The calls of an operation, each the first of those on one unit.         *)

\* disable --now of the timer, then the removal of both files.
RemoveUnit(u) == [do |-> "disable", unit |-> u]

\* os.WriteFile of the timer, then of the service.
WriteUnit(u, content) ==
  [do |-> "truncateTimer", unit |-> u, content |-> content]

\* enable --now of the timer.
EnableUnit(u) == [do |-> "enable", unit |-> u]

Reload == [do |-> "reload"]

DeleteCalls(j) ==
  LET found == InOrder({u \in Matches[j] : files["timer"][u] # None})
  IN  [n \in DOMAIN found |-> RemoveUnit(found[n])]
        \o IF found = <<>> THEN <<>> ELSE <<Reload>>

\* The files of all schedules, up to one that OnCalendar cannot express; then
\* a reload; then enable --now of each timer.
CreateCalls(j, v) ==
  LET unit(n) == ScheduleName[<<j, n - 1>>]
  IN  [n \in DOMAIN Schedules[v] |->
         IF Schedules[v][n] \notin Calendar THEN Refusal
         ELSE WriteUnit(unit(n), Render(j, v, n - 1))]
        \o <<Reload>>
        \o [n \in DOMAIN Schedules[v] |-> EnableUnit(unit(n))]

\* The new units written over the old ones.
UpdateInPlace(j, v) == CreateCalls(j, v)

UpdateCalls(j, v) == DeleteCalls(j) \o CreateCalls(j, v)

-----------------------------------------------------------------------------
\* Foreign timers have names that are nobody's schedule names.
Init ==
  /\ \E fs \in SUBSET (Unit \ Range(ScheduleName)) :
       files =
         [timer   |-> [u \in Unit |-> IF u \in fs THEN Foreign ELSE None],
          service |-> [u \in Unit |-> None]]
  /\ enabled = {}
  /\ running = [u \in Unit |-> None]
  /\ CallsInit

OneJob(c) ==
  Operation(c, DeleteCalls, UpdateCalls, CreateCalls) /\ UNCHANGED unitVars

(* systemd and the file system.                                            *)

\* What is next on the unit of the call.
Then(call, do) == <<[call EXCEPT !.do = do]>>

\* Without --now: the timer stays active, its files go.
DisableOnly(c, call) ==
  /\ call.do = "disable" /\ NextCall(c, Then(call, "removeTimer"))
  /\ enabled' = enabled \ {call.unit}
  /\ UNCHANGED <<files, running>>

Disable(c, call) ==
  /\ call.do = "disable" /\ NextCall(c, Then(call, "stop"))
  /\ enabled' = enabled \ {call.unit}
  /\ UNCHANGED <<files, running>>

Stop(c, call) ==
  /\ call.do = "stop" /\ NextCall(c, Then(call, "removeTimer"))
  /\ running' = [running EXCEPT ![call.unit] = None]
  /\ UNCHANGED <<files, enabled>>

Enable(c, call) ==
  /\ call.do = "enable" /\ NextCall(c, Then(call, "start"))
  /\ IsOwned(files["timer"][call.unit])
  /\ enabled' = enabled \cup {call.unit}
  /\ UNCHANGED <<files, running>>

Start(c, call) ==
  /\ call.do = "start" /\ NextCall(c, <<>>)
  /\ IsOwned(files["timer"][call.unit])
  /\ running' = [running EXCEPT ![call.unit] = files["timer"][call.unit]]
  /\ UNCHANGED <<files, enabled>>

\* Running timers take up what their files say.
DaemonReload(c, call) ==
  /\ call.do = "reload" /\ NextCall(c, <<>>)
  /\ running' = [u \in Unit |->
       IF running[u] # None /\ IsOwned(files["timer"][u])
         THEN files["timer"][u] ELSE running[u]]
  /\ UNCHANGED <<files, enabled>>

Put(file, call, content) ==
  /\ files' = [files EXCEPT ![file][call.unit] = content]
  /\ UNCHANGED <<enabled, running>>

RemoveFile(c, call) ==
  \/ /\ call.do = "removeTimer" /\ NextCall(c, Then(call, "removeService"))
     /\ Put("timer", call, None)
  \/ /\ call.do = "removeService" /\ NextCall(c, <<>>)
     /\ Put("service", call, None)

\* os.WriteFile truncates a file before it writes it.
WriteFile(c, call) ==
  \/ /\ call.do = "truncateTimer" /\ NextCall(c, Then(call, "writeTimer"))
     /\ Put("timer", call, Torn)
  \/ /\ call.do = "writeTimer" /\ NextCall(c, Then(call, "truncateService"))
     /\ Put("timer", call, call.content)
  \/ /\ call.do = "truncateService" /\ NextCall(c, Then(call, "writeService"))
     /\ Put("service", call, Torn)
  \/ /\ call.do = "writeService" /\ NextCall(c, <<>>)
     /\ Put("service", call, call.content)

\* The next call succeeds; "refuse" never does.
RunCall(c) ==
  /\ calls[c] # <<>>
  /\ LET call == Head(calls[c])
     IN  \/ Disable(c, call) \/ Stop(c, call) \/ Enable(c, call) \/ Start(c, call)
         \/ DaemonReload(c, call) \/ RemoveFile(c, call) \/ WriteFile(c, call)

Other(c) == Between(c, List(files["timer"])) /\ UNCHANGED unitVars

Stops(c) == Abort(c) /\ UNCHANGED unitVars

\* With no command at work.
Reboot ==
  /\ \A c \in Command : pc[c] \in Stopped
  /\ running' = [u \in Unit |->
       IF u \in enabled /\ IsOwned(files["timer"][u])
         THEN files["timer"][u] ELSE None]
  /\ UNCHANGED <<files, enabled, callVars>>

\* An operator changes OnCalendar in a timer file.
EditByHand ==
  /\ ByHand
  /\ \E u \in Unit :
       /\ IsOwned(files["timer"][u])
       /\ files' = [files EXCEPT !["timer"][u].edited = TRUE]
  /\ UNCHANGED <<enabled, running>>

Next ==
  \/ \E c \in Command : OneJob(c) \/ RunCall(c) \/ Other(c) \/ Stops(c)
  \/ Reboot
  \/ EditByHand

Spec == Init /\ [][Next]_vars

-----------------------------------------------------------------------------
\* A unit has the name that its annotations say.
TypeOK ==
  /\ \A kind \in {"timer", "service"}, u \in Unit :
       LET f == files[kind][u]
       IN  IsOwned(f) => ScheduleName[<<f.job, f.index>>] = u
  /\ enabled \subseteq Unit
  /\ CallsTypeOK

\* A timer that systemd runs, or will run after a reboot, has both its files,
\* wherever an operation has stopped: Delete disables before it removes, and
\* Create enables after it has written.
ScheduledIsInstalled ==
  \A u \in Unit :
    u \in enabled \/ running[u] # None =>
      IsOwned(files["timer"][u]) /\ IsOwned(files["service"][u])

\* The units of the job j in version v, with their contents.
Units(j, v) ==
  {<<ScheduleName[<<j, n - 1>>], Render(j, v, n - 1)>> :
     n \in DOMAIN Schedules[v]}

Wanted(m) == UNION {Units(j, m.jobs[j]) : j \in DOMAIN m.jobs}

\* The timers of an app.
Owned(x) ==
  {<<u, files["timer"][u]>> :
     u \in {w \in Unit : LET f == files["timer"][w]
                         IN  IsOwned(f) /\ AppOf[f.job] = x}}

\* systemd runs the units us, now and after a reboot, and can start their jobs.
Scheduled(us) ==
  \A unit \in us :
    LET u == unit[1]
    IN  u \in enabled /\ running[u] = unit[2] /\ IsOwned(files["service"][u])

\* An apply that succeeds leaves the timers of its app as its manifest says,
\* hand edits undone, whatever earlier commands have failed at, and those of
\* the jobs it has created or updated enabled and running; and the specs.
UnitsConverge ==
  \A c \in Command :
    Succeeds(c) =>
      LET m == want[c]
      IN  /\ Owned(m.app) = Wanted(m)
          /\ \A j \in plan[c].creates \cup plan[c].updates :
               Scheduled(Units(j, m.jobs[j]))
          /\ SpecsOf(m)

\* The plan for a manifest is empty exactly when the timers are the ones it
\* asks for, OnCalendar included: List reports a timer edited by hand as
\* changed (backend.go:74-79).
PlanIsExact ==
  \A m \in Manifest :
    IsNoop(Compute(m, List(files["timer"]))) <=> Owned(m.app) = Wanted(m)

\* "Re-running after a partial failure converges to the desired state" (docs
\* operations/runbook.md:109): after an apply that succeeds, systemd runs the
\* jobs of the manifest.
RerunSchedules ==
  [][\A c \in Command : Succeeds(c) => Scheduled(Wanted(want[c]))]_vars

\* Delete "MUST refuse to delete entries not owned by cronix"
\* (backends/backend.go:44-46): a timer without the annotations stays.
ForeignKept ==
  [][\A u \in Unit :
       files["timer"][u] = Foreign => files'["timer"][u] = Foreign]_vars
=============================================================================
