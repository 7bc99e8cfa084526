------------------------------ MODULE Trigger ------------------------------
(***************************************************************************)
(* `cronix trigger <app>.<job>` (trigger.Run, go/internal/trigger/shim.go, *)
(* as cli/commands/trigger.go calls it: flock as the lock, no deadline and *)
(* no signal handler), for one job: the shims the host scheduler starts,   *)
(* each with its lock step, its attempts and its exit code, composed with  *)
(* Flock.                                                                  *)
(***************************************************************************)
EXTENDS Flock, Naturals

CONSTANTS
  Policies,      \* the policies the job's spec may hold when a shim loads it
  MaxAttempts    \* policy.retries.max_attempts, at least 1 as in shim.go:280

ASSUME TriggerAssumption ==
  /\ Policies \subseteq Policy
  /\ MaxAttempts \in Nat \ {0}
  /\ None \notin {0, 1, 2, 3, 4}
  /\ None \notin {"2xx", "4xx", "other", "error"}

VARIABLES
  phase,     \* where each shim is in Run
  attempt,   \* the attempts it has sent
  last,      \* the result of the last one
  exit       \* the exit code Run has decided on

runVars == <<phase, attempt, last, exit>>
allVars == <<vars, runVars>>

\* The exit codes of the shim.
ExitOK == 0
ExitAppRejected == 1
ExitRetriesExhausted == 2
ExitInternal == 3
ExitLockContended == 4

ExitCode == {ExitOK, ExitAppRejected, ExitRetriesExhausted,
             ExitInternal, ExitLockContended}

\* What an attempt returns: a status class, or an error (network, timeout).
Retryable == {"other", "error"}
Result == {"2xx", "4xx"} \cup Retryable

\* The phases of a fire past the lock step.
Firing == {"ready", "inflight", "backoff"}
Phase == {"none", "boot", "locking", "returned"} \cup Firing

Set(p, ph) == phase' = [phase EXCEPT ![p] = ph]

\* Run returns: the deferred Release and the end of the process follow.
Return(p, code) ==
  /\ Set(p, "returned")
  /\ exit' = [exit EXCEPT ![p] = code]

-----------------------------------------------------------------------------
RunInit ==
  /\ Init
  /\ phase = [p \in Id |-> "none"]
  /\ attempt = [p \in Id |-> 0]
  /\ last = [p \in Id |-> None]
  /\ exit = [p \in Id |-> None]

\* The scheduler fires; the shim will load a spec with policy pol.
Fire(p, pol) ==
  /\ Spawn(p, pol)
  /\ Set(p, "boot")
  /\ UNCHANGED <<attempt, last, exit>>

\* The spec or the secrets cannot be loaded.
BootFails(p) ==
  /\ phase[p] = "boot"
  /\ Return(p, ExitInternal)
  /\ UNCHANGED <<vars, attempt, last>>

\* Spec and secrets are there: Allow goes on without the lock.
Boot(p) ==
  /\ phase[p] = "boot"
  /\ \/ policy[p] = "Allow" /\ Set(p, "ready") /\ UNCHANGED vars
     \/ CallAcquire(p) /\ Set(p, "locking")
  /\ UNCHANGED <<attempt, last, exit>>

LockStep(p) == Lock(p) /\ UNCHANGED runVars

LockFails(p) == LockError(p) /\ UNCHANGED runVars

Acquired(p) ==
  /\ phase[p] = "locking" /\ pc[p] = "held"
  /\ Set(p, "ready")
  /\ UNCHANGED <<vars, attempt, last, exit>>

\* Contention taken for success.
FiresContended(p) ==
  /\ phase[p] = "locking"
  /\ \/ pc[p] = "contended" /\ Set(p, "ready") /\ UNCHANGED exit
     \/ pc[p] = "failed" /\ Return(p, ExitInternal)
  /\ UNCHANGED <<vars, attempt, last>>

\* Contention answered with another try.
TriesAgain(p) ==
  /\ phase[p] = "locking"
  /\ pc[p] \in {"contended", "failed"}
  /\ Goto(p, "try")
  /\ UNCHANGED <<policy, target, termed, owner, holder, runVars>>

NotAcquired(p) ==
  /\ phase[p] = "locking"
  /\ \/ pc[p] = "contended" /\ Return(p, ExitLockContended)
     \/ pc[p] = "failed" /\ Return(p, ExitInternal)
  /\ UNCHANGED <<vars, attempt, last>>

(* The attempts.                                                           *)

\* Attempts nobody counts.
SendUncounted(p) ==
  /\ phase[p] \in {"ready", "backoff"}
  /\ Set(p, "inflight")
  /\ UNCHANGED <<vars, attempt, last, exit>>

\* fire signs and sends the next attempt, at once or after its backoff.
Send(p) ==
  /\ phase[p] \in {"ready", "backoff"}
  /\ Set(p, "inflight")
  /\ attempt' = [attempt EXCEPT ![p] = @ + 1]
  /\ UNCHANGED <<vars, last, exit>>

\* Retries counted from zero.
AnswerOffByOne(p, r) ==
  /\ phase[p] = "inflight"
  /\ last' = [last EXCEPT ![p] = r]
  /\ \/ r = "2xx" /\ Return(p, ExitOK)
     \/ r = "4xx" /\ Return(p, ExitAppRejected)
     \/ /\ r \in Retryable /\ attempt[p] <= MaxAttempts
        /\ Set(p, "backoff") /\ UNCHANGED exit
     \/ /\ r \in Retryable /\ attempt[p] > MaxAttempts
        /\ Return(p, ExitRetriesExhausted)
  /\ UNCHANGED <<vars, attempt>>

\* A rejection retried like a failure.
AnswerRetriesRejection(p, r) ==
  /\ phase[p] = "inflight"
  /\ last' = [last EXCEPT ![p] = r]
  /\ \/ r = "2xx" /\ Return(p, ExitOK)
     \/ /\ r # "2xx" /\ attempt[p] < MaxAttempts
        /\ Set(p, "backoff") /\ UNCHANGED exit
     \/ /\ r # "2xx" /\ attempt[p] >= MaxAttempts
        /\ Return(p, ExitRetriesExhausted)
  /\ UNCHANGED <<vars, attempt>>

\* The application answers, fails to, or is still at it when the attempt's
\* timeout passes.
Answer(p, r) ==
  /\ phase[p] = "inflight"
  /\ last' = [last EXCEPT ![p] = r]
  /\ \/ r = "2xx" /\ Return(p, ExitOK)
     \/ r = "4xx" /\ Return(p, ExitAppRejected)
     \/ /\ r \in Retryable /\ attempt[p] < MaxAttempts
        /\ Set(p, "backoff") /\ UNCHANGED exit
     \/ /\ r \in Retryable /\ attempt[p] >= MaxAttempts
        /\ Return(p, ExitRetriesExhausted)
  /\ UNCHANGED <<vars, attempt>>

\* A panic past the lock step is recovered.
Panic(p) ==
  /\ phase[p] \in Firing
  /\ Return(p, ExitInternal)
  /\ UNCHANGED <<vars, attempt, last>>

(* The end of a shim.                                                      *)

DeferredRelease(p) ==
  /\ phase[p] = "returned"
  /\ CallRelease(p)
  /\ UNCHANGED runVars

Forget(p) ==
  /\ Set(p, "none")
  /\ attempt' = [attempt EXCEPT ![p] = 0]
  /\ last' = [last EXCEPT ![p] = None]
  /\ exit' = [exit EXCEPT ![p] = None]

ExitProcess(p) ==
  /\ phase[p] = "returned"
  /\ Exit(p)
  /\ Forget(p)

\* SIGTERM or a crash.
Killed(p) ==
  /\ Terminate(p) \/ Crash(p)
  /\ Forget(p)

Unrelated(p) == OtherProgram(p) /\ UNCHANGED runVars

-----------------------------------------------------------------------------
\* The steps of a shim that nothing befalls.
Step(p) ==
  \/ Boot(p) \/ LockStep(p) \/ Acquired(p) \/ NotAcquired(p)
  \/ Send(p) \/ (\E r \in Result : Answer(p, r))
  \/ DeferredRelease(p) \/ ExitProcess(p)

Fault(p) == BootFails(p) \/ LockFails(p) \/ Panic(p) \/ Killed(p)

RunNext ==
  \/ \E p \in Id : Step(p) \/ Fault(p) \/ Unrelated(p)
  \/ \E p \in Id, pol \in Policies : Fire(p, pol)

RunSpec == RunInit /\ [][RunNext]_allVars

\* Run blocks on nothing without a bound: the attempts have a timeout, the
\* polls of Replace a deadline, the sleeps a length.  No fault is needed for a
\* fire to end.
RunFairSpec == RunSpec /\ \A p \in Id : WF_allVars(Step(p))

-----------------------------------------------------------------------------
\* What the phase of a shim says of its lock code, attempts and exit code.
PhaseAgrees(p) ==
  /\ phase[p] = "none" <=> ~IsShim(p)
  /\ phase[p] = "boot" => pc[p] = "idle"
  /\ phase[p] = "locking" =>
       /\ policy[p] # "Allow"
       /\ pc[p] \notin {"idle", "remove", "unlock", "released"}
  /\ phase[p] \in Firing =>
       pc[p] = IF policy[p] = "Allow" THEN "idle" ELSE "held"
  /\ phase[p] \in {"none", "boot", "locking", "ready"} =>
       attempt[p] = 0 /\ last[p] = None
  /\ phase[p] = "backoff" => attempt[p] < MaxAttempts
  /\ exit[p] # None <=> phase[p] = "returned"

\* The phases agree with the lock code: a shim whose policy is not Allow has
\* its Handle from its first attempt to its last.
RunTypeOK ==
  /\ TypeOK
  /\ phase \in [Id -> Phase]
  /\ attempt \in [Id -> 0..MaxAttempts]
  /\ last \in [Id -> Result \cup {None}]
  /\ exit \in [Id -> ExitCode \cup {None}]
  /\ \A p \in Id : PhaseAgrees(p)

FiringUnderLock == {p \in Id : phase[p] \in Firing /\ policy[p] # "Allow"}

FireMutex == INSTANCE JobMutex WITH Proc <- Id, inside <- FiringUnderLock

\* From the first attempt to the last, backoffs included, the fire of a Forbid
\* or Replace job is alone: another one starts sending only when it is over or
\* dead, although the two may run under different policies.
FiresExclude == FireMutex!Spec

\* The exit code says what happened (RFC.md, "Exit code map"): success and
\* rejection end the fire at once, exhaustion needs every attempt spent, and
\* a contended fire has not used an attempt (concurrency.md:99).
ExitCodeTells ==
  \A p \in Id :
    /\ phase[p] \in Firing => last[p] \in Retryable \cup {None}
    /\ exit[p] = ExitOK => last[p] = "2xx"
    /\ exit[p] = ExitAppRejected => last[p] = "4xx"
    /\ exit[p] = ExitRetriesExhausted =>
         attempt[p] = MaxAttempts /\ last[p] \in Retryable
    /\ exit[p] = ExitLockContended => attempt[p] = 0 /\ policy[p] # "Allow"

\* Every fire comes to its end and its process goes away, contended or not.
FireEnds == \A p \in Id : phase[p] = "boot" ~> phase[p] = "none"
=============================================================================
