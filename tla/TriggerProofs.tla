--------------------------- MODULE TriggerProofs ----------------------------
(***************************************************************************)
(* Of Flock, for any set of identities on any hosts: types, the owner of   *)
(* the lock, the truth of the holder file, and that Flock implements       *)
(* JobMutex.  Of Trigger: every step of a shim is a step of the lock code  *)
(* or leaves it alone, so that all this holds there; and the phases of Run *)
(* agree with the lock, so that fires exclude each other and exit codes    *)
(* tell the truth.                                                         *)
(***************************************************************************)
EXTENDS Trigger, TLAPS

-----------------------------------------------------------------------------
(* The lock.                                                               *)

\* What a step of the process p is, one disjunct per case of the proofs.
StepOf(p) ==
  \/ \E pol \in Policy : Spawn(p, pol)
  \/ OtherProgram(p)
  \/ (pc[p] \in Outside \/ IsShim(p)) /\ Gone(p)
  \/ CallAcquire(p) \/ TryLock(p) \/ Contended(p) \/ LockError(p)
  \/ TruncateHolder(p) \/ WriteHolder(p) \/ WriteHolderFails(p)
  \/ ReadHolder(p) \/ Signal(p) \/ GiveUp(p)
  \/ CallRelease(p) \/ RemoveHolder(p) \/ Unlock(p)

LEMMA NextCases == ASSUME Next PROVE \E p \in Id : StepOf(p)
  BY DEF Next, Lock, Process, Exit, Terminate, Crash, StepOf

\* The parts of the type invariant, as one inductive step.
LEMMA TypeStep == TypeOK /\ [Next]_vars => TypeOK'
  <1> SUFFICES ASSUME TypeOK, [Next]_vars PROVE TypeOK'
    OBVIOUS
  <1> USE FlockAssumption DEF TypeOK, Goto, IsShim, ShimStates, Critical,
        Contending, Outside, Policy
  <1>1. ASSUME Next PROVE TypeOK'
    <2> PICK p \in Id : StepOf(p)
      BY <1>1, NextCases
    <2>1. ASSUME NEW pol \in Policy, Spawn(p, pol) PROVE TypeOK'
      BY <2>1 DEF Spawn
    <2>2. CASE OtherProgram(p)
      BY <2>2 DEF OtherProgram
    <2>3. CASE (pc[p] \in Outside \/ IsShim(p)) /\ Gone(p)
      BY <2>3 DEF Gone
    <2>4. CASE CallAcquire(p)
      BY <2>4 DEF CallAcquire
    <2>5. CASE TryLock(p)
      BY <2>5 DEF TryLock
    <2>6. CASE Contended(p)
      BY <2>6 DEF Contended
    <2>7. CASE LockError(p)
      BY <2>7 DEF LockError
    <2>8. CASE TruncateHolder(p)
      BY <2>8 DEF TruncateHolder
    <2>9. CASE WriteHolder(p)
      BY <2>9 DEF WriteHolder
    <2>10. CASE WriteHolderFails(p)
      BY <2>10 DEF WriteHolderFails
    <2>11. CASE ReadHolder(p)
      <3>1. CASE holder \in Id /\ holder # p /\ HostOf[holder] = HostOf[p]
        BY <2>11, <3>1 DEF ReadHolder
      <3>2. CASE ~(holder \in Id /\ holder # p /\ HostOf[holder] = HostOf[p])
        BY <2>11, <3>2 DEF ReadHolder
      <3> QED BY <3>1, <3>2
    <2>12. CASE Signal(p)
      <3> DEFINE t == target[p]
      <3>1. CASE pc[t] = "free" /\ Goto(p, "poll") /\ UNCHANGED termed
        BY <2>12, <3>1 DEF Signal
      <3>2. CASE IsShim(t) /\ termed' = termed \cup {t} /\ Goto(p, "poll")
        BY <2>12, <3>2 DEF Signal
      <3>3. CASE /\ pc[t] = "other" /\ UNCHANGED termed
                 /\ pc' = [pc EXCEPT ![p] = "poll", ![t] = "free"]
        BY <2>12, <3>3 DEF Signal
      <3>4. CASE pc[t] = "other" /\ Goto(p, "failed") /\ UNCHANGED termed
        BY <2>12, <3>4 DEF Signal
      <3> QED BY <2>12, <3>1, <3>2, <3>3, <3>4 DEF Signal
    <2>13. CASE GiveUp(p)
      BY <2>13 DEF GiveUp
    <2>14. CASE CallRelease(p)
      BY <2>14 DEF CallRelease
    <2>15. CASE RemoveHolder(p)
      BY <2>15 DEF RemoveHolder
    <2>16. CASE Unlock(p)
      BY <2>16 DEF Unlock
    <2> QED BY <2>1, <2>2, <2>3, <2>4, <2>5, <2>6, <2>7, <2>8, <2>9, <2>10,
              <2>11, <2>12, <2>13, <2>14, <2>15, <2>16 DEF StepOf
  <1>2. CASE UNCHANGED vars
    BY <1>2 DEF vars
  <1> QED BY <1>1, <1>2

\* The state of the lock code always has the shape TypeOK gives it.
THEOREM TypeCorrect == Spec => []TypeOK
  <1>1. Init => TypeOK
    BY DEF Init, TypeOK, IsShim, ShimStates, Critical, Contending, Outside
  <1> QED BY <1>1, TypeStep, PTL DEF Spec

-----------------------------------------------------------------------------
\* Only the owner of the lock writes or removes the holder file, and it does
\* the removal before it unlocks.

LEMMA OwnerStep ==
    TypeOK /\ OwnerIsInside /\ [Next]_vars => OwnerIsInside'
  <1> SUFFICES ASSUME TypeOK, OwnerIsInside, [Next]_vars PROVE OwnerIsInside'
    OBVIOUS
  <1> USE FlockAssumption DEF TypeOK, OwnerIsInside, Goto, IsShim, ShimStates,
        Critical, Contending, Outside
  <1>1. ASSUME Next PROVE OwnerIsInside'
    <2> PICK p \in Id : StepOf(p)
      BY <1>1, NextCases
    <2>1. ASSUME NEW pol \in Policy, Spawn(p, pol) PROVE OwnerIsInside'
      BY <2>1 DEF Spawn
    <2>2. CASE OtherProgram(p)
      BY <2>2 DEF OtherProgram
    <2>3. CASE (pc[p] \in Outside \/ IsShim(p)) /\ Gone(p)
      BY <2>3 DEF Gone
    <2>4. CASE CallAcquire(p)
      BY <2>4 DEF CallAcquire
    <2>5. CASE TryLock(p)
      BY <2>5 DEF TryLock
    <2>6. CASE Contended(p)
      BY <2>6 DEF Contended
    <2>7. CASE LockError(p)
      BY <2>7 DEF LockError
    <2>8. CASE TruncateHolder(p)
      BY <2>8 DEF TruncateHolder
    <2>9. CASE WriteHolder(p)
      BY <2>9 DEF WriteHolder
    <2>10. CASE WriteHolderFails(p)
      BY <2>10 DEF WriteHolderFails
    <2>11. CASE ReadHolder(p)
      BY <2>11 DEF ReadHolder
    <2>12. CASE Signal(p)
      BY <2>12 DEF Signal
    <2>13. CASE GiveUp(p)
      BY <2>13 DEF GiveUp
    <2>14. CASE CallRelease(p)
      BY <2>14 DEF CallRelease
    <2>15. CASE RemoveHolder(p)
      BY <2>15 DEF RemoveHolder
    <2>16. CASE Unlock(p)
      BY <2>16 DEF Unlock
    <2> QED BY <2>1, <2>2, <2>3, <2>4, <2>5, <2>6, <2>7, <2>8, <2>9,
              <2>10, <2>11, <2>12, <2>13, <2>14, <2>15, <2>16 DEF StepOf
  <1>2. CASE UNCHANGED vars
    BY <1>2 DEF vars
  <1> QED BY <1>1, <1>2

LEMMA HolderStep ==
    TypeOK /\ OwnerIsInside /\ HolderFileIsTrue /\ [Next]_vars
      => HolderFileIsTrue'
  <1> SUFFICES ASSUME TypeOK, OwnerIsInside, HolderFileIsTrue, [Next]_vars
               PROVE HolderFileIsTrue'
    OBVIOUS
  <1> USE FlockAssumption DEF TypeOK, OwnerIsInside, HolderFileIsTrue, Goto,
        IsShim, ShimStates, Critical, Contending, Outside
  <1>1. ASSUME Next PROVE HolderFileIsTrue'
    <2> PICK p \in Id : StepOf(p)
      BY <1>1, NextCases
    <2>1. ASSUME NEW pol \in Policy, Spawn(p, pol) PROVE HolderFileIsTrue'
      BY <2>1 DEF Spawn
    <2>2. CASE OtherProgram(p)
      BY <2>2 DEF OtherProgram
    <2>3. CASE (pc[p] \in Outside \/ IsShim(p)) /\ Gone(p)
      BY <2>3 DEF Gone
    <2>4. CASE CallAcquire(p)
      BY <2>4 DEF CallAcquire
    <2>5. CASE TryLock(p)
      BY <2>5 DEF TryLock
    <2>6. CASE Contended(p)
      BY <2>6 DEF Contended
    <2>7. CASE LockError(p)
      BY <2>7 DEF LockError
    <2>8. CASE TruncateHolder(p)
      BY <2>8 DEF TruncateHolder
    <2>9. CASE WriteHolder(p)
      BY <2>9 DEF WriteHolder
    <2>10. CASE WriteHolderFails(p)
      BY <2>10 DEF WriteHolderFails
    <2>11. CASE ReadHolder(p)
      BY <2>11 DEF ReadHolder
    <2>12. CASE Signal(p)
      BY <2>12 DEF Signal
    <2>13. CASE GiveUp(p)
      BY <2>13 DEF GiveUp
    <2>14. CASE CallRelease(p)
      BY <2>14 DEF CallRelease
    <2>15. CASE RemoveHolder(p)
      BY <2>15 DEF RemoveHolder
    <2>16. CASE Unlock(p)
      BY <2>16 DEF Unlock
    <2> QED BY <2>1, <2>2, <2>3, <2>4, <2>5, <2>6, <2>7, <2>8, <2>9,
              <2>10, <2>11, <2>12, <2>13, <2>14, <2>15, <2>16 DEF StepOf
  <1>2. CASE UNCHANGED vars
    BY <1>2 DEF vars
  <1> QED BY <1>1, <1>2

LEMMA Initial == Init => TypeOK /\ OwnerIsInside /\ HolderFileIsTrue
  BY FlockAssumption DEF Init, TypeOK, OwnerIsInside, HolderFileIsTrue,
     IsShim, ShimStates, Critical, Contending, Outside

\* The lock's owner is a live shim inside the lock code, and the only one
\* there: a process that dies anywhere leaves the lock free.
THEOREM OwnerCorrect == Spec => []OwnerIsInside
  BY Initial, TypeCorrect, OwnerStep, PTL DEF Spec

\* The holder file names the process that has a Handle, and is gone before the
\* lock is, for every process whose own writes and removals succeed.
THEOREM HolderFileCorrect == Spec => []HolderFileIsTrue
  BY Initial, TypeCorrect, OwnerCorrect, HolderStep, PTL DEF Spec

-----------------------------------------------------------------------------
\* Every step of the lock code is a step of JobMutex or none: the return of
\* Acquire enters, the Unlock and the end of the process leave.
LEMMA RefinementStep ==
    TypeOK /\ OwnerIsInside /\ [Next]_vars => [Abstract!Next]_Inside
  <1> SUFFICES ASSUME TypeOK, OwnerIsInside, Next
               PROVE Abstract!Next \/ Inside' = Inside
    BY DEF vars, Inside
  <1> PICK p \in Id : StepOf(p)
    BY NextCases
  <1> USE FlockAssumption DEF TypeOK, Inside, Goto, IsShim, ShimStates,
        Critical, Contending, Outside
  <1>1. ASSUME NEW pol \in Policy, Spawn(p, pol) PROVE Inside' = Inside
    BY <1>1 DEF Spawn
  <1>2. CASE OtherProgram(p)
    <2> Inside' = Inside
      BY <1>2 DEF OtherProgram
    <2> QED OBVIOUS
  <1>3. CASE (pc[p] \in Outside \/ IsShim(p)) /\ Gone(p)
    <2>1. Inside' = Inside \ {p}
      BY <1>3 DEF Gone
    <2>2. CASE p \in Inside
      BY <2>1, <2>2 DEF Abstract!Next, Abstract!Leave
    <2>3. CASE p \notin Inside
      BY <2>1, <2>3
    <2> QED BY <2>2, <2>3
  <1>4. CASE \/ CallAcquire(p) \/ TryLock(p) \/ Contended(p) \/ LockError(p)
             \/ TruncateHolder(p) \/ ReadHolder(p) \/ GiveUp(p)
             \/ CallRelease(p) \/ RemoveHolder(p)
    <2> Inside' = Inside
      BY <1>4 DEF CallAcquire, TryLock, Contended, LockError, TruncateHolder,
                  ReadHolder, GiveUp, CallRelease, RemoveHolder
    <2> QED OBVIOUS
  <1>5. CASE WriteHolder(p) \/ WriteHolderFails(p)
    <2>1. Inside = {}
      BY <1>5 DEF WriteHolder, WriteHolderFails, OwnerIsInside
    <2>2. Inside' = {p}
      BY <1>5, <2>1 DEF WriteHolder, WriteHolderFails
    <2> QED BY <2>1, <2>2 DEF Abstract!Next, Abstract!Enter
  <1>6. CASE Signal(p)
    <2> Inside' = Inside
      BY <1>6 DEF Signal
    <2> QED OBVIOUS
  <1>7. CASE Unlock(p)
    <2>1. p \in Inside /\ Inside' = Inside \ {p}
      BY <1>7 DEF Unlock
    <2> QED BY <2>1 DEF Abstract!Next, Abstract!Leave
  <1> QED BY <1>1, <1>2, <1>3, <1>4, <1>5, <1>6, <1>7 DEF StepOf

\* Flock is a mutual-exclusion lock for any number of processes on any hosts,
\* killed at any point, with or without faults of the holder file.
THEOREM FlockImplementsJobMutex == Spec => ImplementsJobMutex
  <1>1. Init => Abstract!Init
    BY DEF Init, Inside, Abstract!Init
  <1> QED BY <1>1, RefinementStep, TypeCorrect, OwnerCorrect, PTL
          DEF Spec, ImplementsJobMutex, Abstract!Spec

-----------------------------------------------------------------------------
(* The shim.                                                               *)

\* The steps that touch only what Run itself keeps for p.
RunStep(p) ==
  \/ BootFails(p)
  \/ phase[p] = "boot" /\ policy[p] = "Allow" /\ Set(p, "ready")
       /\ UNCHANGED <<vars, attempt, last, exit>>
  \/ Acquired(p) \/ NotAcquired(p) \/ Send(p) \/ Panic(p)
  \/ \E r \in Result : Answer(p, r)

\* The steps that go through the lock code or the operating system.
LockedStep(p) ==
  \/ phase[p] = "boot" /\ CallAcquire(p) /\ Set(p, "locking")
       /\ UNCHANGED <<attempt, last, exit>>
  \/ LockStep(p) \/ LockFails(p) \/ DeferredRelease(p) \/ Unrelated(p)
  \/ IsShim(p) /\ Gone(p) /\ Forget(p)
  \/ \E pol \in Policies : Fire(p, pol)

LEMMA RunCases ==
  ASSUME RunNext
  PROVE  \E p \in Id : RunStep(p) \/ LockedStep(p)
  BY DEF RunNext, Step, Fault, Boot, Killed, ExitProcess, Exit, Terminate,
         Crash, RunStep, LockedStep, IsShim, ShimStates

\* Run uses the lock code as Flock lets anyone use it.
LEMMA RunIsFlockStep == [RunNext]_allVars => [Next]_vars
  <1> SUFFICES ASSUME [RunNext]_allVars PROVE [Next]_vars
    OBVIOUS
  <1>1. CASE UNCHANGED allVars
    BY <1>1 DEF allVars
  <1>2. CASE RunNext
    <2> PICK p \in Id : Step(p) \/ Fault(p) \/ Unrelated(p)
                          \/ \E pol \in Policies : Fire(p, pol)
      BY <1>2 DEF RunNext
    <2>1. CASE Step(p)
      BY <2>1 DEF Step, Next, Boot, LockStep, Acquired, NotAcquired, Send,
             Answer, DeferredRelease, ExitProcess, Process
    <2>2. CASE Fault(p)
      BY <2>2 DEF Fault, BootFails, LockFails, Panic, Killed, Next, Process
    <2>3. CASE Unrelated(p)
      BY <2>3 DEF Unrelated, Next, Process
    <2>4. ASSUME NEW pol \in Policies, Fire(p, pol) PROVE Next
      BY <2>4, TriggerAssumption DEF Fire, Next, Process
    <2> QED BY <2>1, <2>2, <2>3, <2>4
  <1> QED BY <1>1, <1>2

\* So the shims keep every promise of the lock.
THEOREM RunIsFlock == RunSpec => Spec
  BY RunIsFlockStep, PTL DEF RunSpec, RunInit, Spec

-----------------------------------------------------------------------------
\* A step of p leaves the other shims as they are, but for a shim or program
\* that it signals.
LEMMA RunTypeStep == RunTypeOK /\ [RunNext]_allVars => RunTypeOK'
  <1> SUFFICES ASSUME RunTypeOK, [RunNext]_allVars PROVE RunTypeOK'
    OBVIOUS
  <1>1. TypeOK'
    BY TypeStep, RunIsFlockStep DEF RunTypeOK
  <1> USE FlockAssumption, TriggerAssumption
      DEF TypeOK, RunTypeOK, PhaseAgrees, Phase, Firing, Result, Retryable,
          ExitCode, ExitOK, ExitAppRejected, ExitRetriesExhausted,
          ExitInternal, ExitLockContended, IsShim, ShimStates, Critical,
          Contending, Outside, Policy
  <1>2. CASE UNCHANGED allVars
    BY <1>2, <1>1 DEF allVars, vars, runVars
  <1>3. ASSUME NEW p \in Id, RunStep(p) PROVE RunTypeOK'
    <2> USE <1>1 DEF Set, Return, vars
    <2>1. CASE BootFails(p)
      BY <2>1 DEF BootFails
    <2>2. CASE /\ phase[p] = "boot" /\ policy[p] = "Allow" /\ Set(p, "ready")
               /\ UNCHANGED <<vars, attempt, last, exit>>
      BY <2>2
    <2>3. CASE Acquired(p)
      BY <2>3 DEF Acquired
    <2>4. CASE NotAcquired(p)
      BY <2>4 DEF NotAcquired
    <2>5. CASE Send(p)
      BY <2>5 DEF Send
    <2>6. CASE Panic(p)
      BY <2>6 DEF Panic
    <2>7. ASSUME NEW r \in Result, Answer(p, r) PROVE RunTypeOK'
      BY <2>7 DEF Answer
    <2> QED BY <1>3, <2>1, <2>2, <2>3, <2>4, <2>5, <2>6, <2>7 DEF RunStep
  <1>4. ASSUME NEW p \in Id, LockedStep(p) PROVE RunTypeOK'
    <2> USE <1>1 DEF Set, Goto
    <2>1. CASE /\ phase[p] = "boot" /\ CallAcquire(p) /\ Set(p, "locking")
               /\ UNCHANGED <<attempt, last, exit>>
      BY <2>1 DEF CallAcquire
    <2>2. CASE LockStep(p) \/ LockFails(p)
      BY <2>2 DEF LockStep, LockFails, runVars, Lock, LockError, TryLock,
             Contended, TruncateHolder, WriteHolder, WriteHolderFails,
             ReadHolder, Signal, GiveUp, RemoveHolder, Unlock
    <2>3. CASE DeferredRelease(p)
      BY <2>3 DEF DeferredRelease, CallRelease, runVars
    <2>4. CASE Unrelated(p)
      BY <2>4 DEF Unrelated, OtherProgram, runVars
    <2>5. CASE Gone(p) /\ Forget(p)
      BY <2>5 DEF Gone, Forget
    <2>6. ASSUME NEW pol \in Policies, Fire(p, pol) PROVE RunTypeOK'
      BY <2>6 DEF Fire, Spawn
    <2> QED BY <1>4, <2>1, <2>2, <2>3, <2>4, <2>5, <2>6 DEF LockedStep
  <1> QED BY <1>2, <1>3, <1>4, RunCases

\* The phase of every shim agrees with its place in the lock code, with the
\* attempts it has sent and with its exit code.
THEOREM RunTypeCorrect == RunSpec => []RunTypeOK
  <1>1. RunInit => RunTypeOK
    BY TriggerAssumption, FlockAssumption
       DEF RunInit, Init, RunTypeOK, TypeOK, PhaseAgrees, Phase, Firing,
           IsShim, ShimStates, Critical, Contending, Outside
  <1> QED BY <1>1, RunTypeStep, PTL DEF RunSpec

-----------------------------------------------------------------------------
\* Only the steps of Run itself touch an exit code, other than to forget it.
LEMMA ExitCodeStep ==
    RunTypeOK /\ ExitCodeTells /\ [RunNext]_allVars => ExitCodeTells'
  <1> SUFFICES ASSUME RunTypeOK, ExitCodeTells, [RunNext]_allVars
               PROVE ExitCodeTells'
    OBVIOUS
  <1> USE TriggerAssumption
      DEF RunTypeOK, TypeOK, PhaseAgrees, ExitCodeTells, Phase, Firing, Result,
          Retryable, ExitCode, ExitOK, ExitAppRejected, ExitRetriesExhausted,
          ExitInternal, ExitLockContended
  <1>1. CASE UNCHANGED allVars
    BY <1>1 DEF allVars, vars, runVars
  <1>2. ASSUME NEW p \in Id, RunStep(p) PROVE ExitCodeTells'
    <2> USE DEF Set, Return, vars
    <2>1. CASE BootFails(p)
      BY <2>1 DEF BootFails
    <2>2. CASE /\ phase[p] = "boot" /\ policy[p] = "Allow" /\ Set(p, "ready")
               /\ UNCHANGED <<vars, attempt, last, exit>>
      BY <2>2
    <2>3. CASE Acquired(p)
      BY <2>3 DEF Acquired
    <2>4. CASE NotAcquired(p)
      BY <2>4 DEF NotAcquired
    <2>5. CASE Send(p)
      BY <2>5 DEF Send
    <2>6. CASE Panic(p)
      BY <2>6 DEF Panic
    <2>7. ASSUME NEW r \in Result, Answer(p, r) PROVE ExitCodeTells'
      BY <2>7 DEF Answer
    <2> QED BY <1>2, <2>1, <2>2, <2>3, <2>4, <2>5, <2>6, <2>7 DEF RunStep
  <1>3. ASSUME NEW p \in Id, LockedStep(p) PROVE ExitCodeTells'
    <2>1. CASE /\ phase[p] = "boot" /\ CallAcquire(p) /\ Set(p, "locking")
               /\ UNCHANGED <<attempt, last, exit>>
      BY <2>1 DEF CallAcquire, Set
    <2>2. CASE LockStep(p) \/ LockFails(p)
      BY <2>2 DEF LockStep, LockFails, runVars, Lock, LockError, TryLock,
             Contended, TruncateHolder, WriteHolder, WriteHolderFails,
             ReadHolder, Signal, GiveUp, RemoveHolder, Unlock
    <2>3. CASE DeferredRelease(p)
      BY <2>3 DEF DeferredRelease, CallRelease, runVars
    <2>4. CASE Unrelated(p)
      BY <2>4 DEF Unrelated, OtherProgram, runVars
    <2>5. CASE Gone(p) /\ Forget(p)
      BY <2>5 DEF Gone, Forget, Set
    <2>6. ASSUME NEW pol \in Policies, Fire(p, pol) PROVE ExitCodeTells'
      BY <2>6 DEF Fire, Spawn, Set, IsShim, ShimStates, Critical, Contending,
             Outside
    <2> QED BY <1>3, <2>1, <2>2, <2>3, <2>4, <2>5, <2>6 DEF LockedStep
  <1> QED BY <1>1, <1>2, <1>3, RunCases

\* Exit 0 and 1 follow a 2xx and a 4xx at once, exit 2 comes when all attempts
\* are spent, exit 4 before any.
THEOREM ExitCodeCorrect == RunSpec => []ExitCodeTells
  <1>1. RunInit => ExitCodeTells
    BY TriggerAssumption
       DEF RunInit, ExitCodeTells, Firing, ExitOK, ExitAppRejected,
           ExitRetriesExhausted, ExitLockContended
  <1> QED BY <1>1, RunTypeCorrect, ExitCodeStep, PTL DEF RunSpec

-----------------------------------------------------------------------------
\* A shim that fires under the lock owns it, so there is one at most, and
\* none when another has just acquired it.
LEMMA FiringOwns ==
  ASSUME RunTypeOK, OwnerIsInside, NEW p \in Id,
         (phase[p] \in Firing /\ policy[p] # "Allow") \/ pc[p] = "held"
  PROVE  owner = p
  BY DEF RunTypeOK, PhaseAgrees, OwnerIsInside, Critical

LEMMA ExclusionStep ==
    RunTypeOK /\ OwnerIsInside /\ [RunNext]_allVars
      => [FireMutex!Next]_FiringUnderLock
  <1> SUFFICES ASSUME RunTypeOK, OwnerIsInside, RunNext
               PROVE FireMutex!Next \/ FiringUnderLock' = FiringUnderLock
    BY DEF allVars, vars, runVars, FiringUnderLock
  <1> DEFINE Same == FiringUnderLock' = FiringUnderLock
             Left(p) == FiringUnderLock' = FiringUnderLock \ {p}
  <1> USE DEF RunTypeOK, TypeOK, Firing, FiringUnderLock
  <1>1. ASSUME NEW p \in Id, Left(p) PROVE FireMutex!Next \/ Same
    BY <1>1 DEF FireMutex!Next, FireMutex!Leave
  <1>2. ASSUME NEW p \in Id, RunStep(p) PROVE FireMutex!Next \/ Same
    <2> USE DEF Set, Return, vars
    <2>1. CASE Acquired(p)
      <3>1. FiringUnderLock = {}
        BY <2>1, FiringOwns DEF Acquired
      <3>2. policy[p] # "Allow"
        BY <2>1 DEF Acquired, PhaseAgrees
      <3>3. FiringUnderLock' = {p}
        BY <2>1, <3>1, <3>2 DEF Acquired
      <3> QED BY <3>1, <3>3 DEF FireMutex!Next, FireMutex!Enter
    <2>2. CASE BootFails(p)
      BY <2>2 DEF BootFails
    <2>3. CASE /\ phase[p] = "boot" /\ policy[p] = "Allow" /\ Set(p, "ready")
               /\ UNCHANGED <<vars, attempt, last, exit>>
      BY <2>3
    <2>4. CASE NotAcquired(p)
      BY <2>4 DEF NotAcquired
    <2>5. CASE Send(p)
      BY <2>5 DEF Send
    <2>6. CASE Panic(p)
      <3> Left(p)
        BY <2>6 DEF Panic
      <3> QED BY <1>1
    <2>7. ASSUME NEW r \in Result, Answer(p, r) PROVE FireMutex!Next \/ Same
      <3>1. CASE phase'[p] = "backoff"
        BY <2>7, <3>1 DEF Answer
      <3>2. CASE phase'[p] = "returned"
        <4> Left(p)
          BY <2>7, <3>2 DEF Answer
        <4> QED BY <1>1
      <3> QED BY <2>7, <3>1, <3>2 DEF Answer
    <2> QED BY <1>2, <2>1, <2>2, <2>3, <2>4, <2>5, <2>6, <2>7 DEF RunStep
  <1>3. ASSUME NEW p \in Id, LockedStep(p) PROVE FireMutex!Next \/ Same
    <2>1. CASE /\ phase[p] = "boot" /\ CallAcquire(p) /\ Set(p, "locking")
               /\ UNCHANGED <<attempt, last, exit>>
      BY <2>1 DEF CallAcquire, Set
    <2>2. CASE LockStep(p) \/ LockFails(p)
      BY <2>2 DEF LockStep, LockFails, runVars, Lock, LockError, TryLock,
             Contended, TruncateHolder, WriteHolder, WriteHolderFails,
             ReadHolder, Signal, GiveUp, RemoveHolder, Unlock
    <2>3. CASE DeferredRelease(p)
      BY <2>3 DEF DeferredRelease, CallRelease, runVars
    <2>4. CASE Unrelated(p)
      BY <2>4 DEF Unrelated, OtherProgram, runVars
    <2>5. CASE Gone(p) /\ Forget(p)
      <3> Left(p)
        BY <2>5 DEF Gone, Forget, Set
      <3> QED BY <1>1
    <2>6. ASSUME NEW pol \in Policies, Fire(p, pol)
          PROVE  FireMutex!Next \/ Same
      <3>1. phase[p] = "none"
        BY <2>6 DEF Fire, Spawn, PhaseAgrees, IsShim, ShimStates, Critical,
               Contending, Outside
      <3> QED BY <2>6, <3>1 DEF Fire, Spawn, Set
    <2> QED BY <1>3, <2>1, <2>2, <2>3, <2>4, <2>5, <2>6 DEF LockedStep
  <1> QED BY <1>2, <1>3, RunCases

\* Fires under Forbid or Replace are alone from their first attempt to their
\* last, for any processes, hosts and number of attempts.
THEOREM FiresAreExclusive == RunSpec => FiresExclude
  <1>1. RunInit => FireMutex!Init
    BY DEF RunInit, FiringUnderLock, Firing, FireMutex!Init
  <1>2. RunSpec => []OwnerIsInside
    BY RunIsFlock, OwnerCorrect
  <1> QED BY <1>1, <1>2, ExclusionStep, RunTypeCorrect, PTL
          DEF RunSpec, FiresExclude, FireMutex!Spec
=============================================================================
