------------------------------- MODULE Flock -------------------------------
(***************************************************************************)
(* The flock lock backend (go/internal/locks/flock) for one key: Acquire,  *)
(* AcquireOrReplace and Release, one action per file-system call or        *)
(* signal, run by the processes of the hosts that share the lock           *)
(* directory.  A process is named by its identity, a (host, pid) pair: the *)
(* operating system gives a free identity to a new shim or to an unrelated *)
(* program, so identities are recycled.                                    *)
(***************************************************************************)
EXTENDS FiniteSets

CONSTANTS
  Id,            \* (host, pid) pairs
  HostOf,        \* the host of each of them
  None,          \* no process; no holder file
  Empty,         \* a holder file truncated and not written yet
  Faulty         \* those whose writes and removals of the holder file may fail

Policy == {"Allow", "Forbid", "Replace"}

ASSUME FlockAssumption ==
  /\ DOMAIN HostOf = Id
  /\ None \notin Id \cup Policy /\ Empty \notin Id /\ None # Empty
  /\ Faulty \subseteq Id

VARIABLES
  pc,       \* where each process is
  policy,   \* the concurrency policy each shim runs under
  target,   \* the holder a Replace contender has read and is about to signal
  termed,   \* the shims with a SIGTERM pending
  owner,    \* the process the kernel gives <key>.lock to
  holder    \* what <key>.holder says

vars == <<pc, policy, target, termed, owner, holder>>

\* Inside the lock: from TryLock's success to Unlock.
Critical == {"truncate", "write", "held", "remove", "unlock"}

\* Waiting for the lock, in Acquire or AcquireOrReplace.
Contending == {"try", "read", "signal", "poll"}

\* A shim outside the lock: not there yet, done with it, or turned away.
Outside == {"idle", "contended", "failed", "released"}

ShimStates == Critical \cup Contending \cup Outside

IsShim(p) == pc[p] \in ShimStates

\* A Handle is held between the return of Acquire and the Unlock of Release.
Inside == {p \in Id : pc[p] \in {"held", "remove", "unlock"}}

Goto(p, label) == pc' = [pc EXCEPT ![p] = label]

-----------------------------------------------------------------------------
Init ==
  /\ pc = [p \in Id |-> "free"]
  /\ policy = [p \in Id |-> None]
  /\ target = [p \in Id |-> None]
  /\ termed = {}
  /\ owner = None
  /\ holder = None

(* Processes come and go.                                                  *)

\* The host scheduler fires: a shim gets the identity p.
Spawn(p, pol) ==
  /\ pc[p] = "free"
  /\ Goto(p, "idle")
  /\ policy' = [policy EXCEPT ![p] = pol]
  /\ UNCHANGED <<target, termed, owner, holder>>

\* The identity goes to, or comes back from, a program that is not a shim.
OtherProgram(p) ==
  /\ \/ pc[p] = "free" /\ Goto(p, "other")
     \/ pc[p] = "other" /\ Goto(p, "free")
  /\ UNCHANGED <<policy, target, termed, owner, holder>>

\* The process ends: the kernel drops its flock, the holder file stays.
Gone(p) ==
  /\ Goto(p, "free")
  /\ policy' = [policy EXCEPT ![p] = None]
  /\ target' = [target EXCEPT ![p] = None]
  /\ termed' = termed \ {p}
  /\ owner' = IF owner = p THEN None ELSE owner
  /\ UNCHANGED holder

Exit(p) == pc[p] \in Outside /\ Gone(p)

\* SIGTERM takes effect: no handler is installed, so no deferred call runs.
Terminate(p) == IsShim(p) /\ p \in termed /\ Gone(p)

\* SIGKILL, the OOM killer, a crash of the runtime.
Crash(p) == IsShim(p) /\ Gone(p)

(* Acquire.                                                                *)

CallAcquire(p) ==
  /\ pc[p] = "idle" /\ policy[p] # "Allow"
  /\ Goto(p, "try")
  /\ UNCHANGED <<policy, target, termed, owner, holder>>

\* TryLock finds the lock free.
TryLock(p) ==
  /\ pc[p] \in {"try", "poll"}
  /\ owner = None
  /\ owner' = p
  /\ Goto(p, "truncate")
  /\ UNCHANGED <<policy, target, termed, holder>>

\* TryLock finds it taken: Forbid gives up, Replace goes for the holder.
Contended(p) ==
  /\ pc[p] = "try"
  /\ owner # None
  /\ Goto(p, IF policy[p] = "Replace" THEN "read" ELSE "contended")
  /\ UNCHANGED <<policy, target, termed, owner, holder>>

\* The lock file cannot be opened or locked.
LockError(p) ==
  /\ pc[p] \in {"try", "poll"}
  /\ Goto(p, "failed")
  /\ UNCHANGED <<policy, target, termed, owner, holder>>

\* makeHandle: os.WriteFile truncates the holder file, then writes it.
TruncateHolder(p) ==
  /\ pc[p] = "truncate"
  /\ holder' = Empty
  /\ Goto(p, "write")
  /\ UNCHANGED <<policy, target, termed, owner>>

WriteHolder(p) ==
  /\ pc[p] = "write"
  /\ holder' = p
  /\ Goto(p, "held")
  /\ UNCHANGED <<policy, target, termed, owner>>

\* The error is returned, with the lock still taken.
WriteHolderFailsLocked(p) ==
  /\ p \in Faulty /\ pc[p] \in {"truncate", "write"}
  /\ Goto(p, "failed")
  /\ UNCHANGED <<policy, target, termed, owner, holder>>

\* Either half of the write fails: the error is dropped, the lock is held.
WriteHolderFails(p) ==
  /\ p \in Faulty /\ pc[p] \in {"truncate", "write"}
  /\ Goto(p, "held")
  /\ UNCHANGED <<policy, target, termed, owner, holder>>

(* AcquireOrReplace, once Acquire has reported contention.                 *)

ReadHolder(p) ==
  /\ pc[p] = "read"
  /\ IF holder \in Id /\ holder # p /\ HostOf[holder] = HostOf[p]
       THEN Goto(p, "signal") /\ target' = [target EXCEPT ![p] = holder]
       ELSE Goto(p, "contended") /\ UNCHANGED target
  /\ UNCHANGED <<policy, termed, owner, holder>>

\* Signal without forgetting whom it has signalled.
SignalAgain(p) ==
  /\ pc[p] = "signal"
  /\ Goto(p, "poll")
  /\ termed' = termed \cup {target[p]}
  /\ UNCHANGED <<policy, target, owner, holder>>

\* kill(2) with the pid that was read, whoever has that pid by now.
Signal(p) ==
  LET t == target[p] IN
  /\ pc[p] = "signal"
  /\ target' = [target EXCEPT ![p] = None]
  /\ \/ /\ pc[t] = "free"              \* ESRCH: the holder is gone
        /\ Goto(p, "poll")
        /\ UNCHANGED termed
     \/ /\ IsShim(t)
        /\ termed' = termed \cup {t}
        /\ Goto(p, "poll")
     \/ /\ pc[t] = "other"             \* a recycled pid: the program dies
        /\ pc' = [pc EXCEPT ![p] = "poll", ![t] = "free"]
        /\ UNCHANGED termed
     \/ /\ pc[t] = "other"             \* or belongs to another user: EPERM
        /\ Goto(p, "failed")
        /\ UNCHANGED termed
  /\ UNCHANGED <<policy, owner, holder>>

\* The poll without a deadline.
PollForEver(p) ==
  /\ pc[p] = "poll"
  /\ owner # None
  /\ UNCHANGED vars

\* The wait is over: the holder is taken for dead.
TakeOver(p) ==
  /\ pc[p] = "poll"
  /\ owner # None
  /\ Goto(p, "truncate")
  /\ UNCHANGED <<policy, target, termed, owner, holder>>

\* waitForExit is over and the lock is still taken.
GiveUp(p) ==
  /\ pc[p] = "poll"
  /\ owner # None
  /\ Goto(p, "contended")
  /\ UNCHANGED <<policy, target, termed, owner, holder>>

(* Release.                                                                *)

\* Release without the removal of the holder file.
CallUnlock(p) ==
  /\ pc[p] = "held"
  /\ Goto(p, "unlock")
  /\ UNCHANGED <<policy, target, termed, owner, holder>>

CallRelease(p) ==
  /\ pc[p] = "held"
  /\ Goto(p, "remove")
  /\ UNCHANGED <<policy, target, termed, owner, holder>>

RemoveHolder(p) ==
  /\ pc[p] = "remove"
  /\ holder' \in IF p \in Faulty THEN {None, holder} ELSE {None}
  /\ Goto(p, "unlock")
  /\ UNCHANGED <<policy, target, termed, owner>>

Unlock(p) ==
  /\ pc[p] = "unlock"
  /\ owner' = None
  /\ Goto(p, "released")
  /\ UNCHANGED <<policy, target, termed, holder>>

-----------------------------------------------------------------------------
\* What a shim does by itself once it is in the lock code, up to its Handle
\* and from Release on.
Lock(p) ==
  \/ TryLock(p) \/ Contended(p)
  \/ TruncateHolder(p) \/ WriteHolder(p) \/ WriteHolderFails(p)
  \/ ReadHolder(p) \/ Signal(p) \/ GiveUp(p)
  \/ RemoveHolder(p) \/ Unlock(p)

Process(p) ==
  \/ \E pol \in Policy : Spawn(p, pol)
  \/ OtherProgram(p)
  \/ Exit(p) \/ Terminate(p) \/ Crash(p)

Next ==
  \E p \in Id : \/ CallAcquire(p) \/ Lock(p) \/ LockError(p) \/ CallRelease(p)
               \/ Process(p)

Spec == Init /\ [][Next]_vars

-----------------------------------------------------------------------------
\* The state has the shape the code gives it; only a shim has a policy, only
\* a Replace contender a target.
TypeOK ==
  /\ pc \in [Id -> ShimStates \cup {"free", "other"}]
  /\ policy \in [Id -> Policy \cup {None}]
  /\ target \in [Id -> Id \cup {None}]
  /\ termed \subseteq Id
  /\ owner \in Id \cup {None}
  /\ holder \in Id \cup {None, Empty}
  /\ \A p \in Id :
       /\ IsShim(p) <=> policy[p] # None
       /\ pc[p] = "signal" <=> target[p] # None
       /\ p \in termed => IsShim(p)

\* "Crashed shims do not leak the lock" (RFC.md:824): the kernel's owner is at
\* every moment a live shim between its TryLock and its Unlock, and there is
\* no other one there, whatever order processes are killed in and whoever
\* gets their identities afterwards.
OwnerIsInside == \A p \in Id : pc[p] \in Critical <=> owner = p

\* The holder file tells the truth to a Replace contender for as long as its
\* writer runs its job, and is gone before the lock is: Release removes it
\* first (flock.go:240-244), so it can never remove the next holder's.  The
\* faults of the others do not matter to a process that has none.
HolderFileIsTrue ==
  \A p \in Id \ Faulty :
    /\ pc[p] \in {"held", "remove"} => holder = p
    /\ pc[p] = "unlock" => holder = None

Abstract == INSTANCE JobMutex WITH Proc <- Id, inside <- Inside

\* Two processes never have a Handle at once (locks/lock.go:20-27).
ImplementsJobMutex == Abstract!Spec
=============================================================================
