------------------------------ MODULE MCLocks ------------------------------
(***************************************************************************)
(* The flock backend and the fires that use it.  One behaviour is either   *)
(* Flock on two hosts that share a lock directory, two identities on one   *)
(* and one on the other, or Trigger with the two shims of one host, which  *)
(* is enough for a contended fire, a replacement and their liveness.       *)
(***************************************************************************)
EXTENDS Trigger

CONSTANTS a1, a2, b1

VARIABLE part     \* what this behaviour is: "lock" or "fires"

MCId == {a1, a2, b1}
MCHostOf == [p \in MCId |-> IF p = b1 THEN "B" ELSE "A"]
Firer == {a1, a2}

-----------------------------------------------------------------------------
locksVars == <<part, allVars>>

LocksInit == part \in {"lock", "fires"} /\ RunInit

LockPart == part = "lock" /\ Next /\ UNCHANGED <<part, runVars>>

Runs(p) == part = "fires" /\ Step(p) /\ UNCHANGED part

Befalls(p) ==
  /\ part = "fires"
  /\ Fault(p) \/ Unrelated(p) \/ \E pol \in Policies : Fire(p, pol)
  /\ UNCHANGED part

LocksNext == LockPart \/ \E p \in Firer : Runs(p) \/ Befalls(p)

\* Trigger!RunFairSpec; nothing obliges a holder outside it to release.
LocksSpec ==
  /\ LocksInit /\ [][LocksNext]_locksVars
  /\ \A p \in Firer : WF_locksVars(Runs(p))

-----------------------------------------------------------------------------
\* The phases of the shims agree with the lock code.
ShimsTypeOK == part = "fires" => RunTypeOK

\* "The shim must release its lock" (DECISIONS.md, D-011): no fire keeps it.
LockComesBack == \A p \in Id : part = "fires" /\ owner = p ~> owner # p

\* Acquire and AcquireOrReplace return, under any interference of the other
\* contenders: no fire waits for the lock for ever.
ContentionEnds ==
  \A p \in Id :
    part = "fires" /\ pc[p] \in Contending ~> pc[p] \notin Contending
=============================================================================
