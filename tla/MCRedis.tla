------------------------------- MODULE MCRedis -------------------------------
(***************************************************************************)
(* The Redis lock by itself, under whoever calls its operations, or under  *)
(* the shims of a job whose fires fit in the time to live: one of the two  *)
(* per behaviour, with a token per process, one in the entry and one in a  *)
(* late script.                                                            *)
(***************************************************************************)
EXTENDS RedisFire, TLC

VARIABLE part   \* what this behaviour is

MCPause == [n \in 1..MaxAttempts |-> ComputeBackoff(n, MinBackoff, MaxBackoff)]

MCInit == part \in {"lock", "fire"} /\ FireInit

LockStep == Next /\ UNCHANGED <<phase, attempt, timer>>

MCNext ==
  /\ UNCHANGED part
  /\ \/ part = "lock" /\ LockStep
     \/ part = "fire" /\ FireNext

\* FairSpec, for the lock by itself.
MCSpec ==
  /\ MCInit /\ [][MCNext]_<<part, fireVars>>
  /\ WF_redisVars(part = "lock" /\ Tick)

-----------------------------------------------------------------------------
\* "a crashed shim cannot leak the lock past its expiry" (redis.go:23-24), nor
\* can a lost reply: an entry that no process has the token of goes away.
OrphansExpire == part = "lock" => OrphanExpires
=============================================================================
