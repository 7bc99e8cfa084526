----------------------------- MODULE RedisFire -----------------------------
(***************************************************************************)
(* A Forbid fire of trigger.Run (go/internal/trigger/shim.go) over the     *)
(* Redis lock, with time: what an attempt and a backoff may take against   *)
(* the lock's time to live.  The shim never calls Refresh.  Its own steps  *)
(* take no time; an attempt lasts at most Timeout, a backoff what          *)
(* computeBackoff says.                                                    *)
(***************************************************************************)
EXTENDS RedisLock, Backoff

CONSTANTS
  Timeout,       \* policy.timeout_seconds
  Headroom,      \* the 30s of shim.go:201
  MaxAttempts,   \* policy.retries.max_attempts
  MinBackoff,    \* policy.retries.min_seconds
  MaxBackoff,    \* policy.retries.max_seconds
  Pause          \* the backoff after each attempt

ASSUME RedisFireAssumption ==
  /\ Timeout \in Nat \ {0} /\ Headroom \in Nat \ {0}
  /\ MaxAttempts \in Nat \ {0}
  /\ Pause \in [1..MaxAttempts -> Nat]
  /\ Ttl = Timeout + Headroom

ASSUME PauseAssumption ==
  /\ MinBackoff \in Nat /\ MaxBackoff \in Nat
  /\ \A n \in 1..MaxAttempts :
       Pause[n] = ComputeBackoff(n, MinBackoff, MaxBackoff)

VARIABLES
  phase,     \* where each shim is
  attempt,   \* the attempts it has sent
  timer      \* what is left of its attempt's timeout, or of its backoff

fireVars == <<redisVars, phase, attempt, timer>>

Firing == {"inflight", "backoff"}

Becomes(p, ph, t) ==
  /\ phase' = [phase EXCEPT ![p] = ph]
  /\ timer' = [timer EXCEPT ![p] = t]

-----------------------------------------------------------------------------
FireInit ==
  /\ Init
  /\ phase = [p \in Proc |-> "none"]
  /\ attempt = [p \in Proc |-> 0]
  /\ timer = [p \in Proc |-> 0]

\* The scheduler fires and the lock is free: the first attempt goes out.
Start(p) ==
  /\ phase[p] = "none"
  /\ Acquire(p)
  /\ Becomes(p, "inflight", Timeout)
  /\ attempt' = [attempt EXCEPT ![p] = 1]

\* The fire that is turned away, or fails, leaves at most a lost SET behind.
StartFails(p) ==
  /\ phase[p] = "none"
  /\ AcquireLost(p)
  /\ UNCHANGED <<phase, attempt, timer>>

\* 2xx or 4xx, or the last attempt has failed: Run returns, Release is next.
Finish(p) ==
  /\ phase[p] = "inflight"
  /\ Becomes(p, "returned", 0)
  /\ UNCHANGED <<redisVars, attempt>>

\* The attempt fails and is not the last.
BackOff(p) ==
  /\ phase[p] = "inflight" /\ attempt[p] < MaxAttempts
  /\ Becomes(p, "backoff", Pause[attempt[p]])
  /\ UNCHANGED <<redisVars, attempt>>

Retry(p) ==
  /\ phase[p] = "backoff" /\ timer[p] = 0
  /\ Becomes(p, "inflight", Timeout)
  /\ attempt' = [attempt EXCEPT ![p] = @ + 1]
  /\ UNCHANGED redisVars

DeferredRelease(p) ==
  /\ phase[p] = "returned"
  /\ Release(p)
  /\ Becomes(p, "none", 0)
  /\ attempt' = [attempt EXCEPT ![p] = 0]

Killed(p) ==
  /\ Die(p)
  /\ Becomes(p, "none", 0)
  /\ attempt' = [attempt EXCEPT ![p] = 0]

LateScript ==
  /\ \E s \in late : Late(s)
  /\ UNCHANGED <<phase, attempt, timer>>

\* Time passes while no timer has run out and nobody is about to release.
Pass ==
  /\ \A p \in Proc : IF phase[p] \in Firing THEN timer[p] > 0
                                            ELSE phase[p] # "returned"
  /\ Tick
  /\ timer' = [p \in Proc |-> IF phase[p] \in Firing THEN timer[p] - 1 ELSE 0]
  /\ UNCHANGED <<phase, attempt>>

FireNext ==
  \/ \E p \in Proc :
       \/ Start(p) \/ StartFails(p) \/ Finish(p) \/ BackOff(p) \/ Retry(p)
       \/ DeferredRelease(p) \/ Killed(p)
  \/ LateScript
  \/ Pass

FireSpec == FireInit /\ [][FireNext]_fireVars

-----------------------------------------------------------------------------
\* A shim has a Handle from its first attempt to its release, and backs off
\* only while an attempt is left.
FireTypeOK ==
  /\ TypeOK
  /\ phase \in [Proc -> {"none", "returned"} \cup Firing]
  /\ attempt \in [Proc -> 0..MaxAttempts]
  /\ timer \in [Proc -> Nat]
  /\ \A p \in Proc :
       /\ phase[p] # "none" <=> handle[p] # None
       /\ phase[p] # "none" => attempt[p] > 0
       /\ phase[p] = "backoff" => attempt[p] < MaxAttempts

\* "TTL = timeout + headroom so the shim cannot outlive its own lock."
\* (shim.go:200): no shim sends or waits on a lease that has run out.
ShimWithinLease ==
  \A p \in Proc : phase[p] # "none" => p \in Leased

\* "only one shim will hold the Redis lock at a time" (concurrency.md:88), and
\* it is the only one that fires.
OneFire ==
  \A p, q \in Proc : phase[p] # "none" /\ phase[q] # "none" => p = q
=============================================================================
