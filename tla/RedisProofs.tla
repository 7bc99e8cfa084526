---------------------------- MODULE RedisProofs ----------------------------
(***************************************************************************)
(* The safety of RedisLock for any processes, tokens and time to live: a   *)
(* lease that runs is the entry, so two leases never run at once.  And     *)
(* when a Forbid fire over the lock is safe: if all its attempts and       *)
(* backoffs fit in the time to live, no shim outlives its lock and no two  *)
(* fire at once.  The shim takes the time to live from one attempt only    *)
(* (shim.go:201), so the condition is one on the manifest.                 *)
(***************************************************************************)
EXTENDS RedisFire, TLAPS

\* What makes LeaseIsEntry inductive: a release that is still to run cannot
\* hit anybody, because the token it carries is no process's any more.
LateIsHarmless ==
  \A s \in late : s.op = "release" => \A p \in Proc : handle[p] # s.token

RedisInv == TypeOK /\ LeaseIsEntry /\ LateIsHarmless

\* A step of a process, of a late script, or of time.
LEMMA RedisCases ==
  ASSUME Next
  PROVE  \/ \E p \in Proc : \/ Acquire(p) \/ AcquireLost(p) \/ Release(p)
                            \/ Refresh(p) \/ Die(p)
         \/ \E s \in late : Late(s)
         \/ Tick
  BY DEF Next

\* A release that reaches Redis leaves the leases of others alone.
LEMMA RedisTypes == RedisInv /\ [Next]_redisVars => TypeOK'
  <1> SUFFICES ASSUME RedisInv, [Next]_redisVars PROVE TypeOK'
    OBVIOUS
  <1> USE RedisAssumption DEF RedisInv, TypeOK, Script, Fresh
  <1>1. ASSUME NEW p \in Proc, Acquire(p) PROVE TypeOK'
    BY <1>1 DEF Acquire, SetNX
  <1>2. ASSUME NEW p \in Proc, AcquireLost(p) PROVE TypeOK'
    BY <1>2 DEF AcquireLost, SetNX
  <1>3. ASSUME NEW p \in Proc, Release(p) PROVE TypeOK'
    BY <1>3 DEF Release, RunRelease
  <1>4. ASSUME NEW p \in Proc, Refresh(p) PROVE TypeOK'
    BY <1>4 DEF Refresh, RunRefresh
  <1>5. ASSUME NEW p \in Proc, Die(p) PROVE TypeOK'
    BY <1>5 DEF Die
  <1>6. ASSUME NEW s \in late, Late(s) PROVE TypeOK'
    BY <1>6 DEF Late, RunRelease, RunRefresh
  <1>7. CASE Tick
    BY <1>7 DEF Tick
  <1>8. CASE UNCHANGED redisVars
    BY <1>8 DEF redisVars
  <1> QED BY <1>1, <1>2, <1>3, <1>4, <1>5, <1>6, <1>7, <1>8, RedisCases

LEMMA RedisLate == RedisInv /\ [Next]_redisVars => LateIsHarmless'
  <1> SUFFICES ASSUME RedisInv, [Next]_redisVars PROVE LateIsHarmless'
    OBVIOUS
  <1> USE RedisAssumption DEF RedisInv, TypeOK, Script, Fresh, LateIsHarmless
  <1>1. ASSUME NEW p \in Proc, Acquire(p) PROVE LateIsHarmless'
    BY <1>1 DEF Acquire, SetNX
  <1>2. ASSUME NEW p \in Proc, AcquireLost(p) PROVE LateIsHarmless'
    BY <1>2 DEF AcquireLost
  <1>3. ASSUME NEW p \in Proc, Release(p) PROVE LateIsHarmless'
    BY <1>3 DEF Release, LeaseIsEntry
  <1>4. ASSUME NEW p \in Proc, Refresh(p) PROVE LateIsHarmless'
    BY <1>4 DEF Refresh
  <1>5. ASSUME NEW p \in Proc, Die(p) PROVE LateIsHarmless'
    BY <1>5 DEF Die
  <1>6. ASSUME NEW s \in late, Late(s) PROVE LateIsHarmless'
    BY <1>6 DEF Late
  <1>7. CASE Tick
    BY <1>7 DEF Tick
  <1>8. CASE UNCHANGED redisVars
    BY <1>8 DEF redisVars
  <1> QED BY <1>1, <1>2, <1>3, <1>4, <1>5, <1>6, <1>7, <1>8, RedisCases

LEMMA RedisLease == RedisInv /\ [Next]_redisVars => LeaseIsEntry'
  <1> SUFFICES ASSUME RedisInv, [Next]_redisVars PROVE LeaseIsEntry'
    OBVIOUS
  <1> USE RedisAssumption
      DEF RedisInv, TypeOK, Script, Fresh, LeaseIsEntry, Leased
  <1>1. ASSUME NEW p \in Proc, Acquire(p) PROVE LeaseIsEntry'
    BY <1>1 DEF Acquire, SetNX
  <1>2. ASSUME NEW p \in Proc, AcquireLost(p) PROVE LeaseIsEntry'
    BY <1>2 DEF AcquireLost, SetNX
  <1>3. ASSUME NEW p \in Proc, Release(p) PROVE LeaseIsEntry'
    BY <1>3 DEF Release, RunRelease
  <1>4. ASSUME NEW p \in Proc, Refresh(p) PROVE LeaseIsEntry'
    BY <1>4 DEF Refresh, RunRefresh
  <1>5. ASSUME NEW p \in Proc, Die(p) PROVE LeaseIsEntry'
    BY <1>5 DEF Die
  <1>6. ASSUME NEW s \in late, Late(s) PROVE LeaseIsEntry'
    BY <1>6 DEF Late, RunRelease, RunRefresh, LateIsHarmless
  <1>7. CASE Tick
    BY <1>7 DEF Tick
  <1>8. CASE UNCHANGED redisVars
    BY <1>8 DEF redisVars
  <1> QED BY <1>1, <1>2, <1>3, <1>4, <1>5, <1>6, <1>7, <1>8, RedisCases

LEMMA RedisInit == Init => RedisInv
  BY RedisAssumption
     DEF Init, RedisInv, TypeOK, LeaseIsEntry, LateIsHarmless, Leased

LEMMA RedisInvariant == Spec => []RedisInv
  <1>1. RedisInv /\ [Next]_redisVars => RedisInv'
    BY RedisTypes, RedisLate, RedisLease DEF RedisInv
  <1> QED BY RedisInit, <1>1, PTL DEF Spec

\* The state of the lock keeps its shape for any processes, tokens and time to
\* live: a handle is a token, no clock passes Ttl, and an entry that has no time
\* left is gone.
THEOREM RedisTypeCorrect == Spec => []TypeOK
  <1>1. RedisInv => TypeOK
    BY DEF RedisInv
  <1> QED BY <1>1, RedisInvariant, PTL

\* A process whose lease runs has the entry for exactly the time it counts.
THEOREM LeaseCorrect == Spec => []LeaseIsEntry
  <1>1. RedisInv => LeaseIsEntry
    BY DEF RedisInv
  <1> QED BY RedisInvariant, <1>1, PTL

-----------------------------------------------------------------------------
\* Every step of the lock changes the set of running leases as JobMutex does:
\* SET NX enters an empty lock; a release, a death and the end of the time to
\* live take the one lease away; a refresh finds its lease running.
LEMMA LeaseStep == RedisInv /\ [Next]_redisVars => [LeaseMutex!Next]_Leased
  <1> SUFFICES ASSUME RedisInv, [Next]_redisVars
               PROVE LeaseMutex!Next \/ Leased' = Leased
    OBVIOUS
  <1> USE RedisAssumption DEF RedisInv, TypeOK, LeaseIsEntry, Leased
  <1>1. ASSUME NEW p \in Proc, Acquire(p) PROVE LeaseMutex!Next
    <2>1. Leased = {}
      BY <1>1 DEF Acquire, SetNX
    <2>2. Leased' = {p}
      BY <1>1, <2>1 DEF Acquire, SetNX, Fresh
    <2> QED BY <2>1, <2>2 DEF LeaseMutex!Next, LeaseMutex!Enter
  <1>2. ASSUME NEW p \in Proc, AcquireLost(p) PROVE Leased' = Leased
    BY <1>2 DEF AcquireLost
  <1>3. ASSUME NEW p \in Proc, Release(p) \/ Die(p)
        PROVE LeaseMutex!Next \/ Leased' = Leased
    <2>1. Leased' = Leased \ {p}
      BY <1>3 DEF Release, Die
    <2> QED BY <2>1 DEF LeaseMutex!Next, LeaseMutex!Leave
  <1>4. ASSUME NEW p \in Proc, Refresh(p) PROVE Leased' = Leased
    BY <1>4 DEF Refresh, RunRefresh
  <1>5. ASSUME NEW s \in late, Late(s) PROVE Leased' = Leased
    BY <1>5 DEF Late, RunRefresh, Script
  <1>6. CASE Tick
    <2>1. Leased' \subseteq Leased
      BY <1>6 DEF Tick
    <2>2. \A p, q \in Leased : p = q
      OBVIOUS
    <2>3. CASE Leased' # Leased
      <3> PICK p \in Leased : p \notin Leased'
        BY <2>1, <2>3
      <3>1. Leased' = Leased \ {p}
        BY <2>1, <2>2
      <3> QED BY <3>1 DEF LeaseMutex!Next, LeaseMutex!Leave
    <2> QED BY <2>3
  <1>7. CASE UNCHANGED redisVars
    BY <1>7 DEF redisVars
  <1> QED BY <1>1, <1>2, <1>3, <1>4, <1>5, <1>6, <1>7, RedisCases

\* The Redis lock is a mutual-exclusion lock of the processes whose lease runs,
\* whatever scripts run late and whoever dies.
THEOREM LeasesAreExclusive == Spec => LeasesExclude
  <1>1. Init => LeaseMutex!Init
    BY DEF Init, Leased, LeaseMutex!Init
  <1> QED BY <1>1, LeaseStep, RedisInvariant, PTL
          DEF Spec, LeasesExclude, LeaseMutex!Spec

-----------------------------------------------------------------------------
(* A fire over the lock.                                                   *)

\* E[a]: the longest a fire may have lasted when its attempt a goes out.
IsElapsed(E) ==
  /\ E \in [1..MaxAttempts -> Nat]
  /\ E[1] = 0
  /\ \A a \in 1..MaxAttempts : a < MaxAttempts =>
       E[a + 1] = E[a] + Timeout + Pause[a]

\* The last attempt ends, at the latest, before the lock expires.
Fits(E) == \A a \in 1..MaxAttempts : E[a] + Timeout < Ttl

\* How long the shim p can have had its lock, by where it is.
Within(E, p) ==
  /\ phase[p] = "inflight" => since[p] + timer[p] <= E[attempt[p]] + Timeout
  /\ phase[p] = "backoff" =>
       since[p] + timer[p] <= E[attempt[p]] + Timeout + Pause[attempt[p]]
  /\ phase[p] = "returned" => since[p] <= E[attempt[p]] + Timeout

WithinBudget(E) == \A p \in Proc : Within(E, p)

-----------------------------------------------------------------------------
\* A shim uses the lock only through its operations.
LEMMA FireIsRedis == [FireNext]_fireVars => [Next]_redisVars
  BY DEF FireNext, fireVars, Next, redisVars, Start, StartFails, Finish,
         BackOff, Retry, DeferredRelease, Killed, LateScript, Pass

LEMMA FireRedisInv == FireSpec => []RedisInv
  <1>1. FireInit => Init
    BY DEF FireInit
  <1>2. FireSpec => Spec
    BY <1>1, FireIsRedis, PTL DEF FireSpec, Spec
  <1> QED BY <1>2, RedisInvariant, PTL

LEMMA FireTypeStep ==
    RedisInv /\ FireTypeOK /\ [FireNext]_fireVars => FireTypeOK'
  <1> SUFFICES ASSUME RedisInv, FireTypeOK, [FireNext]_fireVars
               PROVE FireTypeOK'
    OBVIOUS
  <1>0. TypeOK'
    BY FireIsRedis, RedisTypes
  <1> USE <1>0, RedisAssumption, RedisFireAssumption
      DEF FireTypeOK, TypeOK, Becomes, Firing
  <1>1. ASSUME NEW p \in Proc, Start(p) PROVE FireTypeOK'
    BY <1>1 DEF Start, Acquire, Fresh
  <1>2. ASSUME NEW p \in Proc, StartFails(p) PROVE FireTypeOK'
    BY <1>2 DEF StartFails, AcquireLost
  <1>3. ASSUME NEW p \in Proc, Finish(p) PROVE FireTypeOK'
    BY <1>3 DEF Finish, redisVars
  <1>4. ASSUME NEW p \in Proc, BackOff(p) PROVE FireTypeOK'
    BY <1>4 DEF BackOff, redisVars
  <1>5. ASSUME NEW p \in Proc, Retry(p) PROVE FireTypeOK'
    BY <1>5 DEF Retry, redisVars
  <1>6. ASSUME NEW p \in Proc, DeferredRelease(p) PROVE FireTypeOK'
    BY <1>6 DEF DeferredRelease, Release
  <1>7. ASSUME NEW p \in Proc, Killed(p) PROVE FireTypeOK'
    BY <1>7 DEF Killed, Die
  <1>8. CASE LateScript
    BY <1>8 DEF LateScript, Late
  <1>9. CASE Pass
    BY <1>9 DEF Pass, Tick
  <1>10. CASE UNCHANGED fireVars
    BY <1>10 DEF fireVars, redisVars
  <1> QED BY <1>1, <1>2, <1>3, <1>4, <1>5, <1>6, <1>7, <1>8, <1>9, <1>10
          DEF FireNext

\* A shim has a Handle from its first attempt to its release.
THEOREM FireTypeCorrect == FireSpec => []FireTypeOK
  <1>1. FireInit => FireTypeOK
    BY RedisAssumption, RedisFireAssumption
       DEF FireInit, Init, FireTypeOK, TypeOK, Firing
  <1> QED BY <1>1, FireTypeStep, FireRedisInv, PTL DEF FireSpec

-----------------------------------------------------------------------------
\* The numbers of a fire under way.
LEMMA FireNumbers ==
  ASSUME NEW E, IsElapsed(E), FireTypeOK, NEW p \in Proc, phase[p] # "none"
  PROVE  /\ attempt[p] \in 1..MaxAttempts
         /\ since[p] \in 0..Ttl /\ timer[p] \in Nat
         /\ E[attempt[p]] \in Nat /\ Pause[attempt[p]] \in Nat
         /\ phase[p] = "backoff" =>
              /\ attempt[p] + 1 \in 1..MaxAttempts
              /\ E[attempt[p] + 1]
                   = E[attempt[p]] + Timeout + Pause[attempt[p]]
  <1>1. since[p] \in 0..Ttl /\ timer[p] \in Nat
    BY DEF FireTypeOK, TypeOK
  <1>2. attempt[p] \in 1..MaxAttempts
    BY RedisFireAssumption DEF FireTypeOK
  <1>3. E[attempt[p]] \in Nat /\ Pause[attempt[p]] \in Nat
    BY <1>2, RedisFireAssumption DEF IsElapsed
  <1>4. ASSUME phase[p] = "backoff"
        PROVE  /\ attempt[p] + 1 \in 1..MaxAttempts
               /\ E[attempt[p] + 1]
                    = E[attempt[p]] + Timeout + Pause[attempt[p]]
    <2>1. attempt[p] < MaxAttempts
      BY <1>4 DEF FireTypeOK
    <2>2. attempt[p] + 1 \in 1..MaxAttempts
      BY <1>2, <2>1, RedisFireAssumption
    <2>3. \A a \in 1..MaxAttempts : a < MaxAttempts =>
            E[a + 1] = E[a] + Timeout + Pause[a]
      BY DEF IsElapsed
    <2> QED BY <1>2, <2>1, <2>2, <2>3
  <1> QED BY <1>1, <1>2, <1>3, <1>4

\* A shim that stays where it is keeps to its budget while its clock and its
\* timer move together.
LEMMA StaysWithin ==
  ASSUME NEW E, IsElapsed(E), FireTypeOK, NEW q \in Proc, Within(E, q),
         phase'[q] = phase[q], attempt'[q] = attempt[q],
         since'[q] \in Nat, timer'[q] \in Nat,
         phase[q] \in Firing => since'[q] + timer'[q] <= since[q] + timer[q],
         phase[q] = "returned" => since'[q] <= since[q]
  PROVE  Within(E, q)'
  <1>1. CASE phase[q] = "none"
    BY <1>1 DEF Within
  <1>2. CASE phase[q] # "none"
    <2> DEFINE e == E[attempt[q]]
               w == Pause[attempt[q]]
    <2>1. /\ e \in Nat /\ w \in Nat /\ Timeout \in Nat
          /\ since[q] \in Nat /\ timer[q] \in Nat
      BY <1>2, FireNumbers, RedisAssumption, RedisFireAssumption
    <2>2. /\ E[attempt'[q]] = e /\ Pause[attempt'[q]] = w
      OBVIOUS
    <2> HIDE DEF e, w
    <2>3. /\ phase[q] = "inflight" => since[q] + timer[q] <= e + Timeout
          /\ phase[q] = "backoff" => since[q] + timer[q] <= e + Timeout + w
          /\ phase[q] = "returned" => since[q] <= e + Timeout
      BY DEF Within, e, w
    <2>4. /\ phase[q] = "inflight" => since'[q] + timer'[q] <= e + Timeout
          /\ phase[q] = "backoff" => since'[q] + timer'[q] <= e + Timeout + w
          /\ phase[q] = "returned" => since'[q] <= e + Timeout
      BY <2>1, <2>3, RedisFireAssumption DEF Firing
    <2> QED BY <2>2, <2>4 DEF Within
  <1> QED BY <1>1, <1>2

LEMMA BudgetStep ==
  ASSUME NEW E, IsElapsed(E), FireTypeOK, FireTypeOK', WithinBudget(E),
         [FireNext]_fireVars
  PROVE  WithinBudget(E)'
  <1> SUFFICES ASSUME NEW q \in Proc PROVE Within(E, q)'
    BY DEF WithinBudget
  <1>0. Within(E, q) /\ since[q] \in Nat /\ since'[q] \in Nat
                     /\ timer[q] \in Nat /\ timer'[q] \in Nat
    BY RedisAssumption DEF WithinBudget, FireTypeOK, TypeOK
  <1>1. CASE /\ phase'[q] = phase[q] /\ attempt'[q] = attempt[q]
             /\ timer'[q] = timer[q] /\ since'[q] \in {0, since[q]}
    BY <1>0, <1>1, StaysWithin
  <1>2. CASE phase'[q] = "none"
    BY <1>2 DEF Within
  <1>3. ASSUME NEW p \in Proc, p # q,
               \/ Start(p) \/ Finish(p) \/ BackOff(p) \/ Retry(p)
               \/ DeferredRelease(p) \/ Killed(p)
        PROVE  Within(E, q)'
    <2> /\ phase'[q] = phase[q] /\ attempt'[q] = attempt[q]
        /\ timer'[q] = timer[q] /\ since'[q] \in {0, since[q]}
      BY <1>3 DEF FireTypeOK, TypeOK, Start, Acquire, Finish, BackOff, Retry,
           DeferredRelease, Release, Killed, Die, Becomes, redisVars
    <2> QED BY <1>1
  <1>4. CASE Start(q)
    <2>1. /\ phase'[q] = "inflight" /\ attempt'[q] = 1
          /\ since'[q] = 0 /\ timer'[q] = Timeout
      BY <1>4 DEF Start, Acquire, Becomes, FireTypeOK, TypeOK
    <2> QED BY <2>1, RedisFireAssumption DEF Within, IsElapsed
  <1>5. CASE Finish(q)
    <2>1. /\ phase[q] = "inflight" /\ phase'[q] = "returned"
          /\ attempt'[q] = attempt[q] /\ since'[q] = since[q]
      BY <1>5 DEF Finish, Becomes, redisVars, FireTypeOK
    <2>2. E[attempt[q]] \in Nat
      BY <2>1, FireNumbers
    <2>3. since[q] + timer[q] <= E[attempt[q]] + Timeout
      BY <1>0, <2>1 DEF Within
    <2>4. since'[q] <= E[attempt'[q]] + Timeout
      BY <1>0, <2>1, <2>2, <2>3, RedisFireAssumption
    <2> QED BY <2>1, <2>4 DEF Within
  <1>6. CASE BackOff(q)
    <2>1. /\ phase[q] = "inflight" /\ phase'[q] = "backoff"
          /\ attempt'[q] = attempt[q] /\ since'[q] = since[q]
          /\ timer'[q] = Pause[attempt[q]]
      BY <1>6 DEF BackOff, Becomes, redisVars, FireTypeOK
    <2>2. E[attempt[q]] \in Nat /\ Pause[attempt[q]] \in Nat
      BY <2>1, FireNumbers
    <2>3. since[q] + timer[q] <= E[attempt[q]] + Timeout
      BY <1>0, <2>1 DEF Within
    <2>4. since'[q] + timer'[q]
            <= E[attempt'[q]] + Timeout + Pause[attempt'[q]]
      BY <1>0, <2>1, <2>2, <2>3, RedisFireAssumption
    <2> QED BY <2>1, <2>4 DEF Within
  <1>7. CASE Retry(q)
    <2>1. /\ phase[q] = "backoff" /\ phase'[q] = "inflight" /\ timer[q] = 0
          /\ attempt'[q] = attempt[q] + 1 /\ since'[q] = since[q]
          /\ timer'[q] = Timeout
      BY <1>7 DEF Retry, Becomes, redisVars, FireTypeOK
    <2>2. since[q] <= E[attempt[q]] + Timeout + Pause[attempt[q]]
      BY <1>0, <2>1 DEF Within
    <2>3. since[q] <= E[attempt[q] + 1] /\ E[attempt[q] + 1] \in Nat
      <3>1. attempt[q] + 1 \in 1..MaxAttempts
        BY <2>1, FireNumbers
      <3>2. E[attempt[q] + 1] \in Nat
        BY <3>1 DEF IsElapsed
      <3> QED BY <2>1, <2>2, <3>2, FireNumbers
    <2>4. since'[q] + timer'[q] <= E[attempt'[q]] + Timeout
      BY <1>0, <2>1, <2>3, RedisFireAssumption
    <2> QED BY <2>1, <2>4 DEF Within
  <1>8. CASE DeferredRelease(q) \/ Killed(q)
    BY <1>2, <1>8 DEF DeferredRelease, Killed, Becomes, FireTypeOK
  <1>9. CASE Pass
    <2>1. /\ phase'[q] = phase[q] /\ attempt'[q] = attempt[q]
          /\ phase[q] # "returned" /\ since'[q] \in {since[q], since[q] + 1}
      BY <1>9 DEF Pass, Tick, Firing
    <2>2. phase[q] \in Firing => timer'[q] = timer[q] - 1 /\ timer[q] > 0
      BY <1>9 DEF Pass
    <2> QED BY <1>0, <2>1, <2>2, StaysWithin
  <1>10. CASE \/ \E p \in Proc : StartFails(p)
              \/ LateScript
              \/ UNCHANGED fireVars
    BY <1>1, <1>10 DEF StartFails, AcquireLost, LateScript, Late, RunRefresh,
         fireVars, redisVars
  <1> QED BY <1>3, <1>4, <1>5, <1>6, <1>7, <1>8, <1>9, <1>10 DEF FireNext

\* If every attempt of a fire ends before the lock's time to live, counted from
\* the acquisition, then no shim sends or waits on a lease that has run out.
THEOREM FittingFireIsWithinLease ==
  ASSUME NEW E, IsElapsed(E), Fits(E)
  PROVE  FireSpec => []ShimWithinLease
  <1>1. FireInit => WithinBudget(E)
    BY DEF FireInit, WithinBudget, Within
  <1>2. FireSpec => []WithinBudget(E)
    BY <1>1, BudgetStep, FireTypeCorrect, PTL DEF FireSpec
  <1>3. FireTypeOK /\ WithinBudget(E) => ShimWithinLease
    <2> SUFFICES ASSUME FireTypeOK, WithinBudget(E), NEW p \in Proc,
                        phase[p] # "none"
                 PROVE since[p] < Ttl
      BY DEF ShimWithinLease, Leased, FireTypeOK
    <2>1. Within(E, p) /\ phase[p] \in {"inflight", "backoff", "returned"}
      BY DEF WithinBudget, FireTypeOK, Firing
    <2>2. Ttl \in Nat /\ Timeout \in Nat
      BY RedisAssumption, RedisFireAssumption
    <2>3. E[attempt[p]] + Timeout < Ttl
      BY FireNumbers DEF Fits
    <2>4. CASE phase[p] = "backoff"
      <3>1. E[attempt[p] + 1] + Timeout < Ttl
        BY <2>4, FireNumbers DEF Fits
      <3> QED BY <2>1, <2>2, <2>4, <3>1, FireNumbers DEF Within
    <2>5. CASE phase[p] # "backoff"
      BY <2>1, <2>2, <2>3, <2>5, FireNumbers DEF Within
    <2> QED BY <2>4, <2>5
  <1> QED BY <1>2, <1>3, FireTypeCorrect, PTL

\* Under the same condition two shims never fire at once, whatever happens to
\* the processes and to their scripts.
THEOREM FittingFireIsAlone ==
  ASSUME NEW E, IsElapsed(E), Fits(E)
  PROVE  FireSpec => []OneFire
  <1>1. LeaseIsEntry /\ ShimWithinLease => OneFire
    <2> SUFFICES ASSUME LeaseIsEntry, ShimWithinLease,
                        NEW p \in Proc, NEW q \in Proc,
                        phase[p] # "none", phase[q] # "none"
                 PROVE p = q
      BY DEF OneFire
    <2>1. p \in Leased /\ q \in Leased
      BY DEF ShimWithinLease
    <2>2. handle[p] = handle[q] /\ handle[p] # None
      BY <2>1 DEF LeaseIsEntry, Leased
    <2> QED BY <2>2 DEF LeaseIsEntry
  <1>2. RedisInv => LeaseIsEntry
    BY DEF RedisInv
  <1> QED BY <1>1, <1>2, FireRedisInv, FittingFireIsWithinLease, PTL

\* A job without retries always fits: the 30 seconds of headroom are positive.
THEOREM SingleAttemptIsAlone ==
  ASSUME MaxAttempts = 1
  PROVE  FireSpec => []OneFire
  <1> DEFINE E == [a \in 1..MaxAttempts |-> 0]
  <1>1. IsElapsed(E)
    BY DEF IsElapsed
  <1>2. Fits(E)
    BY RedisAssumption, RedisFireAssumption DEF Fits
  <1> QED BY <1>1, <1>2, FittingFireIsAlone
=============================================================================
