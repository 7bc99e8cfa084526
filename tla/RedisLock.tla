----------------------------- MODULE RedisLock -----------------------------
(***************************************************************************)
(* The Redis lock backend (go/internal/locks/redis) for one key: SET NX EX *)
(* with a fresh token, and the two scripts that release and refresh only   *)
(* when the stored token is the caller's.  Redis is external: an entry     *)
(* whose time to live is over is absent.  A command may run after its      *)
(* caller has given up on it, or never.                                    *)
(***************************************************************************)
EXTENDS Naturals, FiniteSets

CONSTANTS
  Proc,    \* the processes that use the lock, on any host
  Token,   \* the random tokens
  Ttl,     \* the ttl they pass to Acquire
  None     \* no token

ASSUME RedisAssumption ==
  /\ Ttl \in Nat \ {0}
  /\ None \notin Token

VARIABLES
  entry,    \* the token stored under the key
  left,     \* what is left of the entry's time to live
  handle,   \* the token of the Handle each process has
  since,    \* time since its last SET or EXPIRE took effect, up to Ttl
  late      \* scripts whose caller has stopped waiting and that may still run

redisVars == <<entry, left, handle, since, late>>

Script == [op : {"release", "refresh"}, token : Token]

\* A token nobody else has: newToken draws 128 random bits.
Fresh ==
  Token \ ({entry} \cup {handle[p] : p \in Proc} \cup {s.token : s \in late})

\* The processes whose lease, counted from its last SET or EXPIRE, runs.
Leased == {p \in Proc : handle[p] # None /\ since[p] < Ttl}

-----------------------------------------------------------------------------
Init ==
  /\ entry = None
  /\ left = 0
  /\ handle = [p \in Proc |-> None]
  /\ since = [p \in Proc |-> 0]
  /\ late = {}

(* What Redis executes.                                                    *)

\* SET key t NX EX ttl.
SetNX(t) ==
  /\ entry = None
  /\ entry' = t
  /\ left' = Ttl

\* DEL without the fence.
RunReleaseUnfenced(t) == entry' = None /\ left' = 0

\* GET = t, then DEL.
RunRelease(t) ==
  IF entry = t THEN entry' = None /\ left' = 0 ELSE UNCHANGED <<entry, left>>

\* EXPIRE without the fence.
RunRefreshUnfenced(t) ==
  /\ left' = IF entry = None THEN 0 ELSE Ttl
  /\ since' = [p \in Proc |-> IF handle[p] = t THEN 0 ELSE since[p]]
  /\ UNCHANGED entry

\* GET = t, then EXPIRE; whoever has the token has its lease renewed.
RunRefresh(t) ==
  IF entry = t
    THEN /\ left' = Ttl
         /\ since' = [p \in Proc |-> IF handle[p] = t THEN 0 ELSE since[p]]
         /\ UNCHANGED entry
    ELSE UNCHANGED <<entry, left, since>>

(* The operations.                                                         *)

\* Acquire: on success a Handle; ErrContended, or an error, changes nothing.
Acquire(p) ==
  /\ handle[p] = None
  /\ \E t \in Fresh : SetNX(t) /\ handle' = [handle EXCEPT ![p] = t]
  /\ since' = [since EXCEPT ![p] = 0]
  /\ UNCHANGED late

\* The SET takes effect, its reply is lost: Acquire returns an error.
AcquireLost(p) ==
  /\ handle[p] = None
  /\ \E t \in Fresh : SetNX(t)
  /\ UNCHANGED <<handle, since, late>>

\* The Handle counts as released even when its script runs late or never.
Release(p) ==
  /\ handle[p] # None
  /\ handle' = [handle EXCEPT ![p] = None]
  /\ since' = [since EXCEPT ![p] = 0]
  /\ \/ RunRelease(handle[p]) /\ UNCHANGED late
     \/ /\ late' = late \cup {[op |-> "release", token |-> handle[p]]}
        /\ UNCHANGED <<entry, left>>

\* On a lost lock, as on a late reply, the caller gets an error.
Refresh(p) ==
  /\ handle[p] # None
  /\ UNCHANGED handle
  /\ \/ RunRefresh(handle[p]) /\ UNCHANGED late
     \/ /\ late' = late \cup {[op |-> "refresh", token |-> handle[p]]}
        /\ UNCHANGED <<entry, left, since>>

\* The process dies with its Handle; the entry stays until it expires.
Die(p) ==
  /\ handle[p] # None
  /\ handle' = [handle EXCEPT ![p] = None]
  /\ since' = [since EXCEPT ![p] = 0]
  /\ UNCHANGED <<entry, left, late>>

\* A script its caller has given up on reaches Redis, or is lost.
Late(s) ==
  /\ late' = late \ {s}
  /\ UNCHANGED handle
  /\ \/ s.op = "release" /\ RunRelease(s.token) /\ UNCHANGED since
     \/ s.op = "refresh" /\ RunRefresh(s.token)
     \/ UNCHANGED <<entry, left, since>>

\* An entry without a time to live.
TickForEver ==
  /\ left' = IF left = 0 THEN 0 ELSE left - 1
  /\ since' = [p \in Proc |-> IF handle[p] # None /\ since[p] < Ttl
                                THEN since[p] + 1 ELSE since[p]]
  /\ UNCHANGED <<entry, handle, late>>

\* One unit of time; Redis drops the entry when its time to live is over.
Tick ==
  /\ left' = IF left = 0 THEN 0 ELSE left - 1
  /\ entry' = IF left <= 1 THEN None ELSE entry
  /\ since' = [p \in Proc |-> IF handle[p] # None /\ since[p] < Ttl
                                THEN since[p] + 1 ELSE since[p]]
  /\ UNCHANGED <<handle, late>>

Next ==
  \/ \E p \in Proc :
       Acquire(p) \/ AcquireLost(p) \/ Release(p) \/ Refresh(p) \/ Die(p)
  \/ \E s \in late : Late(s)
  \/ Tick

Spec == Init /\ [][Next]_redisVars

FairSpec == Spec /\ WF_redisVars(Tick)

-----------------------------------------------------------------------------
\* An entry has between 1 and Ttl units to live, an absent one none.
TypeOK ==
  /\ entry \in Token \cup {None}
  /\ left \in 0..Ttl
  /\ handle \in [Proc -> Token \cup {None}]
  /\ since \in [Proc -> 0..Ttl]
  /\ late \subseteq Script
  /\ entry = None <=> left = 0

\* A process whose lease runs has the entry, for exactly as long as its own
\* count of the time says, and the token of an entry is nobody else's: the
\* fences of Release and Refresh (redis.go:26-29) let no other process end
\* or shift its lease.
LeaseIsEntry ==
  \A p \in Proc :
    /\ p \in Leased => entry = handle[p] /\ left = Ttl - since[p]
    /\ entry # None /\ entry = handle[p] => p \in Leased
    /\ \A q \in Proc \ {p} : handle[p] # None => handle[p] # handle[q]

LeaseMutex == INSTANCE JobMutex WITH inside <- Leased

\* While the leases run, two processes never have one at once.
LeasesExclude == LeaseMutex!Spec

\* "a crashed shim cannot leak the lock past its expiry" (redis.go:23-24), nor
\* can a lost reply: an entry that no process has the token of goes away.
OrphanExpires ==
  \A t \in Token :
    entry = t /\ (\A p \in Proc : handle[p] # t) ~> entry # t
=============================================================================
