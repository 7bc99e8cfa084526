------------------------------ MODULE JobMutex ------------------------------
(***************************************************************************)
(* What a lock of go/internal/locks promises its callers, whatever the     *)
(* backend: a process that Acquire has returned a Handle to is alone until *)
(* it calls Release or its process ends ("Acquire takes the lock for       *)
(* `key`"; "Implementations MUST NOT leak the lock if the holder crashes", *)
(* locks/lock.go:20-27).  Flock implements this specification; RedisLock   *)
(* implements it only while every holder finishes within its TTL.          *)
(***************************************************************************)
CONSTANT Proc

VARIABLE inside   \* the processes that hold a Handle they have not released

Init == inside = {}

\* Acquire returns a Handle: nobody else may hold one.
Enter(p) ==
  /\ inside = {}
  /\ inside' = {p}

\* Release, or the end of the holder's process.
Leave(p) ==
  /\ p \in inside
  /\ inside' = inside \ {p}

Next == \E p \in Proc : Enter(p) \/ Leave(p)

Spec == Init /\ [][Next]_inside
=============================================================================
