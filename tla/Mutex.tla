-------------------------------- MODULE Mutex --------------------------------
(***************************************************************************)
(* What utils.Lock(key) promises its callers: a goroutine asks for the     *)
(* lock of one key, waits, holds it alone, and gives it back.              *)
(*                                                                         *)
(* The comment of utils/locks.go, "Lock acquires the lock for key and      *)
(* returns the function that releases it", is the whole contract; how the  *)
(* table of reference counted entries keeps it is module KeyedLock.  The   *)
(* caches that serialise their work with utils.Lock are built on this      *)
(* module and not on KeyedLock.                                            *)
(***************************************************************************)
CONSTANTS Procs,  \* goroutines
          Keys    \* lock names

VARIABLES phase,  \* phase[p]: where p is in Lock(key) ... unlock()
          key     \* key[p]: the key p last asked for

mutexVars == <<phase, key>>

Phases == {"idle", "waiting", "holding"}

TypeOK == /\ phase \in [Procs -> Phases]
          /\ key \in [Procs -> Keys]

Init == /\ phase = [p \in Procs |-> "idle"]
        /\ key \in [Procs -> Keys]

\* The goroutines inside the critical section of key k.
Holders(k) == {p \in Procs : phase[p] = "holding" /\ key[p] = k}

\* Lock(k) is called.
Request(p, k) ==
    /\ phase[p] = "idle"
    /\ phase' = [phase EXCEPT ![p] = "waiting"]
    /\ key' = [key EXCEPT ![p] = k]

\* Lock(k) returns: nobody else is between Lock(k) and unlock().
Acquire(p) ==
    /\ phase[p] = "waiting"
    /\ Holders(key[p]) = {}
    /\ phase' = [phase EXCEPT ![p] = "holding"]
    /\ UNCHANGED key

\* The function that Lock(k) returned is called.
Release(p) ==
    /\ phase[p] = "holding"
    /\ phase' = [phase EXCEPT ![p] = "idle"]
    /\ UNCHANGED key

Next == \E p \in Procs : \/ \E k \in Keys : Request(p, k)
                         \/ Acquire(p)
                         \/ Release(p)

Spec == Init /\ [][Next]_mutexVars
=============================================================================
