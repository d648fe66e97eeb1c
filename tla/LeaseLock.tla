------------------------------ MODULE LeaseLock ------------------------------
(***************************************************************************)
(* remotecache.Lock and Release: a lock key in redis that expires after    *)
(* lockTTL (backend/remotecache/lock.go, client.go).                       *)
(*                                                                         *)
(* A worker that cannot get the lock, because lockWait is over, redis      *)
(* fails or its context has ended, is told so and, in all callers, goes on *)
(* without it; one whose work outruns lockTTL has lost it unaware.         *)
(*                                                                         *)
(* External: redis and bsm/redislock.  Obtain is SET NX with a token of    *)
(* its own, Release deletes the key only while it holds that token.  The   *)
(* value of the lock key is modelled by the worker whose call set it; a    *)
(* token of an earlier call of that worker is as good as a stranger's, and *)
(* it has to expire before the worker can obtain the lock again.           *)
(***************************************************************************)
CONSTANTS Procs,   \* workers
          Keys,    \* lock keys
          NoProc,  \* "lock key absent"
          NoKey    \* "lock is nil"

LeaseAssumption == NoProc \notin Procs /\ NoKey \notin Keys

VARIABLES lock,    \* lock[k]: whose token the lock key k holds in redis
          held,    \* held[p]: the key p was given the lock of, in this call
          lapsed   \* the workers whose lease ran out while held (history)

leaseVars == <<lock, held, lapsed>>

TypeOK == /\ lock \in [Keys -> Procs \cup {NoProc}]
          /\ held \in [Procs -> Keys \cup {NoKey}]
          /\ lapsed \in SUBSET {p \in Procs : held[p] # NoKey}

Init == /\ lock = [k \in Keys |-> NoProc]
        /\ held = [p \in Procs |-> NoKey]
        /\ lapsed = {}
-----------------------------------------------------------------------------
\* Lock(k) returns a lock.
Obtain(p, k) ==
    /\ held[p] = NoKey
    /\ lock[k] = NoProc
    /\ lock' = [lock EXCEPT ![k] = p]
    /\ held' = [held EXCEPT ![p] = k]
    /\ UNCHANGED lapsed

\* Lock(k) returns an error: the lock is contended for too long, the context
\* has ended, redis does not answer, or its answer to a SET NX is lost.
Refused(p, k) ==
    /\ held[p] = NoKey
    /\ \/ UNCHANGED lock
       \/ /\ lock[k] = NoProc
          /\ lock' = [lock EXCEPT ![k] = p]
    /\ UNCHANGED <<held, lapsed>>

\* p's variable lock goes out of use.
Forget(p) == /\ held' = [held EXCEPT ![p] = NoKey]
             /\ lapsed' = lapsed \ {p}

\* Mutant: the lock key is deleted whatever token it holds.
ReleaseAnyone(p) ==
    /\ lock' = IF held[p] = NoKey THEN lock ELSE [lock EXCEPT ![held[p]] = NoProc]
    /\ Forget(p)

\* Mutant: an expired lease is not told from one that is held.
ReleaseKeepsLapsed(p) ==
    /\ lock' = [k \in Keys |-> IF k = held[p] /\ lock[k] = p THEN NoProc ELSE lock[k]]
    /\ held' = [held EXCEPT ![p] = NoKey]
    /\ UNCHANGED lapsed

\* Release: nothing for a nil lock, ErrLockNotHeld when the token is gone; if
\* redis does not answer the key is left to its TTL.
Release(p) ==
    /\ \/ lock' = [k \in Keys |-> IF k = held[p] /\ lock[k] = p THEN NoProc ELSE lock[k]]
       \/ UNCHANGED lock
    /\ Forget(p)

\* p's process is killed: nothing is released.
Die(p) == Forget(p) /\ UNCHANGED lock

\* redis drops the lock key k when lockTTL has passed.
Lapse(k) ==
    /\ lock[k] # NoProc
    /\ lapsed' = lapsed \cup {p \in Procs : lock[k] = p /\ held[p] = k}
    /\ lock' = [lock EXCEPT ![k] = NoProc]
    /\ UNCHANGED held

Next == \/ \E p \in Procs : \/ \E k \in Keys : Obtain(p, k) \/ Refused(p, k)
                            \/ held[p] # NoKey /\ (Release(p) \/ Die(p))
        \/ \E k \in Keys : Lapse(k)

Spec == Init /\ [][Next]_leaseVars
-----------------------------------------------------------------------------
\* A worker that was given the lock and whose lease has not run out has it
\* still: nobody's late Release takes it away.
KeptUntilLapse == \A p \in Procs \ lapsed : held[p] # NoKey => lock[held[p]] = p

\* Two workers go about the same key with a lock that both were given only if
\* one of them has outrun its lease.
OneLiveHolder ==
    \A p, q \in Procs \ lapsed : held[p] # NoKey /\ held[p] = held[q] => p = q
=============================================================================
