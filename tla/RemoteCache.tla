----------------------------- MODULE RemoteCache -----------------------------
(***************************************************************************)
(* remotecache.GetOrCreate over the lease lock of module LeaseLock         *)
(* (backend/remotecache/cache.go).                                         *)
(*                                                                         *)
(* Workers of all processes share a redis key per cache key.  They look,   *)
(* lock, look again, produce the value and store it.  Since the lock may   *)
(* be refused or outrun it does not exclude: it bounds how much of the     *)
(* work is done twice.                                                     *)
(***************************************************************************)
EXTENDS Integers, FiniteSets, FiniteSetsExt

CONSTANTS Procs,   \* workers
          Keys,    \* cache keys
          NoProc, NoKey

WorkersAssumption == IsFiniteSet(Procs)

VARIABLES lock, held, lapsed,  \* the lease lock, see module LeaseLock
          cached,     \* the keys redis has a value for
          pc,         \* pc[p]: where p is in GetOrCreate
          key,        \* key[p]: p's cache key
          allowance   \* allowance[k]: fills of k accounted for (history)

leaseVars == <<lock, held, lapsed>>
vars == <<leaseVars, cached, pc, key, allowance>>

Lease == INSTANCE LeaseLock

Labels == {"idle", "get", "lock", "second", "factory", "store", "release", "crashed"}

\* Fills in progress never outnumber the workers, so more credit than that
\* would never be spent.
MaxAllowance == Cardinality(Procs) + 1

TypeOK == /\ Lease!TypeOK
          /\ cached \in SUBSET Keys
          /\ pc \in [Procs -> Labels]
          /\ key \in [Procs -> Keys]
          /\ allowance \in [Keys -> 0..MaxAllowance]

Init == /\ Lease!Init
        /\ cached = {}
        /\ pc = [p \in Procs |-> "idle"]
        /\ key \in [Procs -> Keys]
        /\ allowance = [k \in Keys |-> 1]

Goto(p, label) == pc' = [pc EXCEPT ![p] = label]

\* One more fill of k is accounted for.
Allow(k) == allowance' = [allowance EXCEPT ![k] = Min({@ + 1, MaxAllowance})]
-----------------------------------------------------------------------------
Call(p, k) ==
    /\ pc[p] = "idle"
    /\ key' = [key EXCEPT ![p] = k]
    /\ Goto(p, "get")
    /\ UNCHANGED <<leaseVars, cached, allowance>>

\* The first Get: a value, or an error other than Nil, ends the call.
FirstGet(p) ==
    /\ pc[p] = "get"
    /\ \/ Goto(p, "idle")
       \/ /\ key[p] \notin cached
          /\ Goto(p, "lock")
    /\ UNCHANGED <<leaseVars, cached, key, allowance>>

\* Lock returns a lock.
Obtain(p) ==
    /\ pc[p] = "lock"
    /\ Lease!Obtain(p, key[p])
    /\ Goto(p, "second")
    /\ UNCHANGED <<cached, key, allowance>>

\* Lock returns an error, and the worker goes on with a nil lock: "doing the
\* work twice is preferable to failing the request".
GiveUp(p) ==
    /\ pc[p] = "lock"
    /\ Lease!Refused(p, key[p])
    /\ Goto(p, "second")
    /\ Allow(key[p])
    /\ UNCHANGED <<cached, key>>

\* Mutant: the key is not looked up again.
NoSecondGet(p) ==
    /\ pc[p] = "second"
    /\ Goto(p, "factory")
    /\ UNCHANGED <<leaseVars, cached, key, allowance>>

\* The second Get: an error counts as a miss.
SecondGet(p) ==
    /\ pc[p] = "second"
    /\ \/ /\ key[p] \in cached
          /\ Goto(p, "release")
          /\ UNCHANGED allowance
       \/ /\ key[p] \notin cached
          /\ Goto(p, "factory")
          /\ UNCHANGED allowance
       \/ /\ key[p] \in cached
          /\ Goto(p, "factory")
          /\ Allow(key[p])
    /\ UNCHANGED <<leaseVars, cached, key>>

\* valueFactory returns a value, or an error that ends the call.
Produce(p) ==
    /\ pc[p] = "factory"
    /\ Goto(p, "store") \/ Goto(p, "release")
    /\ UNCHANGED <<leaseVars, cached, key, allowance>>

\* Set succeeds, or its error is returned along with the value.
Store(p) ==
    /\ pc[p] = "store"
    /\ \/ /\ cached' = cached \cup {key[p]}
          /\ allowance' = [allowance EXCEPT ![key[p]] = @ - 1]
       \/ UNCHANGED <<cached, allowance>>
    /\ Goto(p, "release")
    /\ UNCHANGED <<leaseVars, key>>

\* The deferred Release.
Release(p) ==
    /\ pc[p] = "release"
    /\ Lease!Release(p)
    /\ Goto(p, "idle")
    /\ UNCHANGED <<cached, key, allowance>>

\* The process of p is killed.
Crash(p) ==
    /\ pc[p] # "crashed"
    /\ Lease!Die(p)
    /\ Goto(p, "crashed")
    /\ UNCHANGED <<cached, key, allowance>>

\* It is started again.  A lock key it left behind stays until it lapses.
Restart(p) ==
    /\ pc[p] = "crashed"
    /\ Goto(p, "idle")
    /\ UNCHANGED <<leaseVars, cached, key, allowance>>

\* redis drops the lock key of k after lockTTL, under a worker that still
\* counts on it or with nobody behind it any more.
Lapse(k) ==
    /\ Lease!Lapse(k)
    /\ IF lapsed' = lapsed THEN UNCHANGED allowance ELSE Allow(k)
    /\ UNCHANGED <<cached, pc, key>>

\* redis drops the value of k after its TTL.
Remove(k) ==
    /\ k \in cached
    /\ cached' = cached \ {k}
    /\ Allow(k)
    /\ UNCHANGED <<leaseVars, pc, key>>

Proceed(p) == \/ FirstGet(p)
              \/ Obtain(p)
              \/ GiveUp(p)
              \/ SecondGet(p)
              \/ Produce(p)
              \/ Store(p)
              \/ Release(p)

Next == \/ \E p \in Procs : \/ \E k \in Keys : Call(p, k)
                            \/ Proceed(p)
                            \/ Crash(p)
                            \/ Restart(p)
        \/ \E k \in Keys : Lapse(k) \/ Remove(k)
-----------------------------------------------------------------------------
\* The workers that are computing or storing a value for k.
Filling(k) == {p \in Procs : pc[p] \in {"factory", "store"} /\ key[p] = k}

\* How often the work is done: each fill in progress is accounted for by an
\* absence of the value, a lease that ran out, a lock that was not obtained or
\* a Get that failed, and by one of its own.
FillsAccountedFor ==
    \A k \in Keys : Cardinality(Filling(k)) <= allowance[k]
=============================================================================
