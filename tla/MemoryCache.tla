----------------------------- MODULE MemoryCache -----------------------------
(***************************************************************************)
(* memorycache.GetOrSet over the lock of module Mutex.                     *)
(*                                                                         *)
(* Concurrent calls for one key look in the shared cache, queue on the     *)
(* key's lock, look again, and only then run the factory and store what it *)
(* returned.  What the factory reads (a database, an upstream) is one      *)
(* version number per key that somebody else advances at any time.  An     *)
(* entry leaves the cache when its TTL passes, when the LRU evicts it or   *)
(* when somebody deletes it: to a caller these look the same.  A key is    *)
(* taken to keep one type of value: Get calls another type a miss.         *)
(***************************************************************************)
EXTENDS Integers, FiniteSets

CONSTANTS Procs,        \* goroutines
          Keys,         \* cache keys
          MaxVersion,   \* bound: how often a key's source data changes
          MaxRemovals   \* bound: how often a key's entry is removed

BoundsAssumption == MaxVersion \in Nat /\ MaxRemovals \in Nat

VARIABLES phase, key,   \* the lock, see module Mutex
          pc,           \* pc[p]: where p is in GetOrSet
          val,          \* val[p]: the value p has read or produced
          cache,        \* cache[k]: the stored value
          source,       \* source[k]: the version a factory would read now
          fills,        \* fills[k]: values stored so far (history)
          removals,     \* removals[k]: values removed so far (history)
          served        \* served[k]: the newest version returned (history)

vars == <<phase, key, pc, val, cache, source, fills, removals, served>>

L == INSTANCE Mutex

Versions == 0..MaxVersion
Absent == -1

Labels == {"idle",     \* no call
           "first",    \* before the first Get
           "lock",     \* before utils.Lock(key) has returned
           "second",   \* before the second Get, with the lock
           "factory",  \* inside factory(ctx)
           "store",    \* before Set
           "return"}   \* before the deferred unlock

TypeOK == /\ L!TypeOK
          /\ pc \in [Procs -> Labels]
          /\ val \in [Procs -> Versions \cup {Absent}]
          /\ cache \in [Keys -> Versions \cup {Absent}]
          /\ source \in [Keys -> Versions]
          /\ fills \in [Keys -> 0..MaxRemovals + 1]
          /\ removals \in [Keys -> 0..MaxRemovals]
          /\ served \in [Keys -> Versions \cup {Absent}]

StateInit == /\ val = [p \in Procs |-> Absent]
             /\ cache = [k \in Keys |-> Absent]
             /\ source = [k \in Keys |-> 0]
             /\ fills = [k \in Keys |-> 0]
             /\ removals = [k \in Keys |-> 0]
             /\ served = [k \in Keys |-> Absent]

Init == L!Init /\ pc = [p \in Procs |-> "idle"] /\ StateInit

Goto(p, label) == pc' = [pc EXCEPT ![p] = label]

\* p's call returns version v of key k.
Serve(p, k, v) == /\ val' = [val EXCEPT ![p] = v]
                  /\ served' = [served EXCEPT ![k] = v]
-----------------------------------------------------------------------------
\* GetOrSet(k) is called.  Its lock is asked for only after the first miss;
\* naming the key now is what Mutex needs of a caller.
Call(p, k) ==
    /\ pc[p] = "idle"
    /\ phase[p] = "idle"
    /\ key' = [key EXCEPT ![p] = k]
    /\ Goto(p, "first")
    /\ UNCHANGED <<phase, val, cache, source, fills, removals, served>>

\* The Get before the lock.
FirstGet(p) ==
    /\ pc[p] = "first"
    /\ \/ /\ cache[key[p]] # Absent
          /\ Serve(p, key[p], cache[key[p]])
          /\ Goto(p, "idle")
          /\ UNCHANGED <<phase, key>>
       \/ /\ cache[key[p]] = Absent
          /\ L!Request(p, key[p])
          /\ Goto(p, "lock")
          /\ UNCHANGED <<val, served>>
    /\ UNCHANGED <<cache, source, fills, removals>>

\* Mutant: no lock is taken.
LockedWithoutLock(p) ==
    /\ pc[p] = "lock"
    /\ phase' = [phase EXCEPT ![p] = "holding"]
    /\ Goto(p, "second")
    /\ UNCHANGED <<key, val, cache, source, fills, removals, served>>

\* utils.Lock(key) returns.
Locked(p) ==
    /\ pc[p] = "lock"
    /\ L!Acquire(p)
    /\ Goto(p, "second")
    /\ UNCHANGED <<val, cache, source, fills, removals, served>>

\* Mutant: the cache is not looked at again.
NoSecondGet(p) ==
    /\ pc[p] = "second"
    /\ Goto(p, "factory")
    /\ UNCHANGED <<phase, key, val, cache, source, fills, removals, served>>

\* The Get under the lock.
SecondGet(p) ==
    /\ pc[p] = "second"
    /\ \/ /\ cache[key[p]] # Absent
          /\ Serve(p, key[p], cache[key[p]])
          /\ Goto(p, "return")
       \/ /\ cache[key[p]] = Absent
          /\ Goto(p, "factory")
          /\ UNCHANGED <<val, served>>
    /\ UNCHANGED <<phase, key, cache, source, fills, removals>>

\* The factory reads its data.
Produce(p) ==
    /\ pc[p] = "factory"
    /\ val' = [val EXCEPT ![p] = source[key[p]]]
    /\ Goto(p, "store")
    /\ UNCHANGED <<phase, key, cache, source, fills, removals, served>>

\* The factory returns an error: nothing is stored.
Fail(p) ==
    /\ pc[p] = "factory"
    /\ Goto(p, "return")
    /\ UNCHANGED <<phase, key, val, cache, source, fills, removals, served>>

\* Set(key, stored, opts...), and its value is the call's result.
Store(p) ==
    /\ pc[p] = "store"
    /\ cache' = [cache EXCEPT ![key[p]] = val[p]]
    /\ fills' = [fills EXCEPT ![key[p]] = @ + 1]
    /\ Serve(p, key[p], val[p])
    /\ Goto(p, "return")
    /\ UNCHANGED <<phase, key, source, removals>>

\* The deferred unlock().
Return(p) ==
    /\ pc[p] = "return"
    /\ L!Release(p)
    /\ Goto(p, "idle")
    /\ UNCHANGED <<val, cache, source, fills, removals, served>>

\* Delete(k), the end of the TTL, or an LRU eviction.
Remove(k) ==
    /\ cache[k] # Absent
    /\ removals[k] < MaxRemovals
    /\ cache' = [cache EXCEPT ![k] = Absent]
    /\ removals' = [removals EXCEPT ![k] = @ + 1]
    /\ UNCHANGED <<phase, key, pc, val, source, fills, served>>

\* The data behind k changes.
Change(k) ==
    /\ source[k] < MaxVersion
    /\ source' = [source EXCEPT ![k] = @ + 1]
    /\ UNCHANGED <<phase, key, pc, val, cache, fills, removals, served>>

Proceed(p) == \/ FirstGet(p)
              \/ SecondGet(p)
              \/ Produce(p)
              \/ Fail(p)
              \/ Store(p)
              \/ Return(p)

Next == \/ \E p \in Procs : \/ \E k \in Keys : Call(p, k)
                            \/ Locked(p)
                            \/ Proceed(p)
        \/ \E k \in Keys : Remove(k) \/ Change(k)

Spec == Init /\ [][Next]_vars
-----------------------------------------------------------------------------
\* One factory at a time for one key.
SingleFlight ==
    \A p, q \in Procs :
        /\ pc[p] \in {"factory", "store"}
        /\ pc[q] \in {"factory", "store"}
        /\ key[p] = key[q]
        => p = q

\* A stampede costs one fill: every value ever stored for k is the one in the
\* cache or has been removed since, so no fill ever overwrote another.
OneFillPerAbsence ==
    \A k \in Keys :
        fills[k] = removals[k] + (IF cache[k] = Absent THEN 0 ELSE 1)

\* How far the one load of k is, as module ReadThrough sees it.
Begun == -2
LoadOf(k) ==
    CASE \E p \in Procs : pc[p] = "factory" /\ key[p] = k -> Begun
      [] \E p \in Procs : pc[p] = "store" /\ key[p] = k ->
             val[CHOOSE p \in Procs : pc[p] = "store" /\ key[p] = k]
      [] OTHER -> Absent

\* GetOrSet, with its two looks and its lock, is a read-through cache that
\* loads a value once.
Loads == INSTANCE ReadThrough WITH load <- [k \in Keys |-> LoadOf(k)]
ImplementsReadThrough == Loads!Spec

\* Once somebody has been given version v of k, nobody is given an older one,
\* whatever expires, is evicted or deleted on the way.
ServedNeverOlder ==
    [][\A k \in Keys : served'[k] >= served[k]]_vars
=============================================================================
