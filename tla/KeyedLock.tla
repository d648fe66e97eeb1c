------------------------------ MODULE KeyedLock ------------------------------
(***************************************************************************)
(* The keyed lock table of backend/utils/locks.go.                         *)
(*                                                                         *)
(* A process-wide map from key to a reference counted entry, the map and   *)
(* the counts guarded by locksMu, each entry holding the mutex its users   *)
(* queue on.  The entry is removed by whoever brings its count to zero,    *)
(* and a later Lock of the same key allocates a new one: two goroutines    *)
(* exclude each other only as long as they found the SAME entry.           *)
(*                                                                         *)
(* Entries are heap objects with an identity, drawn from Objs.  An object  *)
(* nobody refers to any more may be allocated again (Go collects it).      *)
(***************************************************************************)
EXTENDS Integers, FiniteSets

CONSTANTS Procs,   \* goroutines that call Lock
          Keys,    \* lock names
          Objs,    \* addresses of keyedLock entries
          NoProc,  \* "unlocked"
          NoObj    \* "no entry"

ASSUME ProcsAssumption == IsFiniteSet(Procs) /\ NoProc \notin Procs
ASSUME ObjsAssumption == NoObj \notin Objs

VARIABLES locksMu,  \* the goroutine inside the table's critical section
          locks,    \* locks[k]: the entry of key k
          mu,       \* mu[o]: the goroutine that has locked entry o
          refs,     \* refs[o]: the reference count of entry o
          pc,       \* pc[p]: the next statement of p
          key,      \* key[p]: the argument of p's call
          obj       \* obj[p]: p's local variable l

vars == <<locksMu, locks, mu, refs, pc, key, obj>>

Labels == {"idle",     \* not in Lock, nor in the function it returned
           "lookup",   \* inside locksMu, before locks[key] is read
           "count",    \* inside locksMu, before l.refs++
           "wait",     \* at l.mu.Lock()
           "held",     \* between Lock and unlock
           "drop",     \* l.mu is unlocked, at the second locksMu.Lock()
           "unref"}    \* inside locksMu, before l.refs--

TypeOK == /\ locksMu \in Procs \cup {NoProc}
          /\ locks \in [Keys -> Objs \cup {NoObj}]
          /\ mu \in [Objs -> Procs \cup {NoProc}]
          /\ refs \in [Objs -> Nat]
          /\ pc \in [Procs -> Labels]
          /\ key \in [Procs -> Keys]
          /\ obj \in [Procs -> Objs \cup {NoObj}]

Init == /\ locksMu = NoProc
        /\ locks = [k \in Keys |-> NoObj]
        /\ mu = [o \in Objs |-> NoProc]
        /\ refs = [o \in Objs |-> 0]
        /\ pc = [p \in Procs |-> "idle"]
        /\ key \in [Procs -> Keys]
        /\ obj = [p \in Procs |-> NoObj]

\* No pointer to o is left, neither in the table nor in a goroutine: its
\* address may come back from the allocator.
Unreferenced(o) == /\ \A k \in Keys : locks[k] # o
                   /\ \A p \in Procs : obj[p] # o
-----------------------------------------------------------------------------
\* locksMu.Lock() at the top of Lock(k).
Enter(p, k) ==
    /\ pc[p] = "idle"
    /\ locksMu = NoProc
    /\ locksMu' = p
    /\ pc' = [pc EXCEPT ![p] = "lookup"]
    /\ key' = [key EXCEPT ![p] = k]
    /\ UNCHANGED <<locks, mu, refs, obj>>

\* l, ok := locks[key], with an entry in the table.
Find(p) ==
    /\ pc[p] = "lookup"
    /\ locks[key[p]] # NoObj
    /\ obj' = [obj EXCEPT ![p] = locks[key[p]]]
    /\ pc' = [pc EXCEPT ![p] = "count"]
    /\ UNCHANGED <<locksMu, locks, mu, refs, key>>

\* Mutant: an entry is put there without looking for one.
CreateAlways(p, o) ==
    /\ pc[p] = "lookup"
    /\ Unreferenced(o)
    /\ obj' = [obj EXCEPT ![p] = o]
    /\ locks' = [locks EXCEPT ![key[p]] = o]
    /\ mu' = [mu EXCEPT ![o] = NoProc]
    /\ refs' = [refs EXCEPT ![o] = 0]
    /\ pc' = [pc EXCEPT ![p] = "count"]
    /\ UNCHANGED <<locksMu, key>>

\* l, ok := locks[key] without one: a zero keyedLock is put there.
Create(p, o) ==
    /\ pc[p] = "lookup"
    /\ locks[key[p]] = NoObj
    /\ Unreferenced(o)
    /\ obj' = [obj EXCEPT ![p] = o]
    /\ locks' = [locks EXCEPT ![key[p]] = o]
    /\ mu' = [mu EXCEPT ![o] = NoProc]
    /\ refs' = [refs EXCEPT ![o] = 0]
    /\ pc' = [pc EXCEPT ![p] = "count"]
    /\ UNCHANGED <<locksMu, key>>

\* l.refs++ and locksMu.Unlock().
Count(p) ==
    /\ pc[p] = "count"
    /\ refs' = [refs EXCEPT ![obj[p]] = @ + 1]
    /\ locksMu' = NoProc
    /\ pc' = [pc EXCEPT ![p] = "wait"]
    /\ UNCHANGED <<locks, mu, key, obj>>

\* Mutant: l.mu.TryLock(), which gives up on a busy mutex.
AcquireTry(p) ==
    /\ pc[p] = "wait"
    /\ \/ /\ mu[obj[p]] = NoProc
          /\ mu' = [mu EXCEPT ![obj[p]] = p]
          /\ pc' = [pc EXCEPT ![p] = "held"]
       \/ /\ mu[obj[p]] # NoProc
          /\ pc' = [pc EXCEPT ![p] = "drop"]
          /\ UNCHANGED mu
    /\ UNCHANGED <<locksMu, locks, refs, key, obj>>

\* l.mu.Lock() returns, and Lock with it.
Acquire(p) ==
    /\ pc[p] = "wait"
    /\ mu[obj[p]] = NoProc
    /\ mu' = [mu EXCEPT ![obj[p]] = p]
    /\ pc' = [pc EXCEPT ![p] = "held"]
    /\ UNCHANGED <<locksMu, locks, refs, key, obj>>

\* l.mu.Unlock() in the returned function.  The sync.Once makes a second call
\* of that function a no-op, so it is taken once per Acquire.
Release(p) ==
    /\ pc[p] = "held"
    /\ mu' = [mu EXCEPT ![obj[p]] = NoProc]
    /\ pc' = [pc EXCEPT ![p] = "drop"]
    /\ UNCHANGED <<locksMu, locks, refs, key, obj>>

\* The second locksMu.Lock().
ReEnter(p) ==
    /\ pc[p] = "drop"
    /\ locksMu = NoProc
    /\ locksMu' = p
    /\ pc' = [pc EXCEPT ![p] = "unref"]
    /\ UNCHANGED <<locks, mu, refs, key, obj>>

\* Mutant: the entry stays for ever.
UnrefNever(p) ==
    /\ pc[p] = "unref"
    /\ refs' = [refs EXCEPT ![obj[p]] = @ - 1]
    /\ locks' = locks
    /\ locksMu' = NoProc
    /\ obj' = [obj EXCEPT ![p] = NoObj]
    /\ pc' = [pc EXCEPT ![p] = "idle"]
    /\ UNCHANGED <<mu, key>>

\* Mutant: only the last user is uncounted.
UnrefLastOnly(p) ==
    /\ pc[p] = "unref"
    /\ refs' = IF refs[obj[p]] = 1 THEN [refs EXCEPT ![obj[p]] = 0]
                                 ELSE refs
    /\ locks' = IF refs[obj[p]] = 1
                THEN [locks EXCEPT ![key[p]] = NoObj]
                ELSE locks
    /\ locksMu' = NoProc
    /\ obj' = [obj EXCEPT ![p] = NoObj]
    /\ pc' = [pc EXCEPT ![p] = "idle"]
    /\ UNCHANGED <<mu, key>>

\* Mutant: the returned function has no sync.Once and is called twice.
UnrefTwice(p) ==
    /\ pc[p] = "unref"
    /\ refs' = [refs EXCEPT ![obj[p]] = @ - 2]
    /\ locks' = IF refs[obj[p]] - 1 = 0
                THEN [locks EXCEPT ![key[p]] = NoObj]
                ELSE locks
    /\ locksMu' = NoProc
    /\ obj' = [obj EXCEPT ![p] = NoObj]
    /\ pc' = [pc EXCEPT ![p] = "idle"]
    /\ UNCHANGED <<mu, key>>

\* l.refs--, delete(locks, key) on zero, locksMu.Unlock().
Unref(p) ==
    /\ pc[p] = "unref"
    /\ refs' = [refs EXCEPT ![obj[p]] = @ - 1]
    /\ locks' = IF refs[obj[p]] - 1 = 0
                THEN [locks EXCEPT ![key[p]] = NoObj]
                ELSE locks
    /\ locksMu' = NoProc
    /\ obj' = [obj EXCEPT ![p] = NoObj]
    /\ pc' = [pc EXCEPT ![p] = "idle"]
    /\ UNCHANGED <<mu, key>>

\* The steps of a goroutine that has entered Lock.
Proceed(p) == \/ Find(p)
              \/ \E o \in Objs : Create(p, o)
              \/ Count(p)
              \/ Release(p)
              \/ Unref(p)

Next == \E p \in Procs : \/ \E k \in Keys : Enter(p, k)
                         \/ Acquire(p)
                         \/ ReEnter(p)
                         \/ Proceed(p)

Spec == Init /\ [][Next]_vars

\* A goroutine that can run does run, and every caller releases what it holds
\* (the release is deferred at each call site).  sync.Mutex hands a mutex to
\* the longest waiter once it has waited for a millisecond (starvation mode),
\* so a goroutine is not passed over for ever: strong fairness where p queues
\* on a mutex.
Fairness == \A p \in Procs : /\ WF_vars(Proceed(p))
                             /\ SF_vars(Acquire(p))
                             /\ SF_vars(ReEnter(p))

FairSpec == Spec /\ Fairness
-----------------------------------------------------------------------------
\* The goroutines that have been counted in o.refs and not yet been uncounted.
Users(o) == {p \in Procs : /\ obj[p] = o
                           /\ pc[p] \in {"wait", "held", "drop", "unref"}}

\* Two goroutines are never both between Lock(k) and its unlock.
MutualExclusion ==
    \A p, q \in Procs :
        pc[p] = "held" /\ pc[q] = "held" /\ key[p] = key[q] => p = q

\* The table holds an entry exactly for the keys somebody uses: the entry of a
\* key in use is not removed under its users, and no entry outlives its last
\* user ("Entries are reference counted and dropped when the last holder
\* releases them").
TableMatchesUse ==
    \A k \in Keys :
        /\ locks[k] # NoObj <=> \E p \in Procs : /\ key[p] = k
                                                /\ pc[p] \notin {"idle", "lookup"}
        /\ \A p \in Procs : key[p] = k /\ pc[p] \notin {"idle", "lookup"}
                                => obj[p] = locks[k]

\* refs counts "everyone currently holding or waiting for it".
RefsExact == \A o \in Objs : refs[o] = Cardinality(Users(o))

\* Whoever asks for a lock gets it.
EveryRequestServed ==
    \A p \in Procs : pc[p] = "wait" ~> pc[p] = "held"

\* Where p is in the eyes of a caller who knows only Lock and unlock.
Phase(p) == CASE pc[p] \in {"lookup", "count", "wait"} -> "waiting"
              [] pc[p] = "held" -> "holding"
              [] OTHER -> "idle"

Abstract == INSTANCE Mutex WITH phase <- [p \in Procs |-> Phase(p)]

\* The table of counted entries implements the plain lock of module Mutex.
ImplementsMutex == Abstract!Spec
=============================================================================
