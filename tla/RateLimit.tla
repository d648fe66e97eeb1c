----------------------------- MODULE RateLimit -----------------------------
(***************************************************************************)
(* The limiter of one pod, allow in backend/ratelimit/limit.go, behind     *)
(* Middleware and Endpoint.                                                *)
(*                                                                         *)
(* A key's counter is an object that every request of the window adds its  *)
(* hit to.  It is found in limitCache by pointer: a request that has found *)
(* one hits that one, whatever the cache holds by then.  The counter is    *)
(* made under the key's lock (utils.Lock, module Mutex) and expires a      *)
(* fixed time after it was made.  Time passes in ticks.                    *)
(***************************************************************************)
EXTENDS Integers, FiniteSetsExt

CONSTANTS Procs,     \* requests
          Keys,      \* rate limit keys
          Counters,  \* addresses of counters
          NoCounter, \* "not in the cache"
          Limit,     \* hits allowed in a window
          Window     \* ticks until a counter expires

LimitAssumption == Limit \in Nat /\ Window \in Nat /\ NoCounter \notin Counters

VARIABLES phase, key,  \* the lock, see module Mutex
          pc,          \* pc[p]: where p is in allow
          limitCache,  \* limitCache[k]: the counter of k
          left,        \* left[k]: ticks until that entry expires
          hits,        \* hits[o]: hits of counter o, up to Limit + 1
          c,           \* c[p]: p's local variable c
          within,      \* the calls whose window is still the same (history)
          passed       \* passed[k]: hits allowed in k's window (history)

limitVars == <<limitCache, left, hits, c, within, passed>>
vars == <<phase, key, pc, limitVars>>

L == INSTANCE Mutex

Labels == {"idle", "get", "lock", "getLocked", "set", "unlock", "hit"}

TypeOK == /\ L!TypeOK
          /\ pc \in [Procs -> Labels]
          /\ limitCache \in [Keys -> Counters \cup {NoCounter}]
          /\ left \in [Keys -> 0..Window]
          /\ hits \in [Counters -> 0..Limit + 1]
          /\ c \in [Procs -> Counters \cup {NoCounter}]
          /\ within \in SUBSET Procs
          /\ passed \in [Keys -> Nat]

StateInit == /\ limitCache = [k \in Keys |-> NoCounter]
             /\ left = [k \in Keys |-> 0]
             /\ hits = [o \in Counters |-> 0]
             /\ c = [p \in Procs |-> NoCounter]
             /\ within = {}
             /\ passed = [k \in Keys |-> 0]

Init == L!Init /\ pc = [p \in Procs |-> "idle"] /\ StateInit

Goto(p, label) == pc' = [pc EXCEPT ![p] = label]

Unreferenced(o) == /\ \A k \in Keys : limitCache[k] # o
                   /\ \A p \in Procs : c[p] # o
-----------------------------------------------------------------------------
\* allow(k) is called.
Call(p, k) ==
    /\ pc[p] = "idle"
    /\ phase[p] = "idle"
    /\ key' = [key EXCEPT ![p] = k]
    /\ within' = within \cup {p}
    /\ Goto(p, "get")
    /\ UNCHANGED <<phase, limitCache, left, hits, c, passed>>

\* limitCache.Get: an expired entry is absent.
Get(p) ==
    /\ pc[p] = "get"
    /\ c' = [c EXCEPT ![p] = limitCache[key[p]]]
    /\ IF c'[p] = NoCounter
       THEN L!Request(p, key[p]) /\ Goto(p, "lock")
       ELSE UNCHANGED <<phase, key>> /\ Goto(p, "hit")
    /\ UNCHANGED <<limitCache, left, hits, within, passed>>

\* utils.Lock returns.
Locked(p) ==
    /\ pc[p] = "lock"
    /\ L!Acquire(p)
    /\ Goto(p, "getLocked")
    /\ UNCHANGED limitVars

\* Mutant: whoever missed the counter makes one.
NoSecondGet(p) ==
    /\ pc[p] = "getLocked"
    /\ Goto(p, "set")
    /\ UNCHANGED <<phase, key, limitVars>>

\* limitCache.Get again, with the lock.
GetLocked(p) ==
    /\ pc[p] = "getLocked"
    /\ c' = [c EXCEPT ![p] = limitCache[key[p]]]
    /\ Goto(p, IF c'[p] = NoCounter THEN "set" ELSE "unlock")
    /\ UNCHANGED <<phase, key, limitCache, left, hits, within, passed>>

\* A new counter is stored, to expire after window.
Set(p, o) ==
    /\ pc[p] = "set"
    /\ Unreferenced(o)
    /\ hits' = [hits EXCEPT ![o] = 0]
    /\ limitCache' = [limitCache EXCEPT ![key[p]] = o]
    /\ left' = [left EXCEPT ![key[p]] = Window]
    /\ c' = [c EXCEPT ![p] = o]
    /\ Goto(p, "unlock")
    /\ UNCHANGED <<phase, key, within, passed>>

Unlock(p) ==
    /\ pc[p] = "unlock"
    /\ L!Release(p)
    /\ Goto(p, "hit")
    /\ UNCHANGED limitVars

\* Mutant: the entry's expiry is set anew by every hit.
HitRefreshing(p) ==
    /\ pc[p] = "hit"
    /\ hits' = [hits EXCEPT ![c[p]] = Min({@ + 1, Limit + 1})]
    /\ left' = [left EXCEPT ![key[p]] = IF limitCache[key[p]] = c[p] THEN Window ELSE @]
    /\ c' = [c EXCEPT ![p] = NoCounter]
    /\ within' = within \ {p}
    /\ Goto(p, "idle")
    /\ UNCHANGED <<phase, key, limitCache, passed>>

\* c.hits.Add(1) <= limit.
Hit(p) ==
    /\ pc[p] = "hit"
    /\ hits' = [hits EXCEPT ![c[p]] = Min({@ + 1, Limit + 1})]
    /\ passed' = IF p \in within /\ hits'[c[p]] <= Limit
                 THEN [passed EXCEPT ![key[p]] = @ + 1]
                 ELSE passed
    /\ c' = [c EXCEPT ![p] = NoCounter]
    /\ within' = within \ {p}
    /\ Goto(p, "idle")
    /\ UNCHANGED <<phase, key, limitCache, left>>

\* Time passes for the entry of k; at the end of its window it is gone.
Tick(k) ==
    /\ left[k] > 0
    /\ left' = [left EXCEPT ![k] = @ - 1]
    /\ IF left[k] = 1
       THEN /\ limitCache' = [limitCache EXCEPT ![k] = NoCounter]
            /\ within' = within \ {p \in Procs : key[p] = k}
            /\ passed' = [passed EXCEPT ![k] = 0]
       ELSE UNCHANGED <<limitCache, within, passed>>
    /\ UNCHANGED <<phase, key, pc, hits, c>>

Proceed(p) == \/ Get(p)
              \/ GetLocked(p)
              \/ \E o \in Counters : Set(p, o)
              \/ Unlock(p)
              \/ Hit(p)

Next == \/ \E p \in Procs : \/ \E k \in Keys : Call(p, k)
                            \/ Locked(p)
                            \/ Proceed(p)
        \/ \E k \in Keys : Tick(k)
-----------------------------------------------------------------------------
\* "No hit is lost": the requests that begin and end within one window of k,
\* however they race for its counter, are let through Limit times at most.
LimitHolds == \A k \in Keys : passed[k] <= Limit

\* A client that keeps trying rolls out of the window: its counter goes,
\* however often it is hit.
WindowsEnd == \A k \in Keys : limitCache[k] # NoCounter ~> limitCache[k] = NoCounter
=============================================================================
