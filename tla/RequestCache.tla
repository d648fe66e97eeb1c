---------------------------- MODULE RequestCache ----------------------------
(***************************************************************************)
(* The cache of one pod whose callers may say how fresh a value has to be, *)
(* withCacheAndTimestamp in backend/graph/api/resolver.go.                 *)
(*                                                                         *)
(* A caller passes the time of the last change it knows of, which is cut   *)
(* down to the present and to whole seconds, as is the time that an entry  *)
(* is stored with.  The clock counts half seconds.  Factories run with the *)
(* lock of the key (a mutex per key, module Mutex).                        *)
(***************************************************************************)
EXTENDS Integers

CONSTANTS Procs,     \* requests
          Keys,      \* cache keys
          MaxClock,  \* bound: half seconds
          NoTime     \* "timestamp is nil", "nothing cached"

ClockAssumption == MaxClock \in Nat

VARIABLES phase, key,  \* the lock, see module Mutex
          pc,          \* pc[p]: where p is in withCacheAndTimestamp
          clock,
          ts,          \* ts[p]: p's local variable ts
          entry,       \* entry[p]: p's local variable entry
          began,       \* began[p]: when p's factory read the data
          requestCache \* requestCache[k]: the entry cached for k

cacheVars == <<clock, ts, entry, began, requestCache>>
vars == <<phase, key, pc, cacheVars>>

L == INSTANCE Mutex

Labels == {"idle", "first", "await", "again", "produce", "return", "fail"}

\* When the entry was stored and when its factory read the data.
NoEntry == [Cached |-> NoTime, read |-> NoTime]
Entries == [Cached : 0..MaxClock, read : 0..MaxClock] \cup {NoEntry}

TypeOK == /\ L!TypeOK
          /\ pc \in [Procs -> Labels]
          /\ clock \in 0..MaxClock
          /\ ts \in [Procs -> 0..MaxClock \cup {NoTime}]
          /\ entry \in [Procs -> Entries]
          /\ began \in [Procs -> 0..MaxClock]
          /\ requestCache \in [Keys -> Entries]

StateInit == /\ clock = 0
             /\ ts = [p \in Procs |-> NoTime]
             /\ entry = [p \in Procs |-> NoEntry]
             /\ began = [p \in Procs |-> 0]
             /\ requestCache = [k \in Keys |-> NoEntry]

Init == L!Init /\ pc = [p \in Procs |-> "idle"] /\ StateInit

Goto(p, label) == pc' = [pc EXCEPT ![p] = label]

Truncate(t) == t - (t % 2)

\* What a timestamp comes to.
Capped(t) == IF t = NoTime THEN NoTime ELSE Truncate(IF t > clock THEN clock ELSE t)

\* Entry e will do for a caller whose timestamp is t.
Fresh(e, t) == e # NoEntry /\ (t = NoTime \/ e.Cached >= t)
-----------------------------------------------------------------------------
\* The call, with a timestamp of any client's clock or none.
Call(p, k) ==
    /\ pc[p] = "idle"
    /\ phase[p] = "idle"
    /\ \E t \in 0..MaxClock \cup {NoTime} : ts' = [ts EXCEPT ![p] = Capped(t)]
    /\ key' = [key EXCEPT ![p] = k]
    /\ entry' = [entry EXCEPT ![p] = NoEntry]
    /\ Goto(p, "first")
    /\ UNCHANGED <<phase, clock, began, requestCache>>

\* p's entry is what requestCache.Get finds, or else what it was.
Look(p) == entry' = [entry EXCEPT ![p] = IF requestCache[key[p]] = NoEntry
                                         THEN @ ELSE requestCache[key[p]]]

\* Mutant: what is cached will do.
FoundAny(p) == requestCache[key[p]] # NoEntry

Found(p) == Fresh(requestCache[key[p]], ts[p])

FirstGet(p) ==
    /\ pc[p] = "first"
    /\ Look(p)
    /\ IF Found(p) THEN Goto(p, "return") /\ UNCHANGED <<phase, key>>
                   ELSE Goto(p, "await") /\ L!Request(p, key[p])
    /\ UNCHANGED <<clock, ts, began, requestCache>>

\* lock.Lock returns.
Locked(p) ==
    /\ pc[p] = "await"
    /\ L!Acquire(p)
    /\ Goto(p, "again")
    /\ UNCHANGED cacheVars

\* Mutant: whoever had to wait for the lock produces.
NoSecondGet(p) ==
    /\ pc[p] = "again"
    /\ Goto(p, "produce")
    /\ began' = [began EXCEPT ![p] = clock]
    /\ UNCHANGED <<phase, key, clock, ts, entry, requestCache>>

\* The second Get; if that will not do the factory starts and reads the data.
SecondGet(p) ==
    /\ pc[p] = "again"
    /\ Look(p)
    /\ IF Found(p) THEN Goto(p, "return") /\ UNCHANGED began
                   ELSE Goto(p, "produce") /\ began' = [began EXCEPT ![p] = clock]
    /\ UNCHANGED <<phase, key, clock, ts, requestCache>>

\* The factory returns a value, which is cached.
Store(p) ==
    /\ pc[p] = "produce"
    /\ entry' = [entry EXCEPT ![p] = [Cached |-> Truncate(clock), read |-> began[p]]]
    /\ requestCache' = [requestCache EXCEPT ![key[p]] = entry'[p]]
    /\ Goto(p, "return")
    /\ UNCHANGED <<phase, key, clock, ts, began>>

\* Mutant: a failing factory leaves the mutex locked.
FailLocked(p) ==
    /\ pc[p] = "produce"
    /\ Goto(p, "idle")
    /\ UNCHANGED <<phase, key, cacheVars>>

\* The factory fails: the error is returned.
Fail(p) ==
    /\ pc[p] = "produce"
    /\ Goto(p, "fail")
    /\ UNCHANGED <<phase, key, cacheVars>>

\* The call returns, with the deferred Unlock if it had locked.
Return(p) ==
    /\ pc[p] \in {"return", "fail"}
    /\ IF phase[p] = "holding" THEN L!Release(p) ELSE UNCHANGED <<phase, key>>
    /\ ts' = [ts EXCEPT ![p] = NoTime]
    /\ entry' = [entry EXCEPT ![p] = NoEntry]
    /\ began' = [began EXCEPT ![p] = 0]
    /\ Goto(p, "idle")
    /\ UNCHANGED <<clock, requestCache>>

Tick ==
    /\ clock < MaxClock
    /\ clock' = clock + 1
    /\ UNCHANGED <<phase, key, pc, ts, entry, began, requestCache>>

\* An entry expires.
Expire(k) ==
    /\ requestCache[k] # NoEntry
    /\ requestCache' = [requestCache EXCEPT ![k] = NoEntry]
    /\ UNCHANGED <<phase, key, pc, clock, ts, entry, began>>

Proceed(p) == \/ FirstGet(p)
              \/ SecondGet(p)
              \/ Store(p)
              \/ Fail(p)
              \/ Return(p)

Next == \/ \E p \in Procs : \/ \E k \in Keys : Call(p, k)
                            \/ Locked(p)
                            \/ Proceed(p)
        \/ Tick
        \/ \E k \in Keys : Expire(k)
-----------------------------------------------------------------------------
\* A value that is returned was stored in the second the caller asked for or
\* later, whoever produced it and for whom.
AnsweredAsAsked ==
    \A p \in Procs : pc[p] = "return" /\ ts[p] # NoTime => entry[p].Cached >= ts[p]

\* One entry replaces another only in a later second, and never with data that
\* were read earlier: clients that ask for the future, or for the present over
\* and over, cost one production a second.
OncePerSecond ==
    [][\A k \in Keys : requestCache[k] # NoEntry /\ requestCache'[k] \notin {NoEntry, requestCache[k]}
           => /\ requestCache'[k].Cached > requestCache[k].Cached
              /\ requestCache'[k].read >= requestCache[k].read]_requestCache
=============================================================================
