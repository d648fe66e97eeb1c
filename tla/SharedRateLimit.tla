-------------------------- MODULE SharedRateLimit --------------------------
(***************************************************************************)
(* The limiter of all pods together, Key in backend/ratelimit/limit.go: a  *)
(* counter in redis per key, counted with INCR and given its window with a *)
(* separate EXPIRE, which a process that dies or a failing redis leaves    *)
(* out.  A later request then finds a counter without a time to live.      *)
(*                                                                         *)
(* External: redis.  EXPIRE of an absent key does nothing, TTL answers a   *)
(* negative number for a key without a time to live and for an absent one. *)
(***************************************************************************)
EXTENDS Integers, FiniteSetsExt

CONSTANTS Procs,      \* requests, of any pod
          Keys,       \* rate limit keys
          Limit,      \* hits allowed in a window
          Window,     \* ticks until a counter expires
          MaxMishaps  \* bound: commands that fail and processes that die

VARIABLES pc,       \* pc[p]: where p is in Key
          key,      \* key[p]: its argument
          count,    \* count[k]: the counter in redis, up to Limit + 1
          ttl,      \* ttl[k]: ticks until it expires, 0 if it does not
          n,        \* n[p]: what INCR answered to p
          mishaps   \* what went wrong so far

vars == <<pc, key, count, ttl, n, mishaps>>

Labels == {"idle", "incr", "check", "expire"}

TypeOK == /\ pc \in [Procs -> Labels]
          /\ key \in [Procs -> Keys]
          /\ count \in [Keys -> 0..Limit + 1]
          /\ ttl \in [Keys -> 0..Window]
          /\ n \in [Procs -> 0..Limit + 1]
          /\ mishaps \in 0..MaxMishaps

StateInit == /\ count = [k \in Keys |-> 0]
             /\ ttl = [k \in Keys |-> 0]
             /\ n = [p \in Procs |-> 0]
             /\ mishaps = 0

Init == /\ pc = [p \in Procs |-> "idle"]
        /\ key \in [Procs -> Keys]
        /\ StateInit

Goto(p, label) == pc' = [pc EXCEPT ![p] = label]

Return(p) == Goto(p, "idle") /\ n' = [n EXCEPT ![p] = 0]

Mishap == mishaps < MaxMishaps /\ mishaps' = mishaps + 1
-----------------------------------------------------------------------------
Call(p, k) ==
    /\ pc[p] = "idle"
    /\ key' = [key EXCEPT ![p] = k]
    /\ Goto(p, "incr")
    /\ UNCHANGED <<count, ttl, n, mishaps>>

\* INCR makes the counter or adds to it.
Incr(p) ==
    /\ pc[p] = "incr"
    /\ count' = [count EXCEPT ![key[p]] = Min({@ + 1, Limit + 1})]
    /\ n' = [n EXCEPT ![p] = count'[key[p]]]
    /\ Goto(p, "check")
    /\ UNCHANGED <<key, ttl, mishaps>>

\* Mutant: only the first hit sees to the window.
CheckFirstOnly(p) ==
    /\ pc[p] = "check"
    /\ IF n[p] = 1 THEN Goto(p, "expire") /\ UNCHANGED n ELSE Return(p)
    /\ UNCHANGED <<key, count, ttl, mishaps>>

\* count == 1, or else the TTL of the counter.
Check(p) ==
    /\ pc[p] = "check"
    /\ IF n[p] = 1 \/ ttl[key[p]] = 0
       THEN Goto(p, "expire") /\ UNCHANGED n
       ELSE Return(p)
    /\ UNCHANGED <<key, count, ttl, mishaps>>

\* EXPIRE, whose result nobody looks at.
Expire(p) ==
    /\ pc[p] = "expire"
    /\ IF count[key[p]] > 0 THEN ttl' = [ttl EXCEPT ![key[p]] = Window] ELSE UNCHANGED ttl
    /\ Return(p)
    /\ UNCHANGED <<key, count, mishaps>>

\* The command p is at fails, which ends the call (INCR's answer may be lost
\* as well: then it has been counted), or p's process dies.
Fail(p) ==
    /\ pc[p] # "idle"
    /\ Mishap
    /\ Return(p)
    /\ UNCHANGED <<key, count, ttl>>

\* Time passes for the counter of k; at the end of its window it is gone.
Tick(k) ==
    /\ ttl[k] > 0
    /\ ttl' = [ttl EXCEPT ![k] = @ - 1]
    /\ count' = IF ttl[k] = 1 THEN [count EXCEPT ![k] = 0] ELSE count
    /\ UNCHANGED <<pc, key, n, mishaps>>

Proceed(p) == Incr(p) \/ Check(p) \/ Expire(p)

Next == \/ \E p \in Procs : \/ \E k \in Keys : Call(p, k)
                            \/ Proceed(p)
                            \/ Fail(p)
        \/ \E k \in Keys : Tick(k)
-----------------------------------------------------------------------------
\* A limit is lifted in the end, whoever died between INCR and EXPIRE, if only
\* somebody goes on asking ("without this the counter would never reset").
LimitLifts ==
    \A k \in Keys : []<>(\E p \in Procs : pc[p] = "incr" /\ key[p] = k)
                        => (count[k] > Limit ~> count[k] = 0)
=============================================================================
