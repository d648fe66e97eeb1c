-------------------------- MODULE LoaderCollection --------------------------
(***************************************************************************)
(* The expiring collection of per-role loaders: backend/loaders/           *)
(* collection.go, its janitor, and the get-or-create that                  *)
(* GetLoadersForRoles and GetPersonalizedLoaders build on it.              *)
(*                                                                         *)
(* The collection is a sync.Map from key to entry: each map operation is   *)
(* atomic, a sequence of them is not.  ExpiresAt is written and read       *)
(* without a lock; on a 64-bit build only its monotonic word is compared,  *)
(* so a racing reader sees the old time or the new one, which are the two  *)
(* orders of the steps below.                                              *)
(*                                                                         *)
(* Entries are heap objects; one that nothing refers to may be allocated   *)
(* again.                                                                  *)
(***************************************************************************)
EXTENDS FiniteSets

CONSTANTS Procs,    \* requests
          Keys,     \* role combinations
          Entries,  \* addresses of entries
          None      \* "no entry"

ASSUME NoneAssumption == None \notin Entries

VARIABLES values,   \* values[k]: the entry stored under k
          expired,  \* the entries whose ExpiresAt lies before now
          ran,      \* the entries whose OnDelete has run
          deleted,  \* the entries that a Delete of the map removed (history)
          pc,       \* pc[p]: where p is in GetLoadersForRoles
          key,      \* key[p]: its key
          e,        \* e[p]: the entry it loaded
          jpc,      \* where the janitor is in DeleteExpired
          todo,     \* the keys that its Range has not visited
          doomed,   \* deleteKeys
          jkey, je  \* key and e of the janitor's Delete

vars == <<values, expired, ran, deleted, pc, key, e, jpc, todo, doomed, jkey, je>>
clientVars == <<pc, key, e>>
janitorVars == <<jpc, todo, doomed, jkey, je>>

TypeOK == /\ values \in [Keys -> Entries \cup {None}]
          /\ expired \in SUBSET Entries
          /\ ran \in SUBSET Entries
          /\ deleted \in SUBSET Entries
          /\ pc \in [Procs -> {"idle", "load", "check", "renew", "delete", "hook", "set"}]
          /\ key \in [Procs -> Keys]
          /\ e \in [Procs -> Entries \cup {None}]
          /\ \A p \in Procs : pc[p] \in {"check", "renew", "delete", "hook"} => e[p] # None
          /\ jpc \in {"asleep", "range", "take", "again", "hook"}
          /\ todo \in SUBSET Keys
          /\ doomed \in SUBSET Keys
          /\ jkey \in Keys
          /\ je \in Entries \cup {None}
          /\ jpc \in {"again", "hook"} => je # None

Init == /\ values = [k \in Keys |-> None]
        /\ expired = {} /\ ran = {} /\ deleted = {}
        /\ pc = [p \in Procs |-> "idle"]
        /\ key \in [Procs -> Keys]
        /\ e = [p \in Procs |-> None]
        /\ jpc = "asleep"
        /\ todo = {} /\ doomed = {}
        /\ jkey \in Keys /\ je = None

Stored(x) == \E k \in Keys : values[k] = x

Unreferenced(x) == ~Stored(x) /\ je # x /\ \A p \in Procs : e[p] # x

Goto(p, label) == pc' = [pc EXCEPT ![p] = label]

\* values.Delete(k): whatever is stored there now is removed.
Remove(k) == /\ values' = [values EXCEPT ![k] = None]
             /\ deleted' = deleted \cup ({values[k]} \ {None})
-----------------------------------------------------------------------------
\* A request needs the loaders of k.
Call(p, k) ==
    /\ pc[p] = "idle"
    /\ key' = [key EXCEPT ![p] = k]
    /\ Goto(p, "load")
    /\ UNCHANGED <<values, expired, ran, deleted, e, janitorVars>>

\* Get: values.Load(key).
Load(p) ==
    /\ pc[p] = "load"
    /\ e' = [e EXCEPT ![p] = values[key[p]]]
    /\ Goto(p, IF values[key[p]] = None THEN "set" ELSE "check")
    /\ UNCHANGED <<values, expired, ran, deleted, key, janitorVars>>

\* Get: e.ExpiresAt.Before(time.Now()).
Check(p) ==
    /\ pc[p] = "check"
    /\ Goto(p, IF e[p] \in expired THEN "delete" ELSE "renew")
    /\ UNCHANGED <<values, expired, ran, deleted, key, e, janitorVars>>

\* Get: e.ExpiresAt = time.Now().Add(c.expiry), and the value is returned.
Renew(p) ==
    /\ pc[p] = "renew"
    /\ expired' = expired \ {e[p]}
    /\ e' = [e EXCEPT ![p] = None]
    /\ Goto(p, "idle")
    /\ UNCHANGED <<values, ran, deleted, key, janitorVars>>

\* Mutant: the expired entry is not removed before its hook runs.
GetDeleteForgotten(p) ==
    /\ pc[p] = "delete"
    /\ Goto(p, "hook")
    /\ UNCHANGED <<values, expired, ran, deleted, key, e, janitorVars>>

\* Get: c.values.Delete(key) for an expired entry.
GetDelete(p) ==
    /\ pc[p] = "delete"
    /\ Remove(key[p])
    /\ Goto(p, "hook")
    /\ UNCHANGED <<expired, ran, key, e, janitorVars>>

\* Get: e.OnDelete(), and a miss is returned.
GetHook(p) ==
    /\ pc[p] = "hook"
    /\ ran' = ran \cup {e[p]}
    /\ e' = [e EXCEPT ![p] = None]
    /\ Goto(p, "set")
    /\ UNCHANGED <<values, expired, deleted, key, janitorVars>>

\* After a miss: new loaders, and Set(key, ls, WithOnDelete(cancel)).  An entry
\* that another request has stored since the miss is overwritten.
Set(p, x) ==
    /\ pc[p] = "set"
    /\ Unreferenced(x)
    /\ values' = [values EXCEPT ![key[p]] = x]
    /\ expired' = expired \ {x}
    /\ ran' = ran \ {x}
    /\ deleted' = deleted \ {x}
    /\ Goto(p, "idle")
    /\ UNCHANGED <<key, e, janitorVars>>
-----------------------------------------------------------------------------
\* The janitor's ticker fires: DeleteExpired starts to range over the map.
Tick ==
    /\ jpc = "asleep"
    /\ jpc' = "range"
    /\ todo' = Keys
    /\ UNCHANGED <<values, expired, ran, deleted, clientVars, doomed, jkey, je>>

\* Mutant: the entries that have not expired are collected.
VisitInverted(k) ==
    /\ jpc = "range"
    /\ k \in todo
    /\ todo' = todo \ {k}
    /\ doomed' = IF values[k] \notin expired THEN doomed \cup {k} ELSE doomed
    /\ UNCHANGED <<values, expired, ran, deleted, clientVars, jpc, jkey, je>>

\* One call of the function given to Range.
Visit(k) ==
    /\ jpc = "range"
    /\ k \in todo
    /\ todo' = todo \ {k}
    /\ doomed' = IF values[k] \in expired THEN doomed \cup {k} ELSE doomed
    /\ UNCHANGED <<values, expired, ran, deleted, clientVars, jpc, jkey, je>>

RangeDone ==
    /\ jpc = "range"
    /\ todo = {}
    /\ jpc' = "take"
    /\ UNCHANGED <<values, expired, ran, deleted, clientVars, todo, doomed, jkey, je>>

\* Mutant: the result of LoadAndDelete is not looked at.
TakeUnchecked(k) ==
    /\ jpc = "take"
    /\ k \in doomed
    /\ doomed' = doomed \ {k}
    /\ Remove(k)
    /\ jkey' = k
    /\ je' = values[k]
    /\ jpc' = "again"
    /\ UNCHANGED <<expired, ran, clientVars, todo>>

\* Delete(k): values.LoadAndDelete(key).
Take(k) ==
    /\ jpc = "take"
    /\ k \in doomed
    /\ doomed' = doomed \ {k}
    /\ Remove(k)
    /\ jkey' = k
    /\ je' = values[k]
    /\ jpc' = IF values[k] = None THEN "take" ELSE "again"
    /\ UNCHANGED <<expired, ran, clientVars, todo>>

\* Delete(k): c.values.Delete(key) once more.
TakeAgain ==
    /\ jpc = "again"
    /\ Remove(jkey)
    /\ jpc' = "hook"
    /\ UNCHANGED <<expired, ran, clientVars, todo, doomed, jkey, je>>

\* Delete(k): e.OnDelete().
JanitorHook ==
    /\ jpc = "hook"
    /\ ran' = ran \cup {je}
    /\ je' = None
    /\ jpc' = "take"
    /\ UNCHANGED <<values, expired, deleted, clientVars, todo, doomed, jkey>>

Sleep ==
    /\ jpc = "take"
    /\ doomed = {}
    /\ jpc' = "asleep"
    /\ UNCHANGED <<values, expired, ran, deleted, clientVars, todo, doomed, jkey, je>>

\* A minute passes without a Get of this entry.
Expire(x) ==
    /\ Stored(x)
    /\ x \notin expired
    /\ expired' = expired \cup {x}
    /\ UNCHANGED <<values, ran, deleted, clientVars, janitorVars>>
-----------------------------------------------------------------------------
Request(p) == \/ \E k \in Keys : Call(p, k)
              \/ Load(p)
              \/ Check(p)
              \/ Renew(p)
              \/ GetDelete(p)
              \/ GetHook(p)
              \/ \E x \in Entries : Set(p, x)

Janitor == \/ Tick
           \/ \E k \in Keys : Visit(k) \/ Take(k)
           \/ RangeDone
           \/ TakeAgain
           \/ JanitorHook
           \/ Sleep

Next == \/ \E p \in Procs : Request(p)
        \/ Janitor
        \/ \E x \in Entries : Expire(x)

Spec == Init /\ [][Next]_vars

\* The ticker fires every minute and the janitor's goroutine runs.  Nothing is
\* assumed of the requests.
FairSpec == Spec /\ WF_vars(Janitor)
-----------------------------------------------------------------------------
\* Loaders that a request can still find are never shut down: OnDelete, which
\* cancels the context of the caches nested in them, has not run for any entry
\* of the collection, whatever the janitor and expired Gets do at once.
StoredEntriesAlive == \A k \in Keys : values[k] \notin ran

\* The loaders of a role combination nobody asks for any more are dropped.
ExpiredEntriesLeave ==
    \A x \in Entries : (Stored(x) /\ x \in expired) ~> ~(Stored(x) /\ x \in expired)

\* "A function that should run when this entry is deleted": an entry that was
\* deleted from the map has had its OnDelete run, or whoever took it is about
\* to run it.  Get deletes by key, after it has loaded an entry that was expired,
\* and Delete deletes by key what it has taken: either may delete another one,
\* that was stored in between.
DeletedEntriesRunOnDelete ==
    \A x \in deleted :
        \/ x \in ran
        \/ je = x
        \/ \E p \in Procs : e[p] = x
=============================================================================
