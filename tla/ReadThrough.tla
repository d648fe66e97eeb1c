----------------------------- MODULE ReadThrough -----------------------------
(***************************************************************************)
(* What memorycache promises its callers, whoever they are and however     *)
(* they are served: a value is loaded only while there is none, by one     *)
(* load at a time, and what is served is what was loaded.                  *)
(*                                                                         *)
(* Nothing is said of callers, locks or second looks: that those amount to *)
(* this is what module MemoryCache has to show.                            *)
(***************************************************************************)
EXTENDS Integers

CONSTANTS Keys,        \* cache keys
          MaxVersion   \* bound: how often a key's source data changes

VARIABLES cache,    \* cache[k]: the stored value
          source,   \* source[k]: the version a load would read now
          load,     \* load[k]: how far the load of k's value is
          served    \* served[k]: the newest version returned

readVars == <<cache, source, load, served>>

Absent == -1

\* A load that has not read its data yet; without one, load[k] is Absent.
Begun == -2

Init == /\ cache = [k \in Keys |-> Absent]
        /\ source = [k \in Keys |-> 0]
        /\ load = [k \in Keys |-> Absent]
        /\ served = [k \in Keys |-> Absent]

\* GetOrSet finds a value and returns it.
Hit(k) == /\ cache[k] # Absent
          /\ served' = [served EXCEPT ![k] = cache[k]]
          /\ UNCHANGED <<cache, source, load>>

\* GetOrSet calls the factory: there is neither a value nor another load.
Begin(k) == /\ cache[k] = Absent /\ load[k] = Absent
            /\ load' = [load EXCEPT ![k] = Begun]
            /\ UNCHANGED <<cache, source, served>>

\* The factory reads its data.
Read(k) == /\ load[k] = Begun
           /\ load' = [load EXCEPT ![k] = source[k]]
           /\ UNCHANGED <<cache, source, served>>

\* The factory returns an error.
GiveUp(k) == /\ load[k] = Begun
             /\ load' = [load EXCEPT ![k] = Absent]
             /\ UNCHANGED <<cache, source, served>>

\* What was read is stored where there is nothing, and returned.
Fill(k) == /\ load[k] \notin {Absent, Begun} /\ cache[k] = Absent
           /\ cache' = [cache EXCEPT ![k] = load[k]]
           /\ served' = [served EXCEPT ![k] = load[k]]
           /\ load' = [load EXCEPT ![k] = Absent]
           /\ UNCHANGED source

\* Delete, the end of the TTL, or an LRU eviction.
Drop(k) == /\ cache[k] # Absent
           /\ cache' = [cache EXCEPT ![k] = Absent]
           /\ UNCHANGED <<source, load, served>>

\* The data behind k changes.
Change(k) == /\ source[k] < MaxVersion
             /\ source' = [source EXCEPT ![k] = @ + 1]
             /\ UNCHANGED <<cache, load, served>>

Next == \E k \in Keys : \/ Hit(k)
                        \/ Begin(k)
                        \/ Read(k)
                        \/ GiveUp(k)
                        \/ Fill(k)
                        \/ Drop(k)
                        \/ Change(k)

Spec == Init /\ [][Next]_readVars
=============================================================================
