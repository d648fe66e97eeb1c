------------------------ MODULE LoaderCollectionProofs ------------------------
(***************************************************************************)
(* LoaderCollection for any number of requests, keys and entries: what can *)
(* be found in the collection has not been shut down.                      *)
(*                                                                         *)
(* StoredEntriesAlive is not inductive: it has to be known that whoever is *)
(* about to run a hook has an entry that is stored nowhere.  For a request *)
(* that follows from its having deleted the one key the entry was stored   *)
(* under (EntryKeyInv), and it lasts because an entry somebody refers to   *)
(* is not allocated again.                                                 *)
(***************************************************************************)
EXTENDS LoaderCollection, TLAPS

\* A request has an entry only between Load and Renew or GetHook.
LoadedInv == \A p \in Procs : pc[p] \in {"idle", "load", "set"} => e[p] = None

\* An entry is stored under one key.
DistinctInv == \A j, k \in Keys : values[j] = values[k] /\ values[j] # None => j = k

\* An entry that a request has loaded is stored under the request's key, if at all.
EntryKeyInv ==
    \A p \in Procs, k \in Keys : values[k] = e[p] /\ e[p] # None => k = key[p]

\* Who is about to run a hook has an entry that is no longer stored.
HookInv == \A p \in Procs, k \in Keys : pc[p] = "hook" => values[k] # e[p]

JanitorInv == je # None => \A k \in Keys : values[k] # je

IInv == /\ TypeOK
        /\ LoadedInv
        /\ DistinctInv
        /\ EntryKeyInv
        /\ HookInv
        /\ JanitorInv
        /\ StoredEntriesAlive
-----------------------------------------------------------------------------
LEMMA InitIInv == Init => IInv
  BY NoneAssumption
  DEF Init, IInv, TypeOK, LoadedInv, DistinctInv, EntryKeyInv, HookInv, JanitorInv,
      StoredEntriesAlive

LEMMA CallIInv ==
  ASSUME IInv, NEW p \in Procs, NEW k \in Keys, Call(p, k)
  PROVE  IInv'
<1> USE NoneAssumption DEF Call, Goto, janitorVars
<1>1. TypeOK'
  BY DEF IInv, TypeOK
<1>2. LoadedInv' /\ EntryKeyInv' /\ HookInv'
  BY DEF IInv, TypeOK, LoadedInv, EntryKeyInv, HookInv
<1>3. DistinctInv' /\ JanitorInv' /\ StoredEntriesAlive'
  BY DEF IInv, TypeOK, DistinctInv, JanitorInv, StoredEntriesAlive
<1> QED
  BY <1>1, <1>2, <1>3 DEF IInv

LEMMA LoadIInv ==
  ASSUME IInv, NEW p \in Procs, Load(p)
  PROVE  IInv'
<1> USE NoneAssumption DEF Load, Goto, janitorVars
<1>1. TypeOK'
  BY DEF IInv, TypeOK
<1>2. LoadedInv' /\ HookInv'
  BY DEF IInv, TypeOK, LoadedInv, HookInv
<1>3. EntryKeyInv'
  BY DEF IInv, TypeOK, DistinctInv, EntryKeyInv
<1>4. DistinctInv' /\ JanitorInv' /\ StoredEntriesAlive'
  BY DEF IInv, DistinctInv, JanitorInv, StoredEntriesAlive
<1> QED
  BY <1>1, <1>2, <1>3, <1>4 DEF IInv

LEMMA CheckIInv ==
  ASSUME IInv, NEW p \in Procs, Check(p)
  PROVE  IInv'
<1> USE NoneAssumption DEF Check, Goto, janitorVars
<1>1. TypeOK'
  BY DEF IInv, TypeOK
<1>2. LoadedInv' /\ EntryKeyInv' /\ HookInv'
  BY DEF IInv, TypeOK, LoadedInv, EntryKeyInv, HookInv
<1>3. DistinctInv' /\ JanitorInv' /\ StoredEntriesAlive'
  BY DEF IInv, TypeOK, DistinctInv, JanitorInv, StoredEntriesAlive
<1> QED
  BY <1>1, <1>2, <1>3 DEF IInv

LEMMA RenewIInv ==
  ASSUME IInv, NEW p \in Procs, Renew(p)
  PROVE  IInv'
<1> USE NoneAssumption DEF Renew, Goto, janitorVars
<1>1. TypeOK'
  BY DEF IInv, TypeOK
<1>2. LoadedInv' /\ EntryKeyInv' /\ HookInv'
  BY DEF IInv, TypeOK, LoadedInv, EntryKeyInv, HookInv
<1>3. DistinctInv' /\ JanitorInv' /\ StoredEntriesAlive'
  BY DEF IInv, TypeOK, DistinctInv, JanitorInv, StoredEntriesAlive
<1> QED
  BY <1>1, <1>2, <1>3 DEF IInv

LEMMA GetDeleteIInv ==
  ASSUME IInv, NEW p \in Procs, GetDelete(p)
  PROVE  IInv'
<1> USE NoneAssumption DEF GetDelete, Goto, Remove, janitorVars
<1>1. TypeOK'
  BY DEF IInv, TypeOK
<1>2. LoadedInv' /\ EntryKeyInv' /\ HookInv'
  BY DEF IInv, TypeOK, LoadedInv, EntryKeyInv, HookInv
<1>3. DistinctInv' /\ JanitorInv' /\ StoredEntriesAlive'
  BY DEF IInv, TypeOK, DistinctInv, JanitorInv, StoredEntriesAlive
<1> QED
  BY <1>1, <1>2, <1>3 DEF IInv

LEMMA GetHookIInv ==
  ASSUME IInv, NEW p \in Procs, GetHook(p)
  PROVE  IInv'
<1> USE NoneAssumption DEF GetHook, Goto, janitorVars
<1>1. TypeOK'
  BY DEF IInv, TypeOK
<1>2. LoadedInv' /\ EntryKeyInv' /\ HookInv'
  BY DEF IInv, TypeOK, LoadedInv, EntryKeyInv, HookInv
<1>3. DistinctInv' /\ JanitorInv'
  BY DEF IInv, DistinctInv, JanitorInv
<1>4. StoredEntriesAlive'
  BY DEF IInv, TypeOK, HookInv, StoredEntriesAlive
<1> QED
  BY <1>1, <1>2, <1>3, <1>4 DEF IInv

LEMMA SetIInv ==
  ASSUME IInv, NEW p \in Procs, NEW x \in Entries, Set(p, x)
  PROVE  IInv'
<1> USE NoneAssumption DEF Set, Goto, Unreferenced, Stored, janitorVars
<1>1. TypeOK'
  BY DEF IInv, TypeOK
<1>2. LoadedInv' /\ EntryKeyInv' /\ HookInv'
  BY DEF IInv, TypeOK, LoadedInv, EntryKeyInv, HookInv
<1>3. DistinctInv' /\ JanitorInv' /\ StoredEntriesAlive'
  BY DEF IInv, TypeOK, DistinctInv, JanitorInv, StoredEntriesAlive
<1> QED
  BY <1>1, <1>2, <1>3 DEF IInv

LEMMA RangeIInv ==
  ASSUME IInv, Tick \/ (\E k \in Keys : Visit(k)) \/ RangeDone \/ Sleep
  PROVE  IInv'
<1> USE NoneAssumption DEF Tick, Visit, RangeDone, Sleep, clientVars
<1>1. TypeOK'
  BY DEF IInv, TypeOK
<1>2. LoadedInv' /\ DistinctInv' /\ EntryKeyInv' /\ HookInv' /\ JanitorInv' /\ StoredEntriesAlive'
  BY DEF IInv, LoadedInv, DistinctInv, EntryKeyInv, HookInv, JanitorInv, StoredEntriesAlive
<1> QED
  BY <1>1, <1>2 DEF IInv

LEMMA TakeIInv ==
  ASSUME IInv, NEW k \in Keys, Take(k)
  PROVE  IInv'
<1> USE NoneAssumption DEF Take, Remove, clientVars
<1>1. TypeOK'
  BY DEF IInv, TypeOK
<1>2. LoadedInv' /\ EntryKeyInv' /\ HookInv'
  BY DEF IInv, TypeOK, LoadedInv, EntryKeyInv, HookInv
<1>3. DistinctInv' /\ StoredEntriesAlive'
  BY DEF IInv, TypeOK, DistinctInv, StoredEntriesAlive
<1>4. JanitorInv'
  BY DEF IInv, TypeOK, DistinctInv, JanitorInv
<1> QED
  BY <1>1, <1>2, <1>3, <1>4 DEF IInv

LEMMA TakeAgainIInv ==
  ASSUME IInv, TakeAgain
  PROVE  IInv'
<1> USE NoneAssumption DEF TakeAgain, Remove, clientVars
<1>1. TypeOK'
  BY DEF IInv, TypeOK
<1>2. LoadedInv' /\ EntryKeyInv' /\ HookInv'
  BY DEF IInv, TypeOK, LoadedInv, EntryKeyInv, HookInv
<1>3. DistinctInv' /\ JanitorInv' /\ StoredEntriesAlive'
  BY DEF IInv, TypeOK, DistinctInv, JanitorInv, StoredEntriesAlive
<1> QED
  BY <1>1, <1>2, <1>3 DEF IInv

LEMMA JanitorHookIInv ==
  ASSUME IInv, JanitorHook
  PROVE  IInv'
<1> USE NoneAssumption DEF JanitorHook, clientVars
<1>1. TypeOK'
  BY DEF IInv, TypeOK
<1>2. LoadedInv' /\ EntryKeyInv' /\ HookInv'
  BY DEF IInv, TypeOK, LoadedInv, EntryKeyInv, HookInv
<1>3. DistinctInv' /\ JanitorInv' /\ StoredEntriesAlive'
  BY DEF IInv, TypeOK, DistinctInv, JanitorInv, StoredEntriesAlive
<1> QED
  BY <1>1, <1>2, <1>3 DEF IInv

LEMMA ExpireIInv ==
  ASSUME IInv, NEW x \in Entries, Expire(x)
  PROVE  IInv'
<1> USE NoneAssumption DEF Expire, clientVars, janitorVars
<1>1. TypeOK'
  BY DEF IInv, TypeOK
<1>2. LoadedInv' /\ DistinctInv' /\ EntryKeyInv' /\ HookInv' /\ JanitorInv' /\ StoredEntriesAlive'
  BY DEF IInv, LoadedInv, DistinctInv, EntryKeyInv, HookInv, JanitorInv, StoredEntriesAlive
<1> QED
  BY <1>1, <1>2 DEF IInv

LEMMA NextIInv == IInv /\ [Next]_vars => IInv'
<1> SUFFICES ASSUME IInv, [Next]_vars PROVE IInv'
  OBVIOUS
<1>1. CASE UNCHANGED vars
  BY <1>1 DEF IInv, vars, TypeOK, LoadedInv, DistinctInv, EntryKeyInv, HookInv,
              JanitorInv, StoredEntriesAlive
<1>2. ASSUME NEW p \in Procs, Request(p) PROVE IInv'
  BY <1>2, CallIInv, LoadIInv, CheckIInv, RenewIInv, GetDeleteIInv, GetHookIInv, SetIInv
  DEF Request
<1>3. CASE Janitor
  BY <1>3, RangeIInv, TakeIInv, TakeAgainIInv, JanitorHookIInv DEF Janitor
<1>4. ASSUME NEW x \in Entries, Expire(x) PROVE IInv'
  BY <1>4, ExpireIInv
<1> QED
  BY <1>1, <1>2, <1>3, <1>4 DEF Next
-----------------------------------------------------------------------------
LEMMA Inductive == Spec => []IInv
  BY InitIInv, NextIInv, PTL DEF Spec

\* The variables of the collection, its requests and its janitor stay in their
\* types; whoever checks, renews, deletes or shuts down an entry has one.
THEOREM TypeCorrect == Spec => []TypeOK
<1>1. IInv => TypeOK
  BY DEF IInv
<1> QED
  BY <1>1, Inductive, PTL

\* OnDelete has not run for any entry that Get can still find.
THEOREM FoundEntriesLive == Spec => []StoredEntriesAlive
<1>1. IInv => StoredEntriesAlive
  BY DEF IInv
<1> QED
  BY <1>1, Inductive, PTL
=============================================================================
