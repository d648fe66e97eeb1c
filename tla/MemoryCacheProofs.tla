-------------------------- MODULE MemoryCacheProofs --------------------------
(***************************************************************************)
(* MemoryCache for any number of goroutines, keys, changes and removals:   *)
(* one factory at a time per key, one fill per absence, and no caller is   *)
(* served an older value than another was before.                          *)
(*                                                                         *)
(* None of these is inductive.  They rest on the lock (ExclusionInv), on   *)
(* the cache being empty for as long as a factory runs under it (FillInv), *)
(* and on what that factory read being no older than what has been served  *)
(* (FreshInv): with the cache empty nothing else can be served meanwhile.  *)
(***************************************************************************)
EXTENDS MemoryCache, TLAPS

\* Where p is in GetOrSet says where it is in the lock.
LockPhase(p) == IF pc[p] \in {"idle", "first"} THEN "idle"
                ELSE IF pc[p] = "lock" THEN "waiting" ELSE "holding"

PhaseInv == \A p \in Procs : phase[p] = LockPhase(p)

\* The lock of a key has one holder.
ExclusionInv ==
    \A p, q \in Procs :
        phase[p] = "holding" /\ phase[q] = "holding" /\ key[p] = key[q] => p = q

\* While a factory runs for a key the cache has nothing for it.
FillInv == \A p \in Procs : pc[p] \in {"factory", "store"} => cache[key[p]] = Absent

\* Neither what was served nor what is cached is newer than its source, and
\* what is cached is no older than what was served.
VersionInv ==
    \A k \in Keys :
        /\ served[k] <= source[k]
        /\ cache[k] # Absent => served[k] <= cache[k] /\ cache[k] <= source[k]

\* What a factory has read may be served.
FreshInv ==
    \A p \in Procs :
        pc[p] = "store" => /\ val[p] \in Versions
                           /\ served[key[p]] <= val[p]
                           /\ val[p] <= source[key[p]]

IInv == /\ TypeOK
        /\ PhaseInv
        /\ ExclusionInv
        /\ FillInv
        /\ OneFillPerAbsence
        /\ VersionInv
        /\ FreshInv
-----------------------------------------------------------------------------
LEMMA InitIInv ==
  ASSUME BoundsAssumption
  PROVE  Init => IInv
  BY DEF BoundsAssumption, Init, StateInit, IInv, TypeOK, L!TypeOK, L!Init,
         L!Phases, Labels, Versions, Absent, PhaseInv, LockPhase, ExclusionInv, FillInv,
         OneFillPerAbsence, VersionInv, FreshInv

LEMMA CallIInv ==
  ASSUME IInv, NEW p \in Procs, NEW k \in Keys, Call(p, k)
  PROVE  IInv'
<1> USE DEF Call, Goto
<1>1. TypeOK'
  BY DEF IInv, TypeOK, L!TypeOK, Labels
<1>2. PhaseInv' /\ ExclusionInv'
  BY DEF IInv, TypeOK, L!TypeOK, PhaseInv, LockPhase, ExclusionInv
<1>3. FillInv' /\ FreshInv'
  BY DEF IInv, TypeOK, L!TypeOK, FillInv, FreshInv
<1>4. OneFillPerAbsence' /\ VersionInv'
  BY DEF IInv, OneFillPerAbsence, VersionInv
<1> QED
  BY <1>1, <1>2, <1>3, <1>4 DEF IInv

LEMMA FirstGetIInv ==
  ASSUME IInv, NEW p \in Procs, FirstGet(p)
  PROVE  IInv'
<1> USE DEF FirstGet, Goto, Serve, L!Request
<1>1. TypeOK'
  BY DEF IInv, TypeOK, L!TypeOK, L!Phases, Labels
<1>2. PhaseInv' /\ ExclusionInv'
  BY DEF IInv, TypeOK, L!TypeOK, PhaseInv, LockPhase, ExclusionInv
<1>3. VersionInv'
  BY DEF IInv, TypeOK, L!TypeOK, VersionInv, Versions, Absent
<1>4. FillInv' /\ FreshInv'
  BY DEF IInv, TypeOK, L!TypeOK, FillInv, FreshInv, Versions, Absent
<1>5. OneFillPerAbsence'
  BY DEF IInv, OneFillPerAbsence
<1> QED
  BY <1>1, <1>2, <1>3, <1>4, <1>5 DEF IInv

LEMMA LockedIInv ==
  ASSUME IInv, NEW p \in Procs, Locked(p)
  PROVE  IInv'
<1> USE DEF Locked, Goto, L!Acquire, L!Holders
<1>1. TypeOK'
  BY DEF IInv, TypeOK, L!TypeOK, L!Phases, Labels
<1>2. PhaseInv'
  BY DEF IInv, TypeOK, L!TypeOK, PhaseInv, LockPhase
<1>3. ExclusionInv'
  BY DEF IInv, TypeOK, L!TypeOK, ExclusionInv
<1>4. FillInv' /\ FreshInv'
  BY DEF IInv, TypeOK, L!TypeOK, FillInv, FreshInv
<1>5. OneFillPerAbsence' /\ VersionInv'
  BY DEF IInv, OneFillPerAbsence, VersionInv
<1> QED
  BY <1>1, <1>2, <1>3, <1>4, <1>5 DEF IInv

LEMMA SecondGetIInv ==
  ASSUME IInv, NEW p \in Procs, SecondGet(p)
  PROVE  IInv'
<1> USE DEF SecondGet, Goto, Serve
<1>1. TypeOK'
  BY DEF IInv, TypeOK, L!TypeOK, Labels
<1>2. PhaseInv' /\ ExclusionInv'
  BY DEF IInv, TypeOK, L!TypeOK, PhaseInv, LockPhase, ExclusionInv
<1>3. VersionInv'
  BY DEF IInv, TypeOK, L!TypeOK, VersionInv, Versions, Absent
<1>4. FillInv' /\ FreshInv'
  BY DEF IInv, TypeOK, L!TypeOK, FillInv, FreshInv, Versions, Absent
<1>5. OneFillPerAbsence'
  BY DEF IInv, OneFillPerAbsence
<1> QED
  BY <1>1, <1>2, <1>3, <1>4, <1>5 DEF IInv

LEMMA ProduceIInv ==
  ASSUME IInv, NEW p \in Procs, Produce(p)
  PROVE  IInv'
<1> USE DEF Produce, Goto
<1>1. TypeOK'
  BY DEF IInv, TypeOK, L!TypeOK, Labels
<1>2. PhaseInv' /\ ExclusionInv'
  BY DEF IInv, TypeOK, L!TypeOK, PhaseInv, LockPhase, ExclusionInv
<1>3. FillInv'
  BY DEF IInv, TypeOK, L!TypeOK, FillInv
<1>4. FreshInv'
  BY DEF IInv, TypeOK, L!TypeOK, FreshInv, VersionInv, Versions
<1>5. OneFillPerAbsence' /\ VersionInv'
  BY DEF IInv, OneFillPerAbsence, VersionInv
<1> QED
  BY <1>1, <1>2, <1>3, <1>4, <1>5 DEF IInv

LEMMA FailIInv ==
  ASSUME IInv, NEW p \in Procs, Fail(p)
  PROVE  IInv'
<1> USE DEF Fail, Goto
<1>1. TypeOK'
  BY DEF IInv, TypeOK, L!TypeOK, Labels
<1>2. PhaseInv' /\ ExclusionInv'
  BY DEF IInv, TypeOK, L!TypeOK, PhaseInv, LockPhase, ExclusionInv
<1>3. FillInv' /\ FreshInv'
  BY DEF IInv, TypeOK, L!TypeOK, FillInv, FreshInv
<1>4. OneFillPerAbsence' /\ VersionInv'
  BY DEF IInv, OneFillPerAbsence, VersionInv
<1> QED
  BY <1>1, <1>2, <1>3, <1>4 DEF IInv

\* What p stores goes where nothing is, and p is the only one to store.
LEMMA StoreIInv ==
  ASSUME BoundsAssumption, IInv, NEW p \in Procs, Store(p)
  PROVE  IInv'
<1> USE DEF Store, Goto, Serve
<1>1. /\ key[p] \in Keys
      /\ val[p] \in Versions
      /\ cache[key[p]] = Absent
      /\ served[key[p]] <= val[p]
      /\ val[p] <= source[key[p]]
  BY DEF IInv, TypeOK, L!TypeOK, FillInv, FreshInv
<1>2. \A q \in Procs \ {p} : pc[q] \in {"factory", "store"} => key[q] # key[p]
  BY DEF IInv, PhaseInv, LockPhase, ExclusionInv
<1>3. fills[key[p]] = removals[key[p]]
  BY <1>1 DEF BoundsAssumption, IInv, TypeOK, OneFillPerAbsence
<1>4. TypeOK'
  BY <1>1, <1>3 DEF BoundsAssumption, IInv, TypeOK, L!TypeOK, Labels
<1>5. PhaseInv' /\ ExclusionInv'
  BY DEF IInv, TypeOK, L!TypeOK, PhaseInv, LockPhase, ExclusionInv
<1>6. FillInv'
  BY <1>2 DEF IInv, TypeOK, L!TypeOK, FillInv
<1>7. FreshInv'
  BY <1>2 DEF IInv, TypeOK, L!TypeOK, FreshInv
<1>8. VersionInv'
  BY <1>1 DEF BoundsAssumption, IInv, TypeOK, VersionInv, Versions, Absent
<1>9. OneFillPerAbsence'
  BY <1>1, <1>3 DEF BoundsAssumption, IInv, TypeOK, OneFillPerAbsence, Versions, Absent
<1> QED
  BY <1>4, <1>5, <1>6, <1>7, <1>8, <1>9 DEF IInv

LEMMA ReturnIInv ==
  ASSUME IInv, NEW p \in Procs, Return(p)
  PROVE  IInv'
<1> USE DEF Return, Goto, L!Release
<1>1. TypeOK'
  BY DEF IInv, TypeOK, L!TypeOK, L!Phases, Labels
<1>2. PhaseInv' /\ ExclusionInv'
  BY DEF IInv, TypeOK, L!TypeOK, PhaseInv, LockPhase, ExclusionInv
<1>3. FillInv' /\ FreshInv'
  BY DEF IInv, TypeOK, L!TypeOK, FillInv, FreshInv
<1>4. OneFillPerAbsence' /\ VersionInv'
  BY DEF IInv, OneFillPerAbsence, VersionInv
<1> QED
  BY <1>1, <1>2, <1>3, <1>4 DEF IInv

LEMMA RemoveIInv ==
  ASSUME BoundsAssumption, IInv, NEW k \in Keys, Remove(k)
  PROVE  IInv'
<1> USE DEF Remove
<1>1. TypeOK'
  BY DEF BoundsAssumption, IInv, TypeOK, L!TypeOK
<1>2. PhaseInv' /\ ExclusionInv'
  BY DEF IInv, PhaseInv, LockPhase, ExclusionInv
<1>3. FillInv' /\ FreshInv'
  BY DEF IInv, TypeOK, L!TypeOK, FillInv, FreshInv
<1>4. VersionInv'
  BY DEF IInv, TypeOK, VersionInv
<1>5. OneFillPerAbsence'
  BY DEF BoundsAssumption, IInv, TypeOK, OneFillPerAbsence
<1> QED
  BY <1>1, <1>2, <1>3, <1>4, <1>5 DEF IInv

LEMMA ChangeIInv ==
  ASSUME BoundsAssumption, IInv, NEW k \in Keys, Change(k)
  PROVE  IInv'
<1> USE DEF Change
<1>1. TypeOK'
  BY DEF BoundsAssumption, IInv, TypeOK, L!TypeOK, Versions
<1>2. PhaseInv' /\ ExclusionInv' /\ FillInv' /\ OneFillPerAbsence'
  BY DEF IInv, PhaseInv, LockPhase, ExclusionInv, FillInv, OneFillPerAbsence
<1>3. VersionInv'
  BY DEF BoundsAssumption, IInv, TypeOK, VersionInv, Versions, Absent
<1>4. FreshInv'
  BY DEF BoundsAssumption, IInv, TypeOK, L!TypeOK, FreshInv, Versions
<1> QED
  BY <1>1, <1>2, <1>3, <1>4 DEF IInv

LEMMA NextIInv ==
  ASSUME BoundsAssumption
  PROVE  IInv /\ [Next]_vars => IInv'
<1> SUFFICES ASSUME IInv, [Next]_vars PROVE IInv'
  OBVIOUS
<1>1. CASE UNCHANGED vars
  BY <1>1 DEF IInv, vars, TypeOK, L!TypeOK, PhaseInv, LockPhase, ExclusionInv,
              FillInv, OneFillPerAbsence, VersionInv, FreshInv
<1>2. ASSUME NEW p \in Procs, NEW k \in Keys, Call(p, k) PROVE IInv'
  BY <1>2, CallIInv
<1>3. ASSUME NEW p \in Procs, Locked(p) PROVE IInv'
  BY <1>3, LockedIInv
<1>4. ASSUME NEW p \in Procs, Proceed(p) PROVE IInv'
  BY <1>4, FirstGetIInv, SecondGetIInv, ProduceIInv, FailIInv, StoreIInv, ReturnIInv
  DEF Proceed
<1>5. ASSUME NEW k \in Keys, Remove(k) \/ Change(k) PROVE IInv'
  BY <1>5, RemoveIInv, ChangeIInv
<1> QED
  BY <1>1, <1>2, <1>3, <1>4, <1>5 DEF Next
-----------------------------------------------------------------------------
LEMMA Inductive ==
  ASSUME BoundsAssumption
  PROVE  Spec => []IInv
  BY InitIInv, NextIInv, PTL DEF Spec

\* The variables of memorycache.GetOrSet stay in their types; that the number
\* of fills does is already a matter of the lock.
THEOREM TypeCorrect ==
  ASSUME BoundsAssumption
  PROVE  Spec => []TypeOK
<1>1. IInv => TypeOK
  BY DEF IInv
<1> QED
  BY <1>1, Inductive, PTL

\* GetOrSet runs one factory at a time for a key.
THEOREM OneFactory ==
  ASSUME BoundsAssumption
  PROVE  Spec => []SingleFlight
<1>1. IInv => SingleFlight
  BY DEF IInv, PhaseInv, LockPhase, ExclusionInv, SingleFlight
<1> QED
  BY <1>1, Inductive, PTL

\* GetOrSet never stores a value over another one: there are as many fills as
\* the entry has been absent.
THEOREM FillsFollowAbsences ==
  ASSUME BoundsAssumption
  PROVE  Spec => []OneFillPerAbsence
<1>1. IInv => OneFillPerAbsence
  BY DEF IInv
<1> QED
  BY <1>1, Inductive, PTL

LEMMA ServedStep ==
  ASSUME BoundsAssumption, IInv, [Next]_vars, NEW k \in Keys
  PROVE  served'[k] >= served[k]
<1>1. served \in [Keys -> Int]
  BY DEF BoundsAssumption, IInv, TypeOK, Versions, Absent
<1>2. CASE UNCHANGED served
  BY <1>1, <1>2
<1>3. ASSUME NEW p \in Procs, FirstGet(p) \/ SecondGet(p)
      PROVE  served'[k] >= served[k]
  BY <1>1, <1>3
  DEF IInv, TypeOK, L!TypeOK, VersionInv, FirstGet, SecondGet, Serve
<1>4. ASSUME NEW p \in Procs, Store(p)
      PROVE  served'[k] >= served[k]
  BY <1>1, <1>4 DEF IInv, TypeOK, L!TypeOK, FreshInv, Store, Serve
<1> QED
  BY <1>2, <1>3, <1>4
  DEF Next, Proceed, vars, Call, Locked, Produce, Fail, Return, Remove, Change

\* GetOrSet serves no value older than one it has served before.
THEOREM NothingOlderIsServed ==
  ASSUME BoundsAssumption
  PROVE  Spec => ServedNeverOlder
<1>1. IInv /\ [Next]_vars => [\A k \in Keys : served'[k] >= served[k]]_vars
  BY ServedStep
<1> QED
  BY <1>1, Inductive, PTL DEF Spec, ServedNeverOlder
-----------------------------------------------------------------------------
\* p runs the factory of k or is about to store what it returned.
Loading(p, k) == key[p] = k /\ pc[p] \in {"factory", "store"}

\* The load of a key is that of the one goroutine that runs its factory.
LoadInv ==
    \A k \in Keys :
        /\ \A p \in Procs : Loading(p, k) =>
               LoadOf(k) = IF pc[p] = "factory" THEN Begun ELSE val[p]
        /\ (\A p \in Procs : ~Loading(p, k)) => LoadOf(k) = Absent

LEMMA OneLoad == IInv => LoadInv
<1> SUFFICES ASSUME IInv, NEW k \in Keys
             PROVE  /\ \A p \in Procs : Loading(p, k) =>
                           LoadOf(k) = IF pc[p] = "factory" THEN Begun ELSE val[p]
                    /\ (\A p \in Procs : ~Loading(p, k)) => LoadOf(k) = Absent
  BY DEF LoadInv
<1>1. \A p, q \in Procs : Loading(p, k) /\ Loading(q, k) => p = q
  BY DEF IInv, PhaseInv, LockPhase, ExclusionInv, Loading
<1>2. ASSUME NEW p \in Procs, Loading(p, k), pc[p] = "factory"
      PROVE  LoadOf(k) = Begun
  BY <1>1, <1>2 DEF Loading, LoadOf
<1>3. ASSUME NEW p \in Procs, Loading(p, k), pc[p] = "store"
      PROVE  LoadOf(k) = val[p]
  <2>1. ~\E q \in Procs : pc[q] = "factory" /\ key[q] = k
    BY <1>1, <1>3 DEF Loading
  <2>2. p = CHOOSE q \in Procs : pc[q] = "store" /\ key[q] = k
    BY <1>1, <1>3 DEF Loading
  <2> QED
    BY <1>3, <2>1, <2>2 DEF Loading, LoadOf
<1>4. ASSUME \A p \in Procs : ~Loading(p, k) PROVE LoadOf(k) = Absent
  BY <1>4 DEF Loading, LoadOf
<1> QED
  BY <1>2, <1>3, <1>4 DEF Loading

\* A step that is not about the load of k leaves it as it is.
LEMMA LoadStays ==
  ASSUME LoadInv, LoadInv', NEW k \in Keys,
         \A q \in Procs : \/ pc'[q] = pc[q] /\ key'[q] = key[q] /\ val'[q] = val[q]
                          \/ ~Loading(q, k) /\ ~Loading(q, k)'
  PROVE  LoadOf(k)' = LoadOf(k)
<1>1. CASE \A q \in Procs : ~Loading(q, k)
  <2>1. \A q \in Procs : ~Loading(q, k)'
    BY <1>1 DEF Loading
  <2> QED
    BY <1>1, <2>1 DEF LoadInv
<1>2. ASSUME NEW q \in Procs, Loading(q, k) PROVE LoadOf(k)' = LoadOf(k)
  <2>1. Loading(q, k)' /\ pc'[q] = pc[q] /\ val'[q] = val[q]
    BY <1>2 DEF Loading
  <2>2. LoadOf(k) = IF pc[q] = "factory" THEN Begun ELSE val[q]
    BY <1>2 DEF LoadInv
  <2>3. LoadOf(k)' = IF pc'[q] = "factory" THEN Begun ELSE val'[q]
    BY <2>1 DEF LoadInv, Begun
  <2> QED
    BY <2>1, <2>2, <2>3
<1> QED
  BY <1>1, <1>2

\* Of all loads only that of p's key changes by what p does, and none does if
\* p is not loading.
LEMMA LoadChanges ==
  ASSUME IInv, LoadInv, LoadInv', NEW p \in Procs,
         pc' = [pc EXCEPT ![p] = pc'[p]], val' = [val EXCEPT ![p] = val'[p]],
         key' = [key EXCEPT ![p] = key'[p]]
  PROVE  /\ UNCHANGED key =>
                [k \in Keys |-> LoadOf(k)]'
                    = [[k \in Keys |-> LoadOf(k)] EXCEPT ![key[p]] = LoadOf(key[p])']
         /\ (\A k \in Keys : ~Loading(p, k) /\ ~Loading(p, k)') =>
                [k \in Keys |-> LoadOf(k)]' = [k \in Keys |-> LoadOf(k)]
<1> DEFINE load == [k \in Keys |-> LoadOf(k)]
<1>1. \A q \in Procs \ {p} : pc'[q] = pc[q] /\ key'[q] = key[q] /\ val'[q] = val[q]
  BY DEF IInv, TypeOK, L!TypeOK
<1>2. ASSUME NEW k \in Keys, ~Loading(p, k) /\ ~Loading(p, k)'
      PROVE  LoadOf(k)' = LoadOf(k)
  <2>1. \A q \in Procs : \/ pc'[q] = pc[q] /\ key'[q] = key[q] /\ val'[q] = val[q]
                         \/ ~Loading(q, k) /\ ~Loading(q, k)'
    BY <1>1, <1>2 DEF Loading
  <2> QED
    BY <2>1, LoadStays
<1>3. ASSUME \A k \in Keys : ~Loading(p, k) /\ ~Loading(p, k)'
      PROVE  load' = load
  BY <1>2, <1>3
<1>4. ASSUME UNCHANGED key
      PROVE  load' = [load EXCEPT ![key[p]] = LoadOf(key[p])']
  <2>1. \A k \in Keys \ {key[p]} : ~Loading(p, k) /\ ~Loading(p, k)'
    BY <1>4 DEF Loading
  <2>2. \A k \in Keys \ {key[p]} : LoadOf(k)' = LoadOf(k)
    BY <1>2, <2>1
  <2>3. key[p] \in Keys /\ key'[p] = key[p]
    BY <1>4 DEF IInv, TypeOK, L!TypeOK
  <2> QED
    BY <2>2, <2>3
<1> QED
  BY <1>3, <1>4

LEMMA InitLoads ==
  ASSUME BoundsAssumption
  PROVE  Init => Loads!Init
<1> SUFFICES ASSUME Init PROVE Loads!Init
  OBVIOUS
<1>1. \A k \in Keys : LoadOf(k) = Absent
  BY InitIInv, OneLoad DEF LoadInv, Loading, Init
<1> QED
  BY <1>1 DEF Init, StateInit, Loads!Init, Absent, Loads!Absent

\* A step that neither loads nor serves.
LEMMA OutsideLoads ==
  ASSUME IInv, LoadInv, LoadInv', NEW p \in Procs,
         \/ \E k \in Keys : Call(p, k)
         \/ Locked(p) \/ Return(p)
         \/ FirstGet(p) /\ cache[key[p]] = Absent
  PROVE  UNCHANGED Loads!readVars
<1>1. /\ pc' = [pc EXCEPT ![p] = pc'[p]] /\ val' = [val EXCEPT ![p] = val'[p]]
      /\ key' = [key EXCEPT ![p] = key'[p]]
      /\ \A k \in Keys : ~Loading(p, k) /\ ~Loading(p, k)'
  BY DEF IInv, TypeOK, L!TypeOK, Call, Locked, Return, FirstGet, Goto, Loading,
         L!Request, L!Acquire, L!Release
<1>2. UNCHANGED <<cache, source, served>>
  BY DEF Call, Locked, Return, FirstGet
<1> QED
  BY <1>1, <1>2, LoadChanges DEF Loads!readVars

\* What a call serves without a load it has found in the cache.
LEMMA HitLoads ==
  ASSUME IInv, LoadInv, LoadInv', NEW p \in Procs, FirstGet(p) \/ SecondGet(p),
         cache[key[p]] # Absent
  PROVE  Loads!Hit(key[p])
<1>1. /\ pc' = [pc EXCEPT ![p] = pc'[p]] /\ val' = [val EXCEPT ![p] = val'[p]]
      /\ key' = [key EXCEPT ![p] = key'[p]]
      /\ \A k \in Keys : ~Loading(p, k) /\ ~Loading(p, k)'
  BY DEF IInv, TypeOK, L!TypeOK, FirstGet, SecondGet, Goto, Serve, Loading
<1>2. [k \in Keys |-> LoadOf(k)]' = [k \in Keys |-> LoadOf(k)]
  BY <1>1, LoadChanges
<1> QED
  BY <1>2 DEF FirstGet, SecondGet, Serve, Loads!Hit, Loads!Absent, Absent

\* Between the second look and the value that is stored p has the only load.
LEMMA OwnLoads ==
  ASSUME IInv, LoadInv, LoadInv', NEW p \in Procs,
         SecondGet(p) \/ Produce(p) \/ Fail(p) \/ Store(p)
  PROVE  [Loads!Next]_(Loads!readVars)
<1> DEFINE k == key[p]
           load == [j \in Keys |-> LoadOf(j)]
<1>1. /\ k \in Keys /\ UNCHANGED key
      /\ pc' = [pc EXCEPT ![p] = pc'[p]] /\ val' = [val EXCEPT ![p] = val'[p]]
  BY DEF IInv, TypeOK, L!TypeOK, SecondGet, Produce, Fail, Store, Goto, Serve
<1>2. load' = [load EXCEPT ![k] = LoadOf(k)']
  <2>1. key' = [key EXCEPT ![p] = key'[p]]
    BY <1>1 DEF IInv, TypeOK, L!TypeOK
  <2> QED
    BY <1>1, <2>1, LoadChanges
<1>3. \A q \in Procs \ {p} : ~Loading(q, k) /\ ~Loading(q, k)'
  <2>1. \A q \in Procs \ {p} : ~Loading(q, k)
    BY DEF IInv, PhaseInv, LockPhase, ExclusionInv, Loading, SecondGet, Produce,
           Fail, Store
  <2> QED
    BY <1>1, <2>1 DEF IInv, TypeOK, Loading
<1>4. Loads!Absent = Absent /\ Loads!Begun = Begun
  BY DEF Loads!Absent, Loads!Begun, Absent, Begun
<1>5. CASE SecondGet(p) /\ cache[k] = Absent
  <2>1. LoadOf(k) = Absent /\ LoadOf(k)' = Begun
    BY <1>1, <1>3, <1>5 DEF SecondGet, Goto, IInv, TypeOK, LoadInv, Loading, Begun
  <2>2. Loads!Begin(k)
    BY <1>1, <1>2, <1>4, <1>5, <2>1 DEF Loads!Begin, SecondGet
  <2> QED
    BY <1>1, <2>2 DEF Loads!Next
<1>6. CASE SecondGet(p) /\ cache[k] # Absent
  BY <1>1, <1>6, HitLoads DEF Loads!Next
<1>7. CASE Produce(p)
  <2>1. LoadOf(k) = Begun /\ LoadOf(k)' = source[k]
    BY <1>1, <1>7 DEF Produce, Goto, IInv, TypeOK, LoadInv, Loading
  <2>2. Loads!Read(k)
    BY <1>1, <1>2, <1>4, <1>7, <2>1 DEF Loads!Read, Produce
  <2> QED
    BY <1>1, <2>2 DEF Loads!Next
<1>8. CASE Fail(p)
  <2>1. LoadOf(k) = Begun /\ LoadOf(k)' = Absent
    BY <1>1, <1>3, <1>8 DEF Fail, Goto, IInv, TypeOK, LoadInv, Loading, Absent
  <2>2. Loads!GiveUp(k)
    BY <1>1, <1>2, <1>4, <1>8, <2>1 DEF Loads!GiveUp, Fail
  <2> QED
    BY <1>1, <2>2 DEF Loads!Next
<1>9. CASE Store(p)
  <2>1. cache[k] = Absent /\ val[p] \in Versions
    BY <1>9 DEF Store, IInv, FillInv, FreshInv
  <2>2. LoadOf(k) = val[p] /\ LoadOf(k)' = Absent
    BY <1>1, <1>3, <1>9 DEF Store, Goto, IInv, TypeOK, LoadInv, Loading, Absent
  <2>3. load[k] \notin {Absent, Begun} /\ load[k] = val[p]
    BY <1>1, <2>1, <2>2 DEF BoundsAssumption, Versions, Absent, Begun
  <2>4. load' = [load EXCEPT ![k] = Absent]
    BY <1>2, <2>2
  <2>5. /\ cache' = [cache EXCEPT ![k] = load[k]]
        /\ served' = [served EXCEPT ![k] = load[k]]
        /\ UNCHANGED source
    BY <1>9, <2>3 DEF Store, Serve
  <2> HIDE DEF load
  <2>6. Loads!Fill(k)
    BY <1>4, <2>1, <2>3, <2>4, <2>5 DEF Loads!Fill, load
  <2> QED
    BY <1>1, <2>6 DEF Loads!Next
<1> QED
  BY <1>5, <1>6, <1>7, <1>8, <1>9

\* What happens to the cache or to the data happens to no load.
LEMMA LoadsGoOn ==
  ASSUME LoadInv, LoadInv', NEW k \in Keys, Remove(k) \/ Change(k)
  PROVE  Loads!Next
<1>1. \A j \in Keys : LoadOf(j)' = LoadOf(j)
  <2>1. UNCHANGED <<pc, key, val>>
    BY DEF Remove, Change
  <2> QED
    BY <2>1, LoadStays
<1>2. [j \in Keys |-> LoadOf(j)]' = [j \in Keys |-> LoadOf(j)]
  BY <1>1
<1>3. Loads!Drop(k) \/ Loads!Change(k)
  BY <1>2 DEF Remove, Change, Loads!Drop, Loads!Change, Absent, Loads!Absent
<1> QED
  BY <1>3 DEF Loads!Next

LEMMA StepLoads ==
  ASSUME BoundsAssumption
  PROVE  IInv /\ LoadInv /\ LoadInv' /\ [Next]_vars => [Loads!Next]_(Loads!readVars)
<1> SUFFICES ASSUME IInv, LoadInv, LoadInv', [Next]_vars
             PROVE  [Loads!Next]_(Loads!readVars)
  OBVIOUS
<1>1. CASE UNCHANGED vars
  <2>1. \A k \in Keys : LoadOf(k)' = LoadOf(k)
    <3>1. UNCHANGED <<pc, key, val>>
      BY <1>1 DEF vars
    <3> QED
      BY <3>1, LoadStays
  <2> QED
    BY <1>1, <2>1 DEF vars, Loads!readVars
<1>2. ASSUME NEW p \in Procs, (\E k \in Keys : Call(p, k)) \/ Locked(p) \/ Proceed(p)
      PROVE  [Loads!Next]_(Loads!readVars)
  <2>1. CASE FirstGet(p) /\ cache[key[p]] # Absent
    <3>1. key[p] \in Keys
      BY DEF IInv, TypeOK, L!TypeOK
    <3> QED
      BY <2>1, <3>1, HitLoads DEF Loads!Next
  <2> QED
    BY <1>2, <2>1, OutsideLoads, OwnLoads DEF Proceed
<1>3. ASSUME NEW k \in Keys, Remove(k) \/ Change(k)
      PROVE  [Loads!Next]_(Loads!readVars)
  BY <1>3, LoadsGoOn
<1> QED
  BY <1>1, <1>2, <1>3 DEF Next

\* GetOrSet, for any number of goroutines and keys, is the read-through cache
\* of module ReadThrough: a value is loaded only while there is none and by one
\* goroutine at a time, nothing is stored over another value, and what is
\* served is what was stored last.
THEOREM ReadsThrough ==
  ASSUME BoundsAssumption
  PROVE  Spec => ImplementsReadThrough
<1>1. IInv => LoadInv
  BY OneLoad
<1> QED
  BY <1>1, InitLoads, StepLoads, Inductive, PTL DEF Spec, ImplementsReadThrough, Loads!Spec
=============================================================================
