--------------------------- MODULE KeyedLockProofs ---------------------------
(***************************************************************************)
(* KeyedLock for any number of goroutines, keys and addresses: the table   *)
(* of counted entries keeps mutual exclusion per key, its counts are the   *)
(* users, it holds an entry exactly for the keys in use, and it implements *)
(* the lock of module Mutex.                                               *)
(*                                                                         *)
(* MutualExclusion is not inductive: that two holders of a key have locked *)
(* the same entry follows from the table still pointing at the entry each  *)
(* of them found, and that it still does from the count being exact at     *)
(* the moment somebody deletes.                                            *)
(***************************************************************************)
EXTENDS KeyedLock, FiniteSetTheorems, TLAPS

\* p is past the lookup: it has found or made its entry.
Active(p) == pc[p] \notin {"idle", "lookup"}

\* locksMu is held exactly by the goroutine between its Lock and its Unlock.
TableMutexInv == \A p \in Procs :
                    pc[p] \in {"lookup", "count", "unref"} <=> locksMu = p

\* The table still points at the entry that an active goroutine found.
EntryInv == \A p \in Procs :
               /\ Active(p) => obj[p] \in Objs /\ obj[p] = locks[key[p]]
               /\ ~Active(p) => obj[p] = NoObj

\* One entry serves one key.
DistinctInv == \A j, k \in Keys : locks[j] = locks[k] /\ locks[j] # NoObj => j = k

\* A holder has locked the mutex of its entry.
HeldInv == \A p \in Procs : pc[p] = "held" => mu[obj[p]] = p

\* An entry in the table has somebody behind it.
UsedInv == \A k \in Keys :
              locks[k] # NoObj => \E p \in Procs : key[p] = k /\ Active(p)

IInv == /\ TypeOK
        /\ TableMutexInv
        /\ EntryInv
        /\ DistinctInv
        /\ HeldInv
        /\ RefsExact
        /\ UsedInv
-----------------------------------------------------------------------------
\* The users of an entry are finitely many.
LEMMA UsersFinite == \A o \in Objs : IsFiniteSet(Users(o))
  BY ProcsAssumption, FS_Subset DEF Users

LEMMA InitIInv == Init => IInv
<1> SUFFICES ASSUME Init PROVE IInv
  OBVIOUS
<1>1. TypeOK /\ TableMutexInv /\ EntryInv /\ DistinctInv /\ HeldInv /\ UsedInv
  BY ProcsAssumption, ObjsAssumption
  DEF Init, TypeOK, Labels, TableMutexInv, EntryInv, DistinctInv, HeldInv,
      UsedInv, Active
<1>2. \A o \in Objs : Users(o) = {}
  BY DEF Init, Users
<1>3. RefsExact
  BY <1>2, FS_EmptySet DEF Init, RefsExact
<1> QED
  BY <1>1, <1>3 DEF IInv
-----------------------------------------------------------------------------
LEMMA EnterStep ==
  ASSUME IInv, NEW p \in Procs, NEW k \in Keys, Enter(p, k)
  PROVE  IInv'
<1> USE DEF IInv, TypeOK, Enter
<1>1. TypeOK' /\ TableMutexInv'
  BY ProcsAssumption DEF Labels, TableMutexInv
<1>2. EntryInv' /\ DistinctInv' /\ HeldInv'
  BY DEF EntryInv, DistinctInv, HeldInv, Active
<1>3. \A o \in Objs : Users(o)' = Users(o)
  BY DEF Users
<1>4. RefsExact'
  BY <1>3 DEF RefsExact
<1>5. UsedInv'
  BY DEF UsedInv, Active
<1> QED
  BY <1>1, <1>2, <1>4, <1>5

LEMMA FindStep ==
  ASSUME IInv, NEW p \in Procs, Find(p)
  PROVE  IInv'
<1> USE DEF IInv, TypeOK, Find
<1>1. TypeOK' /\ TableMutexInv'
  BY DEF Labels, TableMutexInv
<1>2. EntryInv' /\ DistinctInv' /\ HeldInv'
  BY DEF EntryInv, DistinctInv, HeldInv, Active
<1>3. \A o \in Objs : Users(o)' = Users(o)
  BY ObjsAssumption DEF Users, EntryInv, Active
<1>4. RefsExact'
  BY <1>3 DEF RefsExact
<1>5. UsedInv'
  BY DEF UsedInv, Active
<1> QED
  BY <1>1, <1>2, <1>4, <1>5

\* The new entry is nobody's, so its empty count is exact.
LEMMA CreateStep ==
  ASSUME IInv, NEW p \in Procs, NEW o \in Objs, Create(p, o)
  PROVE  IInv'
<1> USE DEF IInv, TypeOK, Create, Unreferenced
<1>1. TypeOK' /\ TableMutexInv'
  BY DEF Labels, TableMutexInv
<1>2. EntryInv'
  <2> SUFFICES ASSUME NEW q \in Procs
               PROVE  /\ Active(q)' => obj'[q] \in Objs /\ obj'[q] = locks'[key'[q]]
                      /\ ~Active(q)' => obj'[q] = NoObj
    BY DEF EntryInv
  <2>1. CASE q = p
    BY <2>1 DEF Active
  <2>2. CASE q # p
    <3>1. Active(q)' <=> Active(q)
      BY <2>2 DEF Active
    <3>2. Active(q) => key[q] # key[p]
      BY ObjsAssumption DEF EntryInv
    <3> QED
      BY <2>2, <3>1, <3>2 DEF EntryInv
  <2> QED
    BY <2>1, <2>2
<1>3. DistinctInv'
  BY DEF DistinctInv
<1>4. HeldInv'
  BY DEF HeldInv, EntryInv, Active
<1>5. \A x \in Objs : Users(x)' = Users(x)
  BY ObjsAssumption DEF Users, EntryInv, Active
<1>6. Users(o) = {}
  BY DEF Users
<1>7. RefsExact'
  BY <1>5, <1>6, FS_EmptySet DEF RefsExact
<1>8. UsedInv'
  BY DEF UsedInv, Active
<1> QED
  BY <1>1, <1>2, <1>3, <1>4, <1>7, <1>8

\* p joins the users of its entry as it raises the count.
LEMMA CountStep ==
  ASSUME IInv, NEW p \in Procs, Count(p)
  PROVE  IInv'
<1> USE DEF IInv, TypeOK, Count
<1>0. PICK o \in Objs : obj[p] = o
  BY DEF EntryInv, Active
<1>1. TypeOK' /\ TableMutexInv'
  BY <1>0, ProcsAssumption DEF Labels, TableMutexInv
<1>2. EntryInv' /\ DistinctInv' /\ HeldInv'
  BY DEF EntryInv, DistinctInv, HeldInv, Active
<1>3. \A x \in Objs : x # o => Users(x)' = Users(x)
  BY <1>0 DEF Users
<1>4. Users(o)' = Users(o) \cup {p} /\ p \notin Users(o)
  BY <1>0 DEF Users
<1>5. Cardinality(Users(o)') = Cardinality(Users(o)) + 1
  <2>1. IsFiniteSet(Users(o))
    BY UsersFinite
  <2>2. Cardinality(Users(o) \cup {p}) = Cardinality(Users(o)) + 1
    BY <1>4, <2>1, FS_AddElement
  <2> QED
    BY <1>4, <2>2
<1>6. RefsExact'
  <2> SUFFICES ASSUME NEW x \in Objs PROVE refs'[x] = Cardinality(Users(x)')
    BY DEF RefsExact
  <2>1. CASE x = o
    BY <2>1, <1>0, <1>5 DEF RefsExact
  <2>2. CASE x # o
    BY <2>2, <1>0, <1>3 DEF RefsExact
  <2> QED
    BY <2>1, <2>2
<1>7. UsedInv'
  BY DEF UsedInv, Active
<1> QED
  BY <1>1, <1>2, <1>6, <1>7

LEMMA AcquireStep ==
  ASSUME IInv, NEW p \in Procs, Acquire(p)
  PROVE  IInv'
<1> USE DEF IInv, TypeOK, Acquire
<1>0. obj[p] \in Objs
  BY DEF EntryInv, Active
<1>1. TypeOK' /\ TableMutexInv'
  BY <1>0 DEF Labels, TableMutexInv
<1>2. EntryInv' /\ DistinctInv'
  BY DEF EntryInv, DistinctInv, Active
<1>3. HeldInv'
  BY <1>0, ProcsAssumption DEF HeldInv, EntryInv, Active
<1>4. \A o \in Objs : Users(o)' = Users(o)
  BY DEF Users
<1>5. RefsExact'
  BY <1>4 DEF RefsExact
<1>6. UsedInv'
  BY DEF UsedInv, Active
<1> QED
  BY <1>1, <1>2, <1>3, <1>5, <1>6

LEMMA ReleaseStep ==
  ASSUME IInv, NEW p \in Procs, Release(p)
  PROVE  IInv'
<1> USE DEF IInv, TypeOK, Release
<1>0. obj[p] \in Objs
  BY DEF EntryInv, Active
<1>1. TypeOK' /\ TableMutexInv'
  BY <1>0 DEF Labels, TableMutexInv
<1>2. EntryInv' /\ DistinctInv'
  BY DEF EntryInv, DistinctInv, Active
<1>3. HeldInv'
  BY <1>0 DEF HeldInv, EntryInv, Active
<1>4. \A o \in Objs : Users(o)' = Users(o)
  BY DEF Users
<1>5. RefsExact'
  BY <1>4 DEF RefsExact
<1>6. UsedInv'
  BY DEF UsedInv, Active
<1> QED
  BY <1>1, <1>2, <1>3, <1>5, <1>6

LEMMA ReEnterStep ==
  ASSUME IInv, NEW p \in Procs, ReEnter(p)
  PROVE  IInv'
<1> USE DEF IInv, TypeOK, ReEnter
<1>1. TypeOK' /\ TableMutexInv'
  BY ProcsAssumption DEF Labels, TableMutexInv
<1>2. EntryInv' /\ DistinctInv' /\ HeldInv'
  BY DEF EntryInv, DistinctInv, HeldInv, Active
<1>3. \A o \in Objs : Users(o)' = Users(o)
  BY DEF Users
<1>4. RefsExact'
  BY <1>3 DEF RefsExact
<1>5. UsedInv'
  BY DEF UsedInv, Active
<1> QED
  BY <1>1, <1>2, <1>4, <1>5

\* The entry goes with its last user, and only with it: while p is inside
\* locksMu nobody is between finding an entry and counting itself, so an
\* exact count of one means that p is alone.
LEMMA UnrefStep ==
  ASSUME IInv, NEW p \in Procs, Unref(p)
  PROVE  IInv'
<1> USE DEF IInv, TypeOK, Unref
<1>0. PICK o \in Objs : obj[p] = o /\ locks[key[p]] = o /\ o # NoObj
  BY ObjsAssumption DEF EntryInv, Active
<1>2. p \in Users(o) /\ Users(o)' = Users(o) \ {p}
  BY <1>0, ObjsAssumption DEF Users
<1>3. Cardinality(Users(o)') = Cardinality(Users(o)) - 1
  BY <1>0, <1>2, UsersFinite, FS_RemoveElement
<1>1. TypeOK' /\ TableMutexInv'
  <2>1. refs[o] - 1 \in Nat
    BY <1>0, <1>2, <1>3, UsersFinite, FS_RemoveElement, FS_CardinalityType DEF RefsExact
  <2> QED
    BY <1>0, <2>1, ProcsAssumption DEF Labels, TableMutexInv
<1>4. \A x \in Objs : x # o => Users(x)' = Users(x)
  BY <1>0 DEF Users
<1>5. RefsExact'
  <2> SUFFICES ASSUME NEW x \in Objs PROVE refs'[x] = Cardinality(Users(x)')
    BY DEF RefsExact
  <2>1. CASE x = o
    BY <2>1, <1>0, <1>3 DEF RefsExact
  <2>2. CASE x # o
    BY <2>2, <1>0, <1>4 DEF RefsExact
  <2> QED
    BY <2>1, <2>2
<1>6. HeldInv'
  BY DEF HeldInv
\* Whoever is active on the key of p is a user of its entry.
<1>7. \A q \in Procs : Active(q) /\ key[q] = key[p] => q \in Users(o)
  BY <1>0, ProcsAssumption DEF Active, EntryInv, Users, TableMutexInv, Labels
<1>8. CASE refs[o] - 1 = 0
  <2>1. Users(o)' = {}
    BY <1>0, <1>2, <1>3, <1>8, UsersFinite, FS_EmptySet, FS_RemoveElement DEF RefsExact
  <2>2. \A q \in Procs : q # p /\ Active(q) => key[q] # key[p]
    BY <1>2, <1>7, <2>1
  <2>3. locks' = [locks EXCEPT ![key[p]] = NoObj]
    BY <1>0, <1>8
  <2>4. EntryInv'
    BY <2>2, <2>3 DEF EntryInv, Active
  <2>5. DistinctInv'
    BY <2>3 DEF DistinctInv
  <2>6. UsedInv'
    BY <2>3 DEF UsedInv, Active
  <2> QED
    BY <1>1, <1>5, <1>6, <2>4, <2>5, <2>6
<1>9. CASE refs[o] - 1 # 0
  <2>1. locks' = locks
    BY <1>0, <1>9
  <2>2. Users(o)' # {}
    BY <1>0, <1>3, <1>9, FS_EmptySet DEF RefsExact
  <2>3. PICK q \in Users(o) : q # p
    BY <1>2, <2>2
  <2>4. q \in Procs /\ Active(q) /\ locks[key[q]] = o
    BY <2>3 DEF Users, Active, EntryInv
  <2>5. key[q] = key[p]
    BY <1>0, <2>4 DEF DistinctInv
  <2>6. EntryInv' /\ DistinctInv'
    BY <2>1 DEF EntryInv, DistinctInv, Active
  <2>7. Active(q)' /\ key'[q] = key[p]
    BY <2>3, <2>4, <2>5 DEF Active
  <2>8. UsedInv'
    BY <2>1, <2>4, <2>7 DEF UsedInv, Active
  <2> QED
    BY <1>1, <1>5, <1>6, <2>6, <2>8
<1> QED
  BY <1>8, <1>9
-----------------------------------------------------------------------------
LEMMA NextIInv == IInv /\ [Next]_vars => IInv'
<1> SUFFICES ASSUME IInv, [Next]_vars PROVE IInv'
  OBVIOUS
<1>1. CASE UNCHANGED vars
  BY <1>1 DEF vars, IInv, TypeOK, TableMutexInv, EntryInv, DistinctInv, HeldInv,
              RefsExact, UsedInv, Active, Users
<1>2. ASSUME NEW p \in Procs, NEW k \in Keys, Enter(p, k) PROVE IInv'
  BY <1>2, EnterStep
<1>3. ASSUME NEW p \in Procs, Acquire(p) PROVE IInv'
  BY <1>3, AcquireStep
<1>4. ASSUME NEW p \in Procs, ReEnter(p) PROVE IInv'
  BY <1>4, ReEnterStep
<1>5. ASSUME NEW p \in Procs, Proceed(p) PROVE IInv'
  BY <1>5, FindStep, CreateStep, CountStep, ReleaseStep, UnrefStep DEF Proceed
<1> QED
  BY <1>1, <1>2, <1>3, <1>4, <1>5 DEF Next

LEMMA Inductive == Spec => []IInv
  BY InitIInv, NextIInv, PTL DEF Spec

\* The state of the lock table and of its callers keeps its type.
THEOREM TypeCorrect == Spec => []TypeOK
<1>1. IInv => TypeOK
  BY DEF IInv
<1> QED
  BY <1>1, Inductive, PTL

\* utils.Lock is a mutex per key: two holders of one key are one goroutine.
THEOREM Exclusion == Spec => []MutualExclusion
<1>1. IInv => MutualExclusion
  BY DEF IInv, TypeOK, MutualExclusion, EntryInv, HeldInv, Active
<1> QED
  BY <1>1, Inductive, PTL

\* An entry's refs is the number of its holders and waiters.
THEOREM RefsCountUsers == Spec => []RefsExact
<1>1. IInv => RefsExact
  BY DEF IInv
<1> QED
  BY <1>1, Inductive, PTL

\* The table holds an entry exactly for the keys in use: none is removed under
\* its users and none is leaked.
THEOREM TableTracksUse == Spec => []TableMatchesUse
<1>1. IInv => TableMatchesUse
  BY ObjsAssumption
  DEF IInv, TypeOK, TableMatchesUse, EntryInv, UsedInv, Active
<1> QED
  BY <1>1, Inductive, PTL
-----------------------------------------------------------------------------
LEMMA InitRefines == Init => Abstract!Init
  BY DEF Init, Abstract!Init, Phase

\* Entering the table is asking, taking the entry's mutex is getting the lock,
\* giving it up is releasing; everything done to the table is a stutter.
LEMMA StepRefines == IInv /\ [Next]_vars => [Abstract!Next]_(Abstract!mutexVars)
<1> SUFFICES ASSUME IInv, [Next]_vars
             PROVE  Abstract!Next \/ UNCHANGED Abstract!mutexVars
  OBVIOUS
<1> USE DEF IInv, TypeOK
<1> DEFINE ph == [p \in Procs |-> Phase(p)]
<1>1. CASE UNCHANGED vars
  BY <1>1 DEF vars, Abstract!mutexVars, Phase
<1>2. ASSUME NEW p \in Procs, NEW k \in Keys, Enter(p, k)
      PROVE  Abstract!Request(p, k)
  <2>1. ph[p] = "idle"
    BY <1>2 DEF Enter, Phase
  <2>2. ph' = [ph EXCEPT ![p] = "waiting"]
    BY <1>2 DEF Enter, Phase
  <2> QED
    BY <1>2, <2>1, <2>2 DEF Enter, Abstract!Request
<1>3. ASSUME NEW p \in Procs, Acquire(p)
      PROVE  Abstract!Acquire(p)
  <2>1. ph[p] = "waiting"
    BY <1>3 DEF Acquire, Phase
  <2>2. ph' = [ph EXCEPT ![p] = "holding"]
    BY <1>3 DEF Acquire, Phase
  <2>3. \A q \in Procs : ph[q] = "holding" => pc[q] = "held"
    BY DEF Phase, Labels
  <2>4. \A q \in Procs : pc[q] = "held" => key[q] # key[p]
    BY <1>3, ProcsAssumption DEF Acquire, HeldInv, EntryInv, Active
  <2>5. Abstract!Holders(key[p]) = {}
    BY <2>3, <2>4 DEF Abstract!Holders
  <2> QED
    BY <1>3, <2>1, <2>2, <2>5 DEF Acquire, Abstract!Acquire
<1>4. ASSUME NEW p \in Procs, Release(p)
      PROVE  Abstract!Release(p)
  <2>1. ph[p] = "holding"
    BY <1>4 DEF Release, Phase
  <2>2. ph' = [ph EXCEPT ![p] = "idle"]
    BY <1>4 DEF Release, Phase
  <2> QED
    BY <1>4, <2>1, <2>2 DEF Release, Abstract!Release
<1>5. ASSUME NEW p \in Procs,
             \/ Find(p) \/ Count(p) \/ ReEnter(p) \/ Unref(p)
             \/ \E o \in Objs : Create(p, o)
      PROVE  UNCHANGED Abstract!mutexVars
  <2>1. ph' = ph
    BY <1>5 DEF Find, Count, ReEnter, Unref, Create, Phase
  <2>2. key' = key
    BY <1>5 DEF Find, Count, ReEnter, Unref, Create
  <2> QED
    BY <2>1, <2>2 DEF Abstract!mutexVars
<1> QED
  BY <1>1, <1>2, <1>3, <1>4, <1>5 DEF Next, Proceed, Abstract!Next

\* The table of counted entries implements the lock of module Mutex: a caller
\* of utils.Lock cannot tell it from one mutex per key.
THEOREM Refinement == Spec => ImplementsMutex
  BY InitRefines, StepRefines, Inductive, PTL DEF Spec, ImplementsMutex, Abstract!Spec
=============================================================================
