------------------------- MODULE RemoteCacheProofs -------------------------
(***************************************************************************)
(* LeaseLock and RemoteCache for any workers and keys.                     *)
(*                                                                         *)
(* A lease that has not run out cannot be lost, so only an outrun lease or *)
(* a refused lock lets two workers do the same work.  How much of the work *)
(* is done follows from what each worker may still spend: one with the     *)
(* lock is alone, each of the others has been given credit of its own.     *)
(***************************************************************************)
EXTENDS RemoteCache, FiniteSetTheorems, TLAPS

RemoteAssumption == WorkersAssumption /\ Lease!LeaseAssumption

LeaseInv == Lease!TypeOK /\ Lease!KeptUntilLapse
-----------------------------------------------------------------------------
LEMMA LeaseInit == Lease!Init => LeaseInv
  BY DEF Lease!Init, LeaseInv, Lease!TypeOK, Lease!KeptUntilLapse

LEMMA LeaseStep ==
  ASSUME Lease!LeaseAssumption
  PROVE  LeaseInv /\ [Lease!Next]_leaseVars => LeaseInv'
<1> SUFFICES ASSUME LeaseInv, [Lease!Next]_leaseVars PROVE LeaseInv'
  OBVIOUS
<1> USE DEF Lease!LeaseAssumption, LeaseInv, Lease!TypeOK, Lease!KeptUntilLapse
<1>1. CASE UNCHANGED leaseVars
  BY <1>1 DEF leaseVars
\* The key was free, so no live lease was overwritten.
<1>2. ASSUME NEW p \in Procs, NEW k \in Keys, Lease!Obtain(p, k) PROVE LeaseInv'
  BY <1>2 DEF Lease!Obtain
<1>3. ASSUME NEW p \in Procs, NEW k \in Keys, Lease!Refused(p, k) PROVE LeaseInv'
  BY <1>3 DEF Lease!Refused
\* Only p's own token is deleted.
<1>4. ASSUME NEW p \in Procs, Lease!Release(p) PROVE LeaseInv'
  BY <1>4 DEF Lease!Release, Lease!Forget
<1>5. ASSUME NEW p \in Procs, Lease!Die(p) PROVE LeaseInv'
  BY <1>5 DEF Lease!Die, Lease!Forget
<1>6. ASSUME NEW k \in Keys, Lease!Lapse(k) PROVE LeaseInv'
  BY <1>6 DEF Lease!Lapse
<1> QED
  BY <1>1, <1>2, <1>3, <1>4, <1>5, <1>6 DEF Lease!Next

\* A step of GetOrCreate takes a step of the lease lock or leaves it alone.
LEMMA LeaseNext ==
  ASSUME Lease!LeaseAssumption, Next, key \in [Procs -> Keys], Lease!TypeOK
  PROVE  /\ Lease!Next \/ UNCHANGED <<lock, held, lapsed>>
         /\ key' \in [Procs -> Keys]
<1> USE DEF leaseVars
<1>1. ASSUME NEW p \in Procs, NEW k \in Keys, Call(p, k)
      PROVE  UNCHANGED <<lock, held, lapsed>> /\ key' \in [Procs -> Keys]
  BY <1>1 DEF Call
<1>2. ASSUME NEW p \in Procs,
             FirstGet(p) \/ SecondGet(p) \/ Produce(p) \/ Store(p) \/ Restart(p)
      PROVE  UNCHANGED <<lock, held, lapsed, key>>
  BY <1>2 DEF FirstGet, SecondGet, Produce, Store, Restart
<1>3. ASSUME NEW p \in Procs,
             Obtain(p) \/ GiveUp(p)
      PROVE  Lease!Next /\ key' = key
  BY <1>3 DEF Obtain, GiveUp, Lease!Next
<1>4. ASSUME NEW k \in Keys, Lapse(k) \/ Remove(k)
      PROVE  (Lease!Next \/ UNCHANGED <<lock, held, lapsed>>) /\ key' = key
  BY <1>4 DEF Lapse, Remove, Lease!Next
<1>5. ASSUME NEW p \in Procs, Release(p) \/ Crash(p)
      PROVE  (Lease!Next \/ UNCHANGED <<lock, held, lapsed>>) /\ key' = key
  <2>1. (Lease!Release(p) \/ Lease!Die(p)) /\ key' = key
    BY <1>5 DEF Release, Crash
  <2>2. CASE held[p] # NoKey
    BY <2>1, <2>2 DEF Lease!Next
  \* There is nothing to release.
  <2>3. CASE held[p] = NoKey
    BY <2>1, <2>3
    DEF Lease!TypeOK, Lease!LeaseAssumption, Lease!Release,
        Lease!Die, Lease!Forget
  <2> QED
    BY <2>2, <2>3
<1> QED
  BY <1>1, <1>2, <1>3, <1>4, <1>5 DEF Next, Proceed
-----------------------------------------------------------------------------
\* Whoever has been given the lock is between Lock and Release, of its key.
PlaceInv ==
    \A p \in Procs : held[p] # NoKey =>
        held[p] = key[p] /\ pc[p] \in {"second", "factory", "store", "release"}

\* p has the lock of its key, for all that redis knows.
HasLease(p) == held[p] # NoKey /\ p \notin lapsed

\* The workers that may store a value for k, or produce one, on credit.
Spending(k) == {p \in Procs : /\ key[p] = k
                              /\ \/ pc[p] \in {"factory", "store"}
                                 \/ pc[p] = "second" /\ ~HasLease(p)}
Unlocked(k) == {p \in Spending(k) : ~HasLease(p)}

\* There is credit for all of them; and while there is no value, for one that
\* comes with the lock as well.
CreditOf(k) == /\ Cardinality(Spending(k)) <= allowance[k]
               /\ k \notin cached => Cardinality(Unlocked(k)) < allowance[k]

CreditInv == \A k \in Keys : CreditOf(k)

IInv == LeaseInv /\ TypeOK /\ PlaceInv /\ CreditInv

LEMMA LesserAllowance ==
  ASSUME NEW a \in Int, NEW b \in Int
  PROVE  Min({a, b}) = IF a <= b THEN a ELSE b
<1> DEFINE m == IF a <= b THEN a ELSE b
<1>1. m \in {a, b} /\ \A y \in {a, b} : m <= y
  OBVIOUS
<1>2. \A x \in {a, b} : (\A y \in {a, b} : x <= y) => x = m
  OBVIOUS
<1> HIDE DEF m
<1>3. (CHOOSE x \in {a, b} : \A y \in {a, b} : x <= y) = m
  BY <1>1, <1>2
<1> QED
  BY <1>3 DEF Min, m

\* Counting sets of workers.
LEMMA SomeOf ==
  ASSUME RemoteAssumption, NEW S \in SUBSET Procs
  PROVE  /\ IsFiniteSet(S)
         /\ Cardinality(S) \in Nat
         /\ Cardinality(S) <= Cardinality(Procs)
         /\ \A T \in SUBSET S : Cardinality(T) <= Cardinality(S)
         /\ Cardinality(Procs) \in Nat
<1>1. IsFiniteSet(Procs)
  BY DEF RemoteAssumption, WorkersAssumption
<1>2. IsFiniteSet(S) /\ Cardinality(S) <= Cardinality(Procs)
  BY <1>1, FS_Subset
<1>3. Cardinality(S) \in Nat /\ Cardinality(Procs) \in Nat
  BY <1>1, <1>2, FS_CardinalityType
<1>4. \A T \in SUBSET S : Cardinality(T) <= Cardinality(S)
  BY <1>2, FS_Subset
<1> QED
  BY <1>1, <1>2, <1>3, <1>4

LEMMA OneMore ==
  ASSUME RemoteAssumption, NEW S \in SUBSET Procs, NEW T \in SUBSET Procs, NEW x, T \subseteq S \cup {x}
  PROVE  Cardinality(T) <= Cardinality(S) + 1
<1>1. IsFiniteSet(S \cup {x})
  BY SomeOf, FS_AddElement
<1>2. Cardinality(S \cup {x}) <= Cardinality(S) + 1
  <2>1. Cardinality(S \cup {x}) = IF x \in S THEN Cardinality(S) ELSE Cardinality(S) + 1
    BY SomeOf, FS_AddElement
  <2> QED
    BY <2>1, SomeOf
<1>3. Cardinality(T) <= Cardinality(S \cup {x})
  BY <1>1, FS_Subset
<1>4. Cardinality(S \cup {x}) \in Nat
  BY <1>1, FS_CardinalityType
<1> QED
  BY <1>2, <1>3, <1>4, SomeOf

LEMMA OneLess ==
  ASSUME RemoteAssumption, NEW S \in SUBSET Procs, NEW x \in S, NEW T \in SUBSET (S \ {x})
  PROVE  Cardinality(T) <= Cardinality(S) - 1 /\ Cardinality(S) >= 1
<1>1. Cardinality(S \ {x}) = Cardinality(S) - 1
  BY SomeOf, FS_RemoveElement
<1>2. S \ {x} \in SUBSET Procs /\ T \in SUBSET Procs
  OBVIOUS
<1>3. Cardinality(T) <= Cardinality(S \ {x}) /\ Cardinality(S \ {x}) \in Nat /\ Cardinality(S) \in Nat
  BY <1>2, SomeOf
<1> QED
  BY <1>1, <1>3

\* With the lease of a key at most one is busy, so that all but one of those
\* who spend are on their own.
LEMMA OneLocked ==
  ASSUME RemoteAssumption, IInv, NEW k \in Keys
  PROVE  /\ Spending(k) \in SUBSET Procs /\ Unlocked(k) \in SUBSET Spending(k)
         /\ Cardinality(Spending(k)) <= Cardinality(Unlocked(k)) + 1
<1>1. Spending(k) \in SUBSET Procs /\ Unlocked(k) \in SUBSET Spending(k)
  BY DEF Spending, Unlocked
<1>2. \A p, q \in Procs : HasLease(p) /\ HasLease(q) /\ key[p] = k /\ key[q] = k => p = q
  BY DEF IInv, PlaceInv, HasLease, LeaseInv, Lease!TypeOK,
         Lease!KeptUntilLapse
<1>3. CASE Spending(k) = Unlocked(k)
  BY <1>1, <1>3, SomeOf
<1>4. CASE Spending(k) # Unlocked(k)
  <2>1. PICK x \in Spending(k) : x \notin Unlocked(k)
    BY <1>1, <1>4
  <2>2. Spending(k) \subseteq Unlocked(k) \cup {x}
    BY <1>2, <2>1 DEF Spending, Unlocked
  <2> QED
    BY <1>1, <2>1, <2>2, OneMore
<1> QED
  BY <1>1, <1>3, <1>4

\* NoKey new is spent on k.
LEMMA CreditKept ==
  ASSUME RemoteAssumption, IInv, NEW k \in Keys,
         allowance'[k] = allowance[k], k \in cached' <=> k \in cached,
         Unlocked(k)' \subseteq Unlocked(k),
         \/ Spending(k)' \subseteq Spending(k)
         \/ k \notin cached /\ \E x : Spending(k)' \subseteq Unlocked(k) \cup {x}
  PROVE  CreditOf(k)'
<1>1. /\ Spending(k)' \in SUBSET Procs /\ Unlocked(k)' \in SUBSET Procs
      /\ Spending(k) \in SUBSET Procs /\ Unlocked(k) \in SUBSET Procs
  BY DEF Spending, Unlocked
<1>2. allowance[k] \in Nat /\ CreditOf(k)
  BY DEF IInv, TypeOK, CreditInv, CreditOf
<1>3. /\ Cardinality(Unlocked(k)') <= Cardinality(Unlocked(k))
      /\ Cardinality(Unlocked(k)') \in Nat /\ Cardinality(Unlocked(k)) \in Nat
      /\ Cardinality(Spending(k)') \in Nat /\ Cardinality(Spending(k)) \in Nat
  BY <1>1, SomeOf
<1>4. Cardinality(Spending(k)') <= allowance[k]
  <2>1. CASE Spending(k)' \subseteq Spending(k)
    <3>1. Cardinality(Spending(k)') <= Cardinality(Spending(k))
      BY <1>1, <2>1, SomeOf
    <3> QED
      BY <1>2, <1>3, <3>1 DEF CreditOf
  <2>2. CASE k \notin cached /\ \E x : Spending(k)' \subseteq Unlocked(k) \cup {x}
    <3>1. Cardinality(Spending(k)') <= Cardinality(Unlocked(k)) + 1
      BY <1>1, <2>2, OneMore
    <3> QED
      BY <1>2, <1>3, <2>2, <3>1 DEF CreditOf
  <2> QED
    BY <2>1, <2>2
<1> QED
  BY <1>2, <1>3, <1>4 DEF CreditOf

\* One more may spend on k, for which there is one more credit.
LEMMA CreditAllowed ==
  ASSUME RemoteAssumption, IInv, NEW k \in Keys, Allow(k), NEW x,
         Unlocked(k)' \subseteq Unlocked(k) \cup {x},
         Spending(k)' \subseteq Spending(k) \cup {x},
         k \notin cached' => k \notin cached \/ Unlocked(k)' \subseteq Unlocked(k)
  PROVE  CreditOf(k)' /\ \A j \in Keys \ {k} : allowance'[j] = allowance[j]
<1>1. /\ Spending(k)' \in SUBSET Procs /\ Unlocked(k)' \in SUBSET Procs
      /\ Spending(k) \in SUBSET Procs /\ Unlocked(k) \in SUBSET Spending(k)
  BY DEF Spending, Unlocked
<1>2. allowance[k] \in 0..MaxAllowance /\ CreditOf(k) /\ MaxAllowance = Cardinality(Procs) + 1
  BY DEF IInv, TypeOK, CreditInv, CreditOf, MaxAllowance
<1>3. /\ Cardinality(Spending(k)') <= Cardinality(Spending(k)) + 1
      /\ Cardinality(Unlocked(k)') <= Cardinality(Unlocked(k)) + 1
  BY <1>1, OneMore
<1>4. /\ Cardinality(Spending(k)') <= Cardinality(Procs)
      /\ Cardinality(Unlocked(k)') <= Cardinality(Procs)
      /\ Cardinality(Procs) \in Nat
      /\ Cardinality(Unlocked(k)') \in Nat /\ Cardinality(Unlocked(k)) \in Nat
      /\ Cardinality(Spending(k)') \in Nat /\ Cardinality(Spending(k)) \in Nat
      /\ Cardinality(Unlocked(k)) <= Cardinality(Spending(k))
  BY <1>1, SomeOf
<1>5. /\ allowance'[k] \in Int
      /\ allowance'[k] = allowance[k] + 1 \/ allowance'[k] = Cardinality(Procs) + 1
      /\ \A j \in Keys \ {k} : allowance'[j] = allowance[j]
  <2>1. Min({allowance[k] + 1, MaxAllowance})
            = IF allowance[k] + 1 <= MaxAllowance THEN allowance[k] + 1 ELSE MaxAllowance
    BY <1>2, <1>4, LesserAllowance
  <2>2. allowance' = [allowance EXCEPT ![k] = Min({allowance[k] + 1, MaxAllowance})]
    BY DEF Allow
  <2> QED
    BY <1>2, <1>4, <2>1, <2>2 DEF IInv, TypeOK
<1>6. k \notin cached' /\ k \in cached => Cardinality(Unlocked(k)') <= Cardinality(Unlocked(k))
  BY <1>1, SomeOf
<1> QED
  BY <1>2, <1>3, <1>4, <1>5, <1>6 DEF CreditOf
-----------------------------------------------------------------------------
\* What a worker does that gives nobody more to spend.
LEMMA QuietSteps ==
  ASSUME RemoteAssumption, IInv, NEW p \in Procs,
         \/ \E k \in Keys : Call(p, k)
         \/ FirstGet(p)
         \/ Obtain(p)
         \/ Produce(p)
         \/ Release(p)
         \/ Crash(p)
         \/ Restart(p)
  PROVE  /\ pc' \in [Procs -> Labels] /\ key' \in [Procs -> Keys]
         /\ PlaceInv'
         /\ allowance' = allowance /\ cached' = cached
         /\ CreditInv'
<1> USE DEF Goto, leaseVars
<1>1. /\ pc \in [Procs -> Labels] /\ key \in [Procs -> Keys]
      /\ held \in [Procs -> Keys \cup {NoKey}]
      /\ \A q \in lapsed : held[q] # NoKey
      /\ PlaceInv
  BY DEF IInv, TypeOK, LeaseInv, Lease!TypeOK
<1> DEFINE Quiet ==
             /\ pc' \in [Procs -> Labels] /\ key' \in [Procs -> Keys]
             /\ PlaceInv'
             /\ \A q \in Procs \ {p} : /\ pc'[q] = pc[q] /\ key'[q] = key[q]
                                       /\ HasLease(q)' <=> HasLease(q)
             /\ \/ pc'[p] \notin {"second", "factory", "store"}
                \/ pc'[p] = "second" /\ HasLease(p)'
                \/ /\ pc[p] = "factory" /\ pc'[p] = "store" /\ key'[p] = key[p]
                   /\ HasLease(p)' <=> HasLease(p)
<1>2. Quiet
  <2>1. ASSUME NEW k \in Keys, Call(p, k) PROVE Quiet
    BY <1>1, <2>1 DEF Call, PlaceInv, HasLease, Labels
  <2>2. ASSUME FirstGet(p) PROVE Quiet
    BY <1>1, <2>2 DEF FirstGet, PlaceInv, HasLease, Labels
  <2>3. ASSUME Obtain(p) PROVE Quiet
    BY <1>1, <2>3
    DEF Obtain, Lease!Obtain, RemoteAssumption, Lease!LeaseAssumption, PlaceInv, HasLease, Labels
  <2>4. ASSUME Produce(p) PROVE Quiet
    BY <1>1, <2>4 DEF Produce, PlaceInv, HasLease, Labels
  <2>5. ASSUME Release(p) \/ Crash(p)
        PROVE  Quiet
    BY <1>1, <2>5 DEF Release, Lease!Release, Crash, Lease!Die, Lease!Forget,
                      PlaceInv, HasLease, Labels
  <2>6. ASSUME Restart(p) PROVE Quiet
    BY <1>1, <2>6 DEF Restart, PlaceInv, HasLease, Labels
  <2> QED
    BY <2>1, <2>2, <2>3, <2>4, <2>5, <2>6
<1>3. allowance' = allowance /\ cached' = cached
  BY DEF Call, FirstGet, Obtain, Produce, Release, Crash, Restart
<1>4. ASSUME NEW k \in Keys PROVE CreditOf(k)'
  <2>1. ASSUME NEW q \in Spending(k)'
        PROVE  q \in Spending(k) /\ (HasLease(q)' <=> HasLease(q))
    <3>1. q \in Procs /\ key'[q] = k
      BY DEF Spending
    <3>2. CASE q # p
      BY <1>2, <3>1, <3>2 DEF Spending
    <3>3. CASE q = p
      BY <1>2, <3>1, <3>3 DEF Spending
    <3> QED
      BY <3>2, <3>3
  <2>2. Unlocked(k)' \subseteq Unlocked(k) /\ Spending(k)' \subseteq Spending(k)
    BY <2>1 DEF Unlocked
  <2> QED
    BY <1>3, <2>2, CreditKept
<1> QED
  BY <1>2, <1>3, <1>4 DEF CreditInv

\* More credit stays in its type.
LEMMA AllowTypes ==
  ASSUME RemoteAssumption, IInv, NEW k \in Keys, Allow(k)
  PROVE  allowance' \in [Keys -> 0..MaxAllowance]
<1>1. MaxAllowance \in Nat /\ MaxAllowance >= 1
  BY SomeOf DEF MaxAllowance
<1>2. allowance \in [Keys -> 0..MaxAllowance]
  BY DEF IInv, TypeOK
<1>3. Min({allowance[k] + 1, MaxAllowance}) \in 0..MaxAllowance
  BY <1>1, <1>2, LesserAllowance
<1> QED
  BY <1>2, <1>3 DEF Allow

LEMMA SecondGetStep ==
  ASSUME RemoteAssumption, IInv, NEW p \in Procs, SecondGet(p)
  PROVE  /\ pc' \in [Procs -> Labels] /\ allowance' \in [Keys -> 0..MaxAllowance]
         /\ PlaceInv' /\ CreditInv'
<1> USE DEF SecondGet, Goto, leaseVars
<1>1. /\ pc \in [Procs -> Labels] /\ key \in [Procs -> Keys]
      /\ allowance \in [Keys -> 0..MaxAllowance]
      /\ PlaceInv /\ key[p] \in Keys
  BY DEF IInv, TypeOK
<1>2. pc' \in [Procs -> Labels] /\ allowance' \in [Keys -> 0..MaxAllowance] /\ PlaceInv'
  BY <1>1, AllowTypes DEF PlaceInv, Labels
<1>3. /\ UNCHANGED <<held, lapsed, key, cached>>
      /\ \A q \in Procs : HasLease(q)' <=> HasLease(q)
      /\ \A q \in Procs \ {p} : pc'[q] = pc[q]
      /\ pc[p] = "second"
  BY <1>1 DEF HasLease
<1>4. ASSUME NEW k \in Keys
      PROVE  Unlocked(k)' \subseteq Unlocked(k) /\ Spending(k)' \subseteq Spending(k) \cup {p}
  BY <1>3 DEF Unlocked, Spending
<1>5. ASSUME NEW k \in Keys, k # key[p] PROVE Spending(k)' \subseteq Spending(k)
  BY <1>3, <1>5 DEF Spending
<1>6. ASSUME NEW k \in Keys, allowance' = allowance,
             pc'[p] = "release" \/ key[p] \notin cached
      PROVE  CreditOf(k)'
  <2>1. CASE k # key[p]
    BY <1>3, <1>4, <1>5, <1>6, <2>1, CreditKept
  <2>2. CASE pc'[p] = "release" \/ ~HasLease(p)
    <3>1. Spending(k)' \subseteq Spending(k)
      BY <1>3, <2>2 DEF Spending
    <3> QED
      BY <1>3, <1>4, <1>6, <3>1, CreditKept
  \* The one with the lease is all that the others, who are without, do not count.
  <2>3. CASE k = key[p] /\ pc'[p] # "release" /\ HasLease(p)
    <3>1. k \notin cached
      BY <1>6, <2>3
    <3>2. \A q \in Procs : HasLease(q) /\ key[q] = k => q = p
      BY <2>3 DEF IInv, PlaceInv, HasLease, LeaseInv, Lease!TypeOK,
                  Lease!KeptUntilLapse
    <3>3. Spending(k)' \subseteq Unlocked(k) \cup {p}
      BY <1>3, <3>2 DEF Spending, Unlocked
    <3> QED
      BY <1>3, <1>4, <1>6, <3>1, <3>3, CreditKept
  <2> QED
    BY <2>1, <2>2, <2>3
<1>7. ASSUME Allow(key[p]), key[p] \in cached, NEW k \in Keys PROVE CreditOf(k)'
  <2>1. CreditOf(key[p])' /\ \A j \in Keys \ {key[p]} : allowance'[j] = allowance[j]
    BY <1>1, <1>3, <1>4, <1>7, CreditAllowed
  <2>2. CASE k # key[p]
    BY <1>3, <1>4, <1>5, <2>1, <2>2, CreditKept
  <2> QED
    BY <2>1, <2>2
<1> QED
  BY <1>1, <1>2, <1>6, <1>7 DEF CreditInv

LEMMA GiveUpStep ==
  ASSUME RemoteAssumption, IInv, NEW p \in Procs, GiveUp(p)
  PROVE  /\ pc' \in [Procs -> Labels] /\ allowance' \in [Keys -> 0..MaxAllowance]
         /\ PlaceInv' /\ CreditInv'
<1> USE DEF GiveUp, Goto, Lease!Refused
<1>1. /\ pc \in [Procs -> Labels] /\ key \in [Procs -> Keys]
      /\ PlaceInv /\ key[p] \in Keys
  BY DEF IInv, TypeOK
<1>2. pc' \in [Procs -> Labels] /\ allowance' \in [Keys -> 0..MaxAllowance] /\ PlaceInv'
  BY <1>1, AllowTypes DEF PlaceInv, Labels
<1>3. /\ UNCHANGED <<held, lapsed, key, cached>>
      /\ \A q \in Procs : HasLease(q)' <=> HasLease(q)
      /\ \A q \in Procs \ {p} : pc'[q] = pc[q]
  BY <1>1 DEF HasLease
<1>4. ASSUME NEW k \in Keys
      PROVE  /\ Unlocked(k)' \subseteq Unlocked(k) \cup {p}
             /\ Spending(k)' \subseteq Spending(k) \cup {p}
             /\ k # key[p] => Unlocked(k)' \subseteq Unlocked(k) /\ Spending(k)' \subseteq Spending(k)
  BY <1>3 DEF Unlocked, Spending
<1>5. CreditOf(key[p])' /\ \A j \in Keys \ {key[p]} : allowance'[j] = allowance[j]
  BY <1>1, <1>3, <1>4, CreditAllowed
<1>6. ASSUME NEW k \in Keys, k # key[p] PROVE CreditOf(k)'
  BY <1>3, <1>4, <1>5, <1>6, CreditKept
<1> QED
  BY <1>2, <1>5, <1>6 DEF CreditInv

LEMMA StoreStep ==
  ASSUME RemoteAssumption, IInv, NEW p \in Procs, Store(p)
  PROVE  /\ pc' \in [Procs -> Labels] /\ allowance' \in [Keys -> 0..MaxAllowance]
         /\ cached' \in SUBSET Keys
         /\ PlaceInv' /\ CreditInv'
<1> USE DEF Store, Goto, leaseVars
<1>1. /\ pc \in [Procs -> Labels] /\ key \in [Procs -> Keys] /\ cached \in SUBSET Keys
      /\ allowance \in [Keys -> 0..MaxAllowance]
      /\ PlaceInv /\ key[p] \in Keys
  BY DEF IInv, TypeOK
<1>2. pc' \in [Procs -> Labels] /\ cached' \in SUBSET Keys /\ PlaceInv'
  BY <1>1 DEF PlaceInv, Labels
<1>3. /\ UNCHANGED <<held, lapsed, key>>
      /\ \A q \in Procs : HasLease(q)' <=> HasLease(q)
      /\ \A q \in Procs \ {p} : pc'[q] = pc[q]
      /\ pc[p] = "store" /\ pc'[p] = "release"
  BY <1>1 DEF HasLease
<1>4. ASSUME NEW k \in Keys
      PROVE  Unlocked(k)' \subseteq Unlocked(k) /\ Spending(k)' \subseteq Spending(k) \ {p}
  BY <1>3 DEF Unlocked, Spending
<1>5. ASSUME NEW k \in Keys, allowance'[k] = allowance[k], k \in cached' <=> k \in cached
      PROVE  CreditOf(k)'
  BY <1>4, <1>5, CreditKept
<1>6. CASE UNCHANGED <<cached, allowance>>
  BY <1>1, <1>2, <1>5, <1>6 DEF CreditInv
<1>7. CASE /\ cached' = cached \cup {key[p]}
           /\ allowance' = [allowance EXCEPT ![key[p]] = @ - 1]
  <2> DEFINE k == key[p]
  <2>1. p \in Spending(k) /\ Spending(k) \in SUBSET Procs /\ Spending(k)' \in SUBSET (Spending(k) \ {p})
    BY <1>1, <1>3, <1>4 DEF Spending
  <2>2. /\ Cardinality(Spending(k)') <= Cardinality(Spending(k)) - 1
        /\ Cardinality(Spending(k)) >= 1
    BY <2>1, OneLess
  <2>3. Cardinality(Spending(k)) <= allowance[k] /\ k \in Keys
    BY <1>1 DEF IInv, CreditInv, CreditOf
  <2>4. /\ Cardinality(Spending(k)) \in Nat /\ Cardinality(Spending(k)') \in Nat
        /\ MaxAllowance \in Nat
    <3>1. Spending(k)' \in SUBSET Procs
      BY <2>1
    <3> QED
      BY <2>1, <3>1, SomeOf DEF MaxAllowance
  <2>5. allowance[k] \in 0..MaxAllowance /\ allowance'[k] = allowance[k] - 1 /\ k \in cached'
    BY <1>1, <1>7
  <2>6. CreditOf(k)'
    BY <1>3, <2>2, <2>3, <2>4, <2>5 DEF CreditOf
  <2>7. allowance' \in [Keys -> 0..MaxAllowance]
    BY <1>1, <1>7, <2>2, <2>3, <2>4, <2>5
  <2>8. ASSUME NEW j \in Keys, j # k PROVE CreditOf(j)'
    BY <1>1, <1>5, <1>7, <2>8
  <2> QED
    BY <1>2, <2>6, <2>7, <2>8 DEF CreditInv
<1> QED
  BY <1>6, <1>7

\* A lease ends under its holder, or a value goes.
LEMMA ExpirySteps ==
  ASSUME RemoteAssumption, IInv, NEW k \in Keys, Lapse(k) \/ Remove(k)
  PROVE  /\ UNCHANGED <<pc, key>> /\ allowance' \in [Keys -> 0..MaxAllowance]
         /\ cached' \in SUBSET Keys
         /\ PlaceInv' /\ CreditInv'
<1>1. /\ pc \in [Procs -> Labels] /\ key \in [Procs -> Keys] /\ cached \in SUBSET Keys
      /\ allowance \in [Keys -> 0..MaxAllowance]
      /\ PlaceInv
  BY DEF IInv, TypeOK
<1>2. UNCHANGED <<pc, key, held>> /\ cached' \in SUBSET Keys /\ \A j \in Keys \ {k} : j \in cached' <=> j \in cached
  BY <1>1 DEF Lapse, Remove, Lease!Lapse, leaseVars
<1>3. PlaceInv'
  BY <1>1, <1>2 DEF PlaceInv
<1>4. CASE Remove(k)
  <2>1. ASSUME NEW j \in Keys
        PROVE  Unlocked(j)' \subseteq Unlocked(j) /\ Spending(j)' \subseteq Spending(j)
    BY <1>4 DEF Remove, leaseVars, Unlocked, Spending, HasLease
  <2>2. Allow(k) /\ k \in cached
    BY <1>4 DEF Remove
  <2>3. CreditOf(k)' /\ \A j \in Keys \ {k} : allowance'[j] = allowance[j]
    BY <2>1, <2>2, CreditAllowed
  <2>4. ASSUME NEW j \in Keys, j # k PROVE CreditOf(j)'
    BY <1>2, <2>1, <2>3, <2>4, CreditKept
  <2> QED
    BY <1>2, <1>3, <2>2, <2>3, <2>4, AllowTypes DEF CreditInv
<1>5. CASE Lapse(k)
  <2> DEFINE x == lock[k]
  <2>1. /\ cached' = cached
        /\ \/ lapsed' = lapsed /\ allowance' = allowance
           \/ Allow(k)
        /\ lapsed \subseteq lapsed' /\ \A p \in lapsed' \ lapsed : p = x /\ held[p] = k
    BY <1>5 DEF Lapse, Lease!Lapse
  <2>2. ASSUME NEW j \in Keys
        PROVE  /\ Unlocked(j)' \subseteq Unlocked(j) \cup {x}
               /\ Spending(j)' \subseteq Spending(j) \cup {x}
               /\ j # k \/ lapsed' = lapsed => /\ Unlocked(j)' \subseteq Unlocked(j)
                                               /\ Spending(j)' \subseteq Spending(j)
    BY <1>1, <1>2, <2>1
    DEF Unlocked, Spending, HasLease, PlaceInv, RemoteAssumption, Lease!LeaseAssumption
  <2>3. CASE lapsed' = lapsed /\ allowance' = allowance
    <3>1. ASSUME NEW j \in Keys PROVE CreditOf(j)'
      BY <2>1, <2>2, <2>3, <3>1, CreditKept
    <3> QED
      BY <1>1, <1>2, <1>3, <2>3, <3>1 DEF CreditInv
  <2>4. CASE Allow(k)
    <3>1. CreditOf(k)' /\ \A j \in Keys \ {k} : allowance'[j] = allowance[j]
      BY <2>1, <2>2, <2>4, CreditAllowed
    <3>2. ASSUME NEW j \in Keys, j # k PROVE CreditOf(j)'
      BY <2>1, <2>2, <3>1, <3>2, CreditKept
    <3> QED
      BY <1>2, <1>3, <2>4, <3>1, <3>2, AllowTypes DEF CreditInv
  <2> QED
    BY <2>1, <2>3, <2>4
<1> QED
  BY <1>4, <1>5

\* Every step of a worker, of redis and of the values that expire in it.
LEMMA NextIInv ==
  ASSUME RemoteAssumption, IInv, [Next]_vars
  PROVE  IInv'
<1>1. CASE Next
  <2>1. LeaseInv'
    <3>1. Lease!LeaseAssumption /\ LeaseInv /\ Lease!TypeOK /\ key \in [Procs -> Keys]
      BY DEF RemoteAssumption, IInv, LeaseInv, TypeOK
    <3>2. [Lease!Next]_leaseVars
      BY <1>1, <3>1, LeaseNext DEF leaseVars
    <3> QED
      BY <3>1, <3>2, LeaseStep
  <2>2. pc \in [Procs -> Labels] /\ key \in [Procs -> Keys] /\ cached \in SUBSET Keys
        /\ allowance \in [Keys -> 0..MaxAllowance]
    BY DEF IInv, TypeOK
  <2>3. ASSUME NEW p \in Procs, SecondGet(p) \/ GiveUp(p)
        PROVE  cached' = cached /\ key' = key
    BY <2>3 DEF SecondGet, GiveUp
  <2>4. ASSUME NEW p \in Procs, Store(p) PROVE key' = key
    BY <2>4 DEF Store
  <2>5. /\ pc' \in [Procs -> Labels] /\ key' \in [Procs -> Keys] /\ cached' \in SUBSET Keys
        /\ allowance' \in [Keys -> 0..MaxAllowance]
        /\ PlaceInv' /\ CreditInv'
    BY <1>1, <2>2, <2>3, <2>4, QuietSteps, SecondGetStep, GiveUpStep, StoreStep, ExpirySteps
    DEF Next, Proceed
  <2> QED
    BY <2>1, <2>5 DEF IInv, LeaseInv, TypeOK, MaxAllowance
<1>2. CASE UNCHANGED vars
  <2>1. \A k \in Keys : CreditOf(k)' <=> CreditOf(k)
    BY <1>2 DEF vars, leaseVars, CreditOf, Spending, Unlocked, HasLease
  <2> QED
    BY <1>2, <2>1 DEF vars, leaseVars, IInv, LeaseInv, Lease!TypeOK, Lease!KeptUntilLapse,
                      TypeOK, MaxAllowance, PlaceInv, CreditInv
<1> QED
  BY <1>1, <1>2

LEMMA InitIInv ==
  ASSUME RemoteAssumption, Init
  PROVE  IInv
<1>1. LeaseInv
  BY LeaseInit DEF Init
<1>2. MaxAllowance \in Nat /\ MaxAllowance >= 1
  BY SomeOf DEF MaxAllowance
<1>3. TypeOK /\ PlaceInv
  BY <1>2 DEF Init, Lease!Init, TypeOK, Lease!TypeOK, Labels, PlaceInv
<1>4. ASSUME NEW k \in Keys PROVE CreditOf(k)
  <2>1. Spending(k) = {} /\ Unlocked(k) = {}
    BY DEF Init, Spending, Unlocked
  <2>2. allowance[k] = 1
    BY DEF Init
  <2> QED
    BY <2>1, <2>2, FS_EmptySet DEF CreditOf
<1> QED
  BY <1>1, <1>3, <1>4 DEF IInv, CreditInv

\* Everyone who fills, spends.
LEMMA Counted ==
  ASSUME RemoteAssumption, IInv
  PROVE  FillsAccountedFor
<1> SUFFICES ASSUME NEW k \in Keys
             PROVE  Cardinality(Filling(k)) <= allowance[k]
  BY DEF FillsAccountedFor
<1>1. Filling(k) \in SUBSET Spending(k) /\ Spending(k) \in SUBSET Procs
  BY DEF Filling, Spending
<1>2. Cardinality(Filling(k)) <= Cardinality(Spending(k)) /\ Cardinality(Spending(k)) <= allowance[k]
  BY <1>1, SomeOf DEF IInv, CreditInv, CreditOf
<1>3. /\ Cardinality(Filling(k)) \in Nat /\ Cardinality(Spending(k)) \in Nat
      /\ allowance[k] \in Nat
  <2>1. Filling(k) \in SUBSET Procs
    BY <1>1
  <2>2. allowance[k] \in Nat
    BY DEF IInv, TypeOK
  <2> QED
    BY <1>1, <2>1, <2>2, SomeOf
<1> QED
  BY <1>2, <1>3
-----------------------------------------------------------------------------
\* The lock excludes as long as leases last.
THEOREM LeaseExcludes ==
  ASSUME Lease!LeaseAssumption
  PROVE  Lease!Spec => []Lease!OneLiveHolder
<1>1. LeaseInv => Lease!OneLiveHolder
  BY DEF LeaseInv, Lease!TypeOK, Lease!KeptUntilLapse, Lease!OneLiveHolder
<1>2. Lease!Init => LeaseInv
  BY LeaseInit
<1>3. LeaseInv /\ [Lease!Next]_(Lease!leaseVars) => LeaseInv'
  BY LeaseStep DEF Lease!leaseVars, leaseVars
<1> QED
  BY <1>1, <1>2, <1>3, PTL DEF Lease!Spec
=============================================================================
