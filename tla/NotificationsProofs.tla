------------------------- MODULE NotificationsProofs -------------------------
(***************************************************************************)
(* Notifications for any number of workers, saves, tasks, crashes and      *)
(* redeliveries: nobody is notified twice but by a mishap that is counted, *)
(* and a notification that is due later is not forgotten.                  *)
(*                                                                         *)
(* PushesAccountedFor is not inductive.  Before send_started is written it *)
(* has to be known how many workers may be on their way to push: one that  *)
(* has the lease (there is at most one), and those without, each of whom   *)
(* cost a mishap.  Once it is written, nobody sets out any more, and       *)
(* whoever is on the way is already counted.                               *)
(*                                                                         *)
(* Nor are NeverForgotten and QueuedForItsTime: that a task stands for the *)
(* row while no event of it is under way rests on what each worker between *)
(* listing, deleting and creating tasks still knows of the row (WatchInv). *)
(***************************************************************************)
EXTENDS Notifications, FiniteSetTheorems, TLAPS

\* What is true of the lock of module LeaseLock, as in module RemoteCacheProofs.
LeaseInv == Lease!TypeOK /\ Lease!KeptUntilLapse

\* A worker has a lease only inside the handler; it queues a task only for a
\* time that was in the row.
PlaceInv ==
    \A w \in Workers :
        /\ pc[w] \in {"idle", "lock", "respond"} => held[w] = Nothing
        /\ pc[w] \in {"list", "create"} => want[w] \in Schedules

\* The workers about to push.
Sending == {w \in Workers : pc[w] \in {"mark", "push"}}

\* The workers that may be about to push without a lease.
Unsafe == {w \in Workers : /\ pc[w] \in {"read", "mark"}
                           /\ held[w] = Nothing \/ w \in lapsed}

BeforeInv ==
    ~started => /\ pushes = 0
                /\ \A w \in Workers : pc[w] # "push"
                /\ Cardinality(Unsafe) <= mishaps

AfterInv == started => pushes + Cardinality(Sending) <= 1 + mishaps

IInv == /\ LeaseInv
        /\ TypeOK
        /\ PlaceInv
        /\ BeforeInv
        /\ AfterInv
-----------------------------------------------------------------------------
LEMMA Bounds == /\ MaxTime \in Nat /\ MaxMishaps \in Nat
                /\ MaxCrashes \in Nat /\ MaxDuplicates \in Nat
  BY NotificationsAssumption

LEMMA Finite ==
  /\ IsFiniteSet(Sending) /\ Cardinality(Sending) \in Nat
  /\ IsFiniteSet(Unsafe) /\ Cardinality(Unsafe) \in Nat
  BY NotificationsAssumption, FS_Subset, FS_CardinalityType DEF Sending, Unsafe

LEMMA FinitePrimed ==
  /\ IsFiniteSet(Sending') /\ Cardinality(Sending') \in Nat
  /\ IsFiniteSet(Unsafe') /\ Cardinality(Unsafe') \in Nat
  BY NotificationsAssumption, FS_Subset, FS_CardinalityType DEF Sending, Unsafe

\* A finite set that gains at most one element has at most one element more.
LEMMA OneMore ==
  ASSUME NEW S, NEW T, NEW x, IsFiniteSet(S), T \subseteq S \cup {x}
  PROVE  Cardinality(T) <= Cardinality(S) + 1
<1>1. IsFiniteSet(S \cup {x}) /\ Cardinality(S \cup {x}) <= Cardinality(S) + 1
  <2>1. Cardinality(S) \in Nat
    BY FS_CardinalityType
  <2>2. /\ IsFiniteSet(S \cup {x})
        /\ \/ Cardinality(S \cup {x}) = Cardinality(S)
           \/ Cardinality(S \cup {x}) = Cardinality(S) + 1
    BY FS_AddElement
  <2> QED
    BY <2>1, <2>2
<1>2. IsFiniteSet(T) /\ Cardinality(T) <= Cardinality(S \cup {x})
  BY <1>1, FS_Subset
<1> QED
  BY <1>1, <1>2, FS_CardinalityType

\* One that loses an element has at least one element less.
LEMMA OneLess ==
  ASSUME NEW S, NEW T, NEW x \in S, IsFiniteSet(S), T \subseteq S \ {x}
  PROVE  Cardinality(T) + 1 <= Cardinality(S)
<1>1. IsFiniteSet(S \ {x}) /\ Cardinality(S \ {x}) = Cardinality(S) - 1
  BY FS_RemoveElement
<1>2. IsFiniteSet(T) /\ Cardinality(T) <= Cardinality(S \ {x})
  BY <1>1, FS_Subset
<1> QED
  BY <1>1, <1>2, FS_CardinalityType

LEMMA LeaseStep ==
  ASSUME LeaseInv, [Lease!Next]_lockVars
  PROVE  LeaseInv'
<1> USE NotificationsAssumption
    DEF Lease!LeaseAssumption, LeaseInv, Lease!TypeOK, Lease!KeptUntilLapse
<1>1. CASE UNCHANGED lockVars
  BY <1>1 DEF lockVars
<1>2. ASSUME NEW w \in Workers, NEW k \in {LockName},
             Lease!Obtain(w, k) \/ Lease!Refused(w, k)
      PROVE  LeaseInv'
  BY <1>2 DEF Lease!Obtain, Lease!Refused
<1>3. ASSUME NEW w \in Workers, Lease!Release(w) \/ Lease!Die(w) PROVE LeaseInv'
  BY <1>3 DEF Lease!Release, Lease!Die, Lease!Forget
<1>4. ASSUME NEW k \in {LockName}, Lease!Lapse(k) PROVE LeaseInv'
  BY <1>4 DEF Lease!Lapse
<1> QED
  BY <1>1, <1>2, <1>3, <1>4 DEF Lease!Next

\* At most one worker has a lease that has not run out.
LEMMA OneLive ==
  ASSUME LeaseInv, NEW v \in Workers, NEW w \in Workers,
         held[v] # Nothing, v \notin lapsed, held[w] # Nothing, w \notin lapsed
  PROVE  v = w
  BY DEF LeaseInv, Lease!TypeOK, Lease!KeptUntilLapse

\* A worker that reads, or is about to write send_started, is unsafe or the one
\* with the lease.
LEMMA MarkingFew ==
  ASSUME IInv, ~started
  PROVE  Cardinality(Sending) <= 1 + mishaps
<1>1. \A w \in Sending : w \in Unsafe \/ (held[w] # Nothing /\ w \notin lapsed)
  BY DEF IInv, BeforeInv, Sending, Unsafe
<1>2. PICK x : Sending \subseteq Unsafe \cup {x}
  <2>1. CASE Sending \subseteq Unsafe
    BY <2>1
  <2>2. CASE \E w \in Sending : w \notin Unsafe
    BY <1>1, <2>2, OneLive DEF IInv, Sending
  <2> QED
    BY <2>1, <2>2
<1>3. Cardinality(Sending) <= Cardinality(Unsafe) + 1
  BY <1>2, OneMore, Finite
<1> QED
  BY <1>3, Finite DEF IInv, BeforeInv, TypeOK
\* A step on which nobody sets out to push, or only before send_started is
\* written and with a lease.
LEMMA NoneAdded ==
  ASSUME IInv, Unsafe' \subseteq Unsafe, started => Sending' \subseteq Sending,
         ~started => \A w \in Workers : pc'[w] # "push",
         UNCHANGED <<started, pushes>>, mishaps' \in Nat, mishaps <= mishaps'
  PROVE  BeforeInv' /\ AfterInv'
<1>1. /\ Cardinality(Unsafe') <= Cardinality(Unsafe)
      /\ started => Cardinality(Sending') <= Cardinality(Sending)
  BY Finite, FS_Subset
<1> QED
  BY <1>1, Finite, FinitePrimed DEF IInv, BeforeInv, AfterInv, TypeOK

\* The handler's steps that leave the lock alone.
LEMMA LockAlone ==
  ASSUME IInv, UNCHANGED lockVars
  PROVE  LeaseInv' /\ Lease!TypeOK'
<1>1. LeaseInv'
  BY LeaseStep DEF IInv
<1> QED
  BY <1>1 DEF LeaseInv, Lease!TypeOK

\* The steps of redis and those on it.
LEMMA LockStep ==
  ASSUME IInv, [Lease!Next]_lockVars
  PROVE  LeaseInv' /\ Lease!TypeOK'
<1>1. LeaseInv'
  BY LeaseStep DEF IInv
<1> QED
  BY <1>1 DEF LeaseInv, Lease!TypeOK

\* What w does with a lock it may have: Release, or dying.
LEMMA LockLeft ==
  ASSUME IInv, NEW w \in Workers, Lease!Release(w) \/ Lease!Die(w)
  PROVE  /\ LeaseInv' /\ Lease!TypeOK'
         /\ held' = [held EXCEPT ![w] = Nothing] /\ lapsed' = lapsed \ {w}
<1>1. held' = [held EXCEPT ![w] = Nothing] /\ lapsed' = lapsed \ {w}
  BY DEF Lease!Release, Lease!Die, Lease!Forget
<1>2. CASE held[w] # Nothing
  <2>1. Lease!Next
    BY <1>2 DEF Lease!Next
  <2> QED
    BY <1>1, <2>1, LockStep
<1>3. CASE held[w] = Nothing
  <2>1. /\ held \in [Workers -> {LockName, Nothing}]
        /\ lock \in [{LockName} -> Workers \cup {Nobody}]
        /\ w \notin lapsed
    BY <1>3 DEF IInv, TypeOK, Lease!TypeOK
  <2>2. held' = held /\ lapsed' = lapsed
    BY <1>1, <1>3, <2>1
  <2>3. lock' = lock
    BY <1>3, <2>1, NotificationsAssumption DEF Lease!Release, Lease!Die
  <2> QED
    BY <1>1, <2>2, <2>3, LockAlone DEF lockVars
<1> QED
  BY <1>2, <1>3
-----------------------------------------------------------------------------
LEMMA InitIInv == Init => IInv
<1> SUFFICES ASSUME Init PROVE IInv
  OBVIOUS
<1>1. LeaseInv /\ Lease!TypeOK
  BY NotificationsAssumption
  DEF Init, Lease!Init, Lease!TypeOK, LeaseInv,
      Lease!KeptUntilLapse
<1>2. TypeOK
  <2>1. /\ now \in 0..MaxTime /\ mishaps \in 0..MaxMishaps /\ pushes \in 0..(1 + MaxMishaps)
        /\ crashes \in 0..MaxCrashes /\ duplicates \in 0..MaxDuplicates
    BY Bounds DEF Init
  <2>2. /\ tasks \in [TaskNames -> {WholeSecond(t) : t \in Schedules} \cup {None}]
        /\ listed \in [Workers -> SUBSET (TaskNames \X {WholeSecond(t) : t \in Schedules})]
        /\ want \in [Workers -> Schedules \cup {None}]
    BY DEF Init
  <2>3. /\ pc \in [Workers -> Labels]
        /\ job \in [Workers -> Messages \cup TaskNames \cup {Nothing}]
    BY DEF Init, Labels
  <2> QED
    BY <1>1, <2>1, <2>2, <2>3 DEF Init, TypeOK
<1>3. PlaceInv
  BY DEF Init, Lease!Init, PlaceInv
<1>4. Unsafe = {} /\ Cardinality(Unsafe) = 0
  <2>1. Unsafe = {}
    BY DEF Init, Unsafe
  <2> QED
    BY <2>1, FS_EmptySet
<1> QED
  BY <1>1, <1>2, <1>3, <1>4 DEF Init, IInv, BeforeInv, AfterInv
\* Steps that leave the lock and the program counters alone: an editor's, an
\* acknowledgement, the clock.
LEMMA OthersStep ==
  ASSUME IInv, \/ \E m \in Messages : Save(m)
               \/ \E w \in Workers : Ignore(w)
               \/ Tick
  PROVE  IInv'
<1>1. LeaseInv' /\ Lease!TypeOK'
  BY LockAlone DEF Save, Ignore, Tick, lockVars
<1>2. UNCHANGED <<lockVars, pc, want, started, pushes, mishaps>>
  BY DEF Save, Ignore, Tick, workerVars, rowVars, historyVars
<1>3. TypeOK'
  <2>1. ASSUME NEW m \in Messages, Save(m) PROVE TypeOK'
    BY <1>1, <2>1 DEF IInv, TypeOK, Save, workerVars, historyVars
  <2>2. ASSUME NEW w \in Workers, Ignore(w) PROVE TypeOK'
    BY <1>1, <2>2, Bounds DEF IInv, TypeOK, Ignore, workerVars, rowVars
  <2>3. ASSUME Tick PROVE TypeOK'
    BY <1>1, <2>3, Bounds DEF IInv, TypeOK, Tick, workerVars, rowVars, queueVars, historyVars
  <2> QED
    BY <2>1, <2>2, <2>3
<1>4. PlaceInv'
  BY <1>2 DEF IInv, PlaceInv, lockVars
<1>5. BeforeInv' /\ AfterInv'
  <2>1. Unsafe' = Unsafe /\ Sending' = Sending
    BY <1>2 DEF Unsafe, Sending, lockVars
  <2> QED
    BY <1>2, <2>1 DEF IInv, BeforeInv, AfterInv
<1> QED
  BY <1>1, <1>3, <1>4, <1>5 DEF IInv

\* A worker takes up a job.
LEMMA ReceiveStep ==
  ASSUME IInv, NEW w \in Workers, Deliver(w) \/ Dispatch(w)
  PROVE  IInv'
<1>1. PICK j \in Messages \cup TaskNames : Receive(w, j)
  BY DEF Deliver, Dispatch, Queued, IInv, TypeOK
<1>2. LeaseInv' /\ Lease!TypeOK'
  BY <1>1, LockAlone DEF Receive, lockVars
<1>3. TypeOK'
  <2>1. duplicates' \in 0..MaxDuplicates
    BY <1>1, Bounds DEF Receive, IInv, TypeOK
  <2>2. pc' \in [Workers -> Labels] /\ job' \in [Workers -> Messages \cup TaskNames \cup {Nothing}]
    BY <1>1 DEF Receive, Goto, Labels, IInv, TypeOK
  <2> QED
    BY <1>1, <1>2, <2>1, <2>2 DEF Receive, rowVars, queueVars, IInv, TypeOK
<1>4. PlaceInv'
  BY <1>1 DEF Receive, Goto, lockVars, IInv, PlaceInv, TypeOK
<1>5. BeforeInv' /\ AfterInv'
  <2>1. /\ Unsafe' \subseteq Unsafe /\ Sending' \subseteq Sending
        /\ ~started => \A v \in Workers : pc'[v] # "push"
    BY <1>1 DEF Receive, Goto, lockVars, Unsafe, Sending, IInv, BeforeInv, TypeOK
  <2>2. UNCHANGED <<started, pushes, mishaps>> /\ mishaps \in Nat
    BY <1>1, Bounds DEF Receive, rowVars, IInv, TypeOK
  <2> QED
    BY <2>1, <2>2, NoneAdded
<1> QED
  BY <1>2, <1>3, <1>4, <1>5 DEF IInv
\* The lock is obtained: the lease is live, so nobody becomes unsafe.
LEMMA ObtainStep ==
  ASSUME IInv, NEW w \in Workers, Obtain(w)
  PROVE  IInv'
<1>1. LeaseInv' /\ Lease!TypeOK'
  BY LockStep DEF Obtain, Lease!Next
<1>2. TypeOK'
  BY <1>1 DEF Obtain, Goto, Labels, rowVars, queueVars, historyVars, IInv, TypeOK
<1>3. /\ held \in [Workers -> {LockName} \cup {Nothing}] /\ w \notin lapsed
      /\ held' = [held EXCEPT ![w] = LockName] /\ lapsed' = lapsed
  BY DEF Obtain, Lease!Obtain, IInv, TypeOK, Lease!TypeOK
<1>4. PlaceInv'
  BY <1>3 DEF Obtain, Goto, IInv, PlaceInv, TypeOK
<1>5. BeforeInv' /\ AfterInv'
  <2>1. /\ Unsafe' \subseteq Unsafe /\ Sending' \subseteq Sending
        /\ ~started => \A v \in Workers : pc'[v] # "push"
    BY <1>3, NotificationsAssumption
    DEF Obtain, Goto, Unsafe, Sending, IInv, BeforeInv, TypeOK
  <2>2. UNCHANGED <<started, pushes, mishaps>> /\ mishaps \in Nat
    BY Bounds DEF Obtain, rowVars, historyVars, IInv, TypeOK
  <2> QED
    BY <2>1, <2>2, NoneAdded
<1> QED
  BY <1>1, <1>2, <1>4, <1>5 DEF IInv

\* The lock is refused: one more worker is unsafe, and one more mishap counted.
LEMMA GoOnUnlockedStep ==
  ASSUME IInv, NEW w \in Workers, GoOnUnlocked(w)
  PROVE  IInv'
<1>1. LeaseInv' /\ Lease!TypeOK'
  BY LockStep DEF GoOnUnlocked, Lease!Next
<1>2. TypeOK'
  <2>1. mishaps' \in 0..MaxMishaps
    BY Bounds DEF GoOnUnlocked, IInv, TypeOK
  <2> QED
    BY <1>1, <2>1 DEF GoOnUnlocked, Goto, Labels, rowVars, queueVars, IInv, TypeOK
<1>3. UNCHANGED <<held, lapsed, started, pushes, want>> /\ mishaps' = mishaps + 1
  BY DEF GoOnUnlocked, Lease!Refused, rowVars
<1>4. PlaceInv'
  BY <1>3 DEF GoOnUnlocked, Goto, IInv, PlaceInv, TypeOK
<1>5. /\ Unsafe' \subseteq Unsafe \cup {w} /\ Sending' \subseteq Sending
      /\ ~started => \A v \in Workers : pc'[v] # "push"
  BY <1>3 DEF GoOnUnlocked, Goto, Unsafe, Sending, IInv, BeforeInv, TypeOK
<1>6. /\ Cardinality(Unsafe') <= Cardinality(Unsafe) + 1
      /\ Cardinality(Sending') <= Cardinality(Sending)
  BY <1>5, OneMore, Finite, FS_Subset
<1>7. BeforeInv' /\ AfterInv'
  BY <1>3, <1>5, <1>6, Bounds, Finite, FinitePrimed DEF IInv, BeforeInv, AfterInv, TypeOK
<1> QED
  BY <1>1, <1>2, <1>4, <1>7 DEF IInv

\* The row is read: a worker goes on to mark it only if send_started is not
\* written, and is as unsafe as it was.
LEMMA ReadStep ==
  ASSUME IInv, NEW w \in Workers, Read(w)
  PROVE  IInv'
<1>1. LeaseInv' /\ Lease!TypeOK'
  BY LockAlone DEF Read, lockVars
<1>2. /\ UNCHANGED <<held, lapsed, started, pushes, mishaps>>
      /\ pc[w] = "read" /\ pc' \in [Workers -> Labels]
      /\ \A v \in Workers \ {w} : pc'[v] = pc[v] /\ want'[v] = want[v]
      /\ pc'[w] \in {"list", "mark", "release"}
      /\ pc'[w] = "list" => want'[w] \in Schedules
      /\ pc'[w] = "mark" => ~started
  BY DEF Read, ReturnError, Goto, ToSend, InFuture, Labels, lockVars, rowVars, IInv, TypeOK
<1>3. TypeOK'
  <2>1. want' \in [Workers -> Schedules \cup {None}] /\ errored' \in BOOLEAN
    BY DEF Read, ReturnError, IInv, TypeOK
  <2>2. {<<t, tasks[t]>> : t \in Queued} \in
            SUBSET (TaskNames \X {WholeSecond(t) : t \in Schedules})
    BY DEF Queued, IInv, TypeOK
  <2>3. listed' \in [Workers -> SUBSET (TaskNames \X {WholeSecond(t) : t \in Schedules})]
    BY <2>2 DEF Read, IInv, TypeOK
  <2> QED
    BY <1>1, <1>2, <2>1, <2>3 DEF Read, rowVars, queueVars, IInv, TypeOK
<1>4. PlaceInv'
  BY <1>2 DEF IInv, PlaceInv
<1>5. BeforeInv' /\ AfterInv'
  <2>1. /\ Unsafe' \subseteq Unsafe
        /\ started => Sending' \subseteq Sending
        /\ ~started => \A v \in Workers : pc'[v] # "push"
    BY <1>2 DEF Unsafe, Sending, IInv, BeforeInv
  <2> QED
    BY <1>2, <2>1, Bounds, NoneAdded DEF IInv, TypeOK
<1> QED
  BY <1>1, <1>3, <1>4, <1>5 DEF IInv
\* Tasks are deleted and created by workers that will not push.
LEMMA QueueStep ==
  ASSUME IInv, NEW w \in Workers, List(w) \/ Create(w)
  PROVE  IInv'
<1>1. LeaseInv' /\ Lease!TypeOK'
  BY LockAlone DEF List, Create, lockVars
<1>2. /\ UNCHANGED <<held, lapsed, started, pushes, mishaps, want>>
      /\ pc[w] \in {"list", "create"} /\ pc' \in [Workers -> Labels]
      /\ \A v \in Workers \ {w} : pc'[v] = pc[v]
      /\ pc'[w] \in {"list", "create", "release"}
  <2>1. PICK label \in {"list", "create", "release"} : pc' = [pc EXCEPT ![w] = label]
    <3>1. \/ pc' = pc /\ pc[w] = "list"
          \/ \E label \in {"create", "release"} : pc' = [pc EXCEPT ![w] = label]
      BY DEF List, Create, ReturnError, Goto
    <3> QED
      BY <3>1 DEF IInv, TypeOK
  <2>2. /\ UNCHANGED <<held, lapsed, started, pushes, mishaps, want>>
        /\ pc[w] \in {"list", "create"}
    BY DEF List, Create, lockVars, rowVars
  <2> QED
    BY <2>1, <2>2 DEF Labels, IInv, TypeOK
<1>3. TypeOK'
  <2>1. errored' \in BOOLEAN
    BY DEF List, Create, ReturnError, IInv, TypeOK
  <2>2. tasks' \in [TaskNames -> {WholeSecond(t) : t \in Schedules} \cup {None}]
    <3>1. CASE List(w)
      BY <3>1 DEF List, IInv, TypeOK
    <3>2. CASE Create(w)
      <4>1. want[w] \in Schedules
        BY <3>2 DEF Create, IInv, PlaceInv
      <4>2. WholeSecond(want[w]) \in {WholeSecond(t) : t \in Schedules}
        BY <4>1
      <4> QED
        BY <3>2, <4>2 DEF Create, IInv, TypeOK
    <3> QED
      BY <3>1, <3>2
  <2>3. listed' \in [Workers -> SUBSET (TaskNames \X {WholeSecond(t) : t \in Schedules})]
    <3>1. \/ listed' = listed
          \/ \E entry : listed' = [listed EXCEPT ![w] = @ \ {entry}]
          \/ listed' = [listed EXCEPT ![w] = {}]
      BY DEF List, Create
    <3> QED
      BY <3>1 DEF IInv, TypeOK
  <2> QED
    BY <1>1, <1>2, <2>1, <2>2, <2>3 DEF List, Create, rowVars, IInv, TypeOK
<1>4. PlaceInv'
  BY <1>2 DEF IInv, PlaceInv
<1>5. BeforeInv' /\ AfterInv'
  <2>1. /\ Unsafe' \subseteq Unsafe /\ Sending' \subseteq Sending
        /\ ~started => \A v \in Workers : pc'[v] # "push"
    BY <1>2 DEF Unsafe, Sending, IInv, BeforeInv
  <2> QED
    BY <1>2, <2>1, Bounds, NoneAdded DEF IInv, TypeOK
<1> QED
  BY <1>1, <1>3, <1>4, <1>5 DEF IInv

\* send_started is written: whoever is on the way to push by now is counted.
LEMMA MarkStartedStep ==
  ASSUME IInv, NEW w \in Workers, MarkStarted(w)
  PROVE  IInv'
<1>1. LeaseInv' /\ Lease!TypeOK'
  BY LockAlone DEF MarkStarted, lockVars
<1>2. /\ UNCHANGED <<held, lapsed, pushes, mishaps, want>>
      /\ pc[w] = "mark" /\ pc' \in [Workers -> Labels]
      /\ \A v \in Workers \ {w} : pc'[v] = pc[v]
      /\ \/ started' = TRUE /\ pc'[w] = "push"
         \/ started' = started /\ pc'[w] = "release"
  BY DEF MarkStarted, ReturnError, Goto, Labels, lockVars, IInv, TypeOK
<1>3. TypeOK'
  BY <1>1, <1>2 DEF MarkStarted, ReturnError, queueVars, IInv, TypeOK
<1>4. PlaceInv'
  BY <1>2 DEF IInv, PlaceInv
<1>5. Unsafe' \subseteq Unsafe /\ Sending' \subseteq Sending
  BY <1>2 DEF Unsafe, Sending
<1>6. BeforeInv' /\ AfterInv'
  <2>1. CASE started' = started
    <3>1. ~started => \A v \in Workers : pc'[v] # "push"
      BY <1>2, <2>1 DEF IInv, BeforeInv, TypeOK
    <3> QED
      BY <1>2, <1>5, <2>1, <3>1, Bounds, NoneAdded DEF IInv, TypeOK
  <2>2. CASE ~started /\ started' = TRUE
    <3>1. pushes = 0 /\ Cardinality(Sending) <= 1 + mishaps
      BY <2>2, MarkingFew DEF IInv, BeforeInv
    <3>2. Cardinality(Sending') <= Cardinality(Sending)
      BY <1>5, Finite, FS_Subset
    <3> QED
      BY <1>2, <2>2, <3>1, <3>2, Bounds, Finite, FinitePrimed
      DEF BeforeInv, AfterInv, IInv, TypeOK
  <2> QED
    BY <1>2, <2>1, <2>2 DEF IInv, TypeOK
<1> QED
  BY <1>1, <1>3, <1>4, <1>6 DEF IInv

\* A push: counted as made, no longer as on its way.
LEMMA PushStep ==
  ASSUME IInv, NEW w \in Workers, Push(w)
  PROVE  IInv'
<1>1. LeaseInv' /\ Lease!TypeOK'
  BY LockAlone DEF Push, lockVars
<1>2. /\ UNCHANGED <<held, lapsed, started, mishaps, want>>
      /\ pc[w] = "push" /\ pc' = [pc EXCEPT ![w] = "release"]
      /\ pushes' = pushes \/ pushes' = pushes + 1
  BY DEF Push, ReturnError, Goto, lockVars, rowVars
<1>3. pushes \in Nat /\ pc \in [Workers -> Labels] /\ mishaps \in 0..MaxMishaps
  BY Bounds DEF IInv, TypeOK
<1>4. PlaceInv'
  BY <1>2, <1>3 DEF IInv, PlaceInv
<1>5. started
  BY <1>2 DEF IInv, BeforeInv
<1>6. w \in Sending /\ Sending' \subseteq Sending \ {w}
  BY <1>2, <1>3 DEF Sending
<1>7. Cardinality(Sending') + 1 <= Cardinality(Sending)
  BY <1>6, OneLess, Finite
<1>8. BeforeInv' /\ AfterInv'
  BY <1>2, <1>3, <1>5, <1>7, Bounds, Finite, FinitePrimed DEF BeforeInv, AfterInv, IInv
<1>9. TypeOK'
  <2>1. pushes' \in 0..(1 + MaxMishaps)
    BY <1>2, <1>3, <1>5, <1>8, Bounds, FinitePrimed DEF AfterInv
  <2> QED
    BY <1>1, <2>1 DEF Push, ReturnError, Goto, Labels, rowVars, queueVars, IInv, TypeOK
<1> QED
  BY <1>1, <1>4, <1>8, <1>9 DEF IInv
\* The deferred Release: a worker that is done has nothing more to push.
LEMMA ReleaseStep ==
  ASSUME IInv, NEW w \in Workers, Release(w)
  PROVE  IInv'
<1>1. /\ LeaseInv' /\ Lease!TypeOK'
      /\ held' = [held EXCEPT ![w] = Nothing] /\ lapsed' = lapsed \ {w}
  BY LockLeft DEF Release
<1>2. /\ UNCHANGED <<started, pushes, mishaps, want>>
      /\ pc[w] = "release" /\ pc' = [pc EXCEPT ![w] = "respond"]
  BY DEF Release, Goto, rowVars, historyVars
<1>3. /\ pc \in [Workers -> Labels] /\ mishaps \in Nat
      /\ held \in [Workers -> {LockName} \cup {Nothing}]
  BY Bounds DEF IInv, TypeOK, Lease!TypeOK
<1>4. TypeOK'
  BY <1>1, <1>2 DEF Release, Labels, rowVars, queueVars, historyVars, IInv, TypeOK
<1>5. PlaceInv'
  BY <1>1, <1>2, <1>3 DEF IInv, PlaceInv
<1>6. BeforeInv' /\ AfterInv'
  <2>1. /\ Unsafe' \subseteq Unsafe /\ Sending' \subseteq Sending
        /\ ~started => \A v \in Workers : pc'[v] # "push"
    BY <1>1, <1>2, <1>3 DEF Unsafe, Sending, IInv, BeforeInv
  <2> QED
    BY <1>2, <1>3, <2>1, NoneAdded
<1> QED
  BY <1>1, <1>4, <1>5, <1>6 DEF IInv

\* The answer: the job is done.
LEMMA RespondStep ==
  ASSUME IInv, NEW w \in Workers, Respond(w)
  PROVE  IInv'
<1>1. LeaseInv' /\ Lease!TypeOK'
  BY LockAlone DEF Respond, lockVars
<1>2. /\ UNCHANGED <<held, lapsed, started, pushes, mishaps>>
      /\ pc[w] = "respond" /\ pc' = [pc EXCEPT ![w] = "idle"]
      /\ want' = [want EXCEPT ![w] = None]
  BY DEF Respond, Leave, Goto, lockVars, rowVars, historyVars
<1>3. pc \in [Workers -> Labels] /\ mishaps \in Nat
  BY Bounds DEF IInv, TypeOK
<1>4. TypeOK'
  <2>1. tasks' \in [TaskNames -> {WholeSecond(t) : t \in Schedules} \cup {None}]
    BY DEF Respond, IInv, TypeOK
  <2>2. /\ pc' \in [Workers -> Labels] /\ want' \in [Workers -> Schedules \cup {None}]
        /\ job' \in [Workers -> Messages \cup TaskNames \cup {Nothing}]
        /\ listed' \in [Workers -> SUBSET (TaskNames \X {WholeSecond(t) : t \in Schedules})]
    BY <1>2 DEF Respond, Leave, Labels, IInv, TypeOK
  <2>3. unacked' \in SUBSET (Messages \ unsaved')
    BY DEF Respond, IInv, TypeOK
  <2> QED
    BY <1>1, <2>1, <2>2, <2>3 DEF Respond, rowVars, historyVars, IInv, TypeOK
<1>5. PlaceInv'
  BY <1>2, <1>3 DEF IInv, PlaceInv, TypeOK
<1>6. BeforeInv' /\ AfterInv'
  <2>1. /\ Unsafe' \subseteq Unsafe /\ Sending' \subseteq Sending
        /\ ~started => \A v \in Workers : pc'[v] # "push"
    BY <1>2, <1>3 DEF Unsafe, Sending, IInv, BeforeInv
  <2> QED
    BY <1>2, <1>3, <2>1, NoneAdded
<1> QED
  BY <1>1, <1>4, <1>5, <1>6 DEF IInv

\* A pod is killed: its lease is left to run out, its job to be delivered again.
LEMMA CrashStep ==
  ASSUME IInv, NEW w \in Workers, Crash(w)
  PROVE  IInv'
<1>1. /\ LeaseInv' /\ Lease!TypeOK'
      /\ held' = [held EXCEPT ![w] = Nothing] /\ lapsed' = lapsed \ {w}
  BY LockLeft DEF Crash
<1>2. /\ UNCHANGED <<started, pushes, mishaps>>
      /\ pc' = [pc EXCEPT ![w] = "idle"] /\ want' = [want EXCEPT ![w] = None]
  BY DEF Crash, Leave, Goto, rowVars
<1>3. /\ pc \in [Workers -> Labels] /\ mishaps \in Nat
      /\ held \in [Workers -> {LockName} \cup {Nothing}]
      /\ want \in [Workers -> Schedules \cup {None}]
  BY Bounds DEF IInv, TypeOK, Lease!TypeOK
<1>4. TypeOK'
  <2>1. /\ pc' \in [Workers -> Labels] /\ want' \in [Workers -> Schedules \cup {None}]
        /\ job' \in [Workers -> Messages \cup TaskNames \cup {Nothing}]
        /\ listed' \in [Workers -> SUBSET (TaskNames \X {WholeSecond(t) : t \in Schedules})]
    BY <1>2 DEF Crash, Leave, Labels, IInv, TypeOK
  <2>2. crashes' \in 0..MaxCrashes
    BY Bounds DEF Crash, IInv, TypeOK
  <2>3. orphaned' \in BOOLEAN
    BY DEF Crash
  <2> QED
    BY <1>1, <2>1, <2>2, <2>3 DEF Crash, rowVars, queueVars, IInv, TypeOK
<1>5. PlaceInv'
  BY <1>1, <1>2, <1>3 DEF IInv, PlaceInv
<1>6. BeforeInv' /\ AfterInv'
  <2>1. /\ Unsafe' \subseteq Unsafe /\ Sending' \subseteq Sending
        /\ ~started => \A v \in Workers : pc'[v] # "push"
    BY <1>1, <1>2, <1>3 DEF Unsafe, Sending, IInv, BeforeInv
  <2> QED
    BY <1>2, <1>3, <2>1, NoneAdded
<1> QED
  BY <1>1, <1>4, <1>5, <1>6 DEF IInv

\* A lease runs out: its holder, if it is where that matters, becomes unsafe,
\* and one more mishap is counted.
LEMMA LapseStep ==
  ASSUME IInv, Lapse
  PROVE  IInv'
<1>1. LeaseInv' /\ Lease!TypeOK'
  BY LockStep DEF Lapse, Lease!Next
<1>2. /\ UNCHANGED <<held, started, pushes, want, pc>>
      /\ mishaps' \in 0..MaxMishaps
      /\ lapsed' = lapsed \cup {p \in Workers : lock[LockName] = p /\ held[p] = LockName}
      /\ IF \E w \in lapsed' \ lapsed : pc[w] \in {"read", "mark"}
         THEN mishaps' = mishaps + 1 ELSE mishaps' = mishaps
  BY Bounds DEF Lapse, Lease!Lapse, rowVars, workerVars, IInv, TypeOK
<1>3. TypeOK'
  BY <1>1, <1>2 DEF Lapse, rowVars, queueVars, workerVars, IInv, TypeOK
<1>4. PlaceInv'
  BY <1>2 DEF IInv, PlaceInv
<1>5. mishaps \in Nat /\ Sending' \subseteq Sending
  BY <1>2, Bounds DEF Sending, IInv, TypeOK
<1>6. BeforeInv' /\ AfterInv'
  <2>1. CASE mishaps' = mishaps + 1
    <3>1. Unsafe' \subseteq Unsafe \cup {lock[LockName]}
      BY <1>2 DEF Unsafe
    <3>2. /\ Cardinality(Unsafe') <= Cardinality(Unsafe) + 1
          /\ Cardinality(Sending') <= Cardinality(Sending)
      BY <1>5, <3>1, OneMore, Finite, FS_Subset
    <3> QED
      BY <1>2, <1>5, <2>1, <3>2, Finite, FinitePrimed
      DEF IInv, BeforeInv, AfterInv, TypeOK
  <2>2. CASE ~\E w \in lapsed' \ lapsed : pc[w] \in {"read", "mark"}
    <3>1. Unsafe' \subseteq Unsafe /\ mishaps' = mishaps
      BY <1>2, <2>2 DEF Unsafe
    <3> QED
      BY <1>2, <1>5, <3>1, NoneAdded DEF IInv, BeforeInv
  <2> QED
    BY <1>2, <2>1, <2>2
<1> QED
  BY <1>1, <1>3, <1>4, <1>6 DEF IInv
-----------------------------------------------------------------------------
LEMMA NextIInv == IInv /\ [Next]_vars => IInv'
<1> SUFFICES ASSUME IInv, [Next]_vars PROVE IInv'
  OBVIOUS
<1>1. CASE UNCHANGED vars
  <2>1. LeaseInv' /\ Lease!TypeOK'
    BY <1>1, LockAlone DEF vars
  <2>2. TypeOK' /\ PlaceInv'
    BY <1>1, <2>1
    DEF vars, lockVars, rowVars, queueVars, workerVars, historyVars, IInv, TypeOK, PlaceInv
  <2>3. BeforeInv' /\ AfterInv'
    <3>1. Unsafe' = Unsafe /\ Sending' = Sending
      BY <1>1 DEF vars, lockVars, workerVars, Unsafe, Sending
    <3> QED
      BY <1>1, <3>1
      DEF vars, rowVars, workerVars, historyVars, IInv, BeforeInv, AfterInv
  <2> QED
    BY <2>1, <2>2, <2>3 DEF IInv
<1>2. CASE Next
  <2>1. ASSUME NEW w \in Workers, Handle(w) PROVE IInv'
    BY <2>1, ObtainStep, ReadStep, QueueStep, MarkStartedStep, PushStep,
       ReleaseStep, RespondStep DEF Handle
  <2> QED
    BY <1>2, <2>1, OthersStep, ReceiveStep, GoOnUnlockedStep, CrashStep, LapseStep DEF Next
<1> QED
  BY <1>1, <1>2

LEMMA Inductive == Spec => []IInv
  BY InitIInv, NextIInv, PTL DEF Spec

\* The row, the messages, the tasks, the workers and the counters stay in their
\* types: among them a task's time is a whole second, never a schedule's half.
THEOREM TypeCorrect == Spec => []TypeOK
<1>1. IInv => TypeOK
  BY DEF IInv
<1> QED
  BY <1>1, Inductive, PTL

\* Nobody is notified twice but by a lock that was refused or outrun, whatever
\* is delivered again, rescheduled or killed.
THEOREM PushesPaidFor == Spec => []PushesAccountedFor
<1>1. IInv => PushesAccountedFor
  BY Bounds, Finite DEF IInv, BeforeInv, AfterInv, TypeOK, PushesAccountedFor
<1> QED
  BY <1>1, Inductive, PTL
-----------------------------------------------------------------------------
(* The second invariant: who will look at a published notification.         *)

\* w has still to read the row, or will mark it.
Early(w) == pc[w] \in {"lock", "read", "mark"}

\* No delivery of j has got so far that it no longer minds the row.
Unseen(j) == \A w \in Workers : job[w] = j => Early(w)

\* The workers in Queue.
Queuing == {w \in Workers : pc[w] \in {"list", "create"}}

\* There is a save whose message has still to be looked at.
NewSave == \E m \in Messages : \/ m \in unacked /\ Unseen(m)
                               \/ \E w \in Workers : job[w] = m /\ Early(w)

\* There is a task that is due and has still to be looked at.
DueTask == \E t \in Queued : tasks[t] <= now /\ Unseen(t)

\* A task stands at the row's time, or will.
Stands == \/ \E t \in Queued : tasks[t] = WholeSecond(at) /\ Unseen(t)
          \/ \E w \in Queuing : want[w] = at

Undisturbed == ~errored /\ ~orphaned /\ ~raced

\* What a worker handles is a message that was published or a task that was
\* due; a listing has every task once.
JobInv == \A w \in Workers :
             /\ pc[w] = "idle" => job[w] = Nothing
             /\ job[w] \notin unsaved
             /\ \A t \in Queued : job[w] = t => tasks[t] <= now
             /\ \A e, f \in listed[w] : e[1] = f[1] => e = f

AloneInv == ~raced => \A v, w \in Queuing : v = w

\* A worker queues for the time in the row, unless that was saved again.
WantInv == \A w \in Queuing : want[w] # at => NewSave

\* A task that a worker will be content with is there.
ListedInv ==
    \A w \in Workers : pc[w] = "list" =>
        \A e \in listed[w] :
            e[2] = want[w] => NewSave \/ (tasks[e[1]] = e[2] /\ Unseen(e[1]))

SomebodyInv == \/ NewSave
               \/ DueTask
               \/ \E w \in Workers : Early(w)
               \/ at # None /\ Stands

Watched == ToSend /\ Undisturbed => WantInv /\ ListedInv /\ SomebodyInv

WatchInv == JobInv /\ AloneInv /\ Watched

\* Once a save is to be looked at, all is well.
LEMMA SavedIsWatched == NewSave => Watched
  BY DEF Watched, WantInv, ListedInv, SomebodyInv

LEMMA WholeSecondNat ==
  ASSUME NEW t \in Nat
  PROVE  WholeSecond(t) \in Nat
  BY DEF WholeSecond

LEMMA WholeSecondTwice ==
  ASSUME NEW s \in {WholeSecond(t) : t \in Schedules}
  PROVE  s \in Int /\ WholeSecond(s) = s
<1>1. PICK t \in Nat : s = t - (t % 2)
  BY NotificationsAssumption DEF WholeSecond
<1>2. s \in Int /\ s % 2 = 0
  BY <1>1
<1> QED
  BY <1>2 DEF WholeSecond

\* The times of tasks are numbers, which None is not.
LEMMA QueuedTimes ==
  ASSUME TypeOK, NEW t \in Queued
  PROVE  /\ t \in TaskNames /\ tasks[t] \in Int
         /\ tasks[t] \in {WholeSecond(s) : s \in Schedules}
  BY WholeSecondTwice DEF TypeOK, Queued

\* A step that leaves the row, the tasks and Queue alone, acknowledges nothing
\* and takes nobody further than to the mark.
LEMMA StillWatched ==
  ASSUME TypeOK, WatchInv, now' \in Int, now <= now', UNCHANGED <<at, tasks>>,
         ToSend' => ToSend, Undisturbed' => Undisturbed,
         unacked \subseteq unacked',
         \A j : Unseen(j) => Unseen(j)',
         \A w \in Workers : Early(w) => Early(w)' /\ job'[w] = job[w],
         Queuing' = Queuing, \A w \in Queuing : want'[w] = want[w],
         \A w \in Workers : pc'[w] = "list" => pc[w] = "list" /\ listed'[w] = listed[w]
  PROVE  Watched'
<1> SUFFICES ASSUME ToSend', Undisturbed'
             PROVE  WantInv' /\ ListedInv' /\ SomebodyInv'
  BY DEF Watched
<1>1. WantInv /\ ListedInv /\ SomebodyInv
  BY DEF WatchInv, Watched
<1>2. NewSave => NewSave'
  BY DEF NewSave
<1>3. WantInv'
  BY <1>1, <1>2 DEF WantInv
<1>4. ListedInv'
  BY <1>1, <1>2 DEF ListedInv, Queuing
<1>5. DueTask => DueTask'
  <2>1. now \in Int
    BY Bounds DEF TypeOK
  <2>2. Queued' = Queued
    BY DEF Queued
  <2> QED
    BY <2>1, <2>2, QueuedTimes DEF DueTask
<1>6. Stands => Stands'
  BY DEF Stands, Queued, WholeSecond
<1> QED
  BY <1>1, <1>2, <1>3, <1>4, <1>5, <1>6 DEF SomebodyInv

\* An editor saves the row: a message of that save is yet to be looked at.
LEMMA SaveWatched ==
  ASSUME TypeOK, WatchInv, NEW m \in Messages, Save(m)
  PROVE  WatchInv'
<1>1. JobInv' /\ AloneInv'
  BY DEF Save, workerVars, historyVars, WatchInv, JobInv, AloneInv, Queuing, Queued
<1>2. NewSave'
  <2>1. m \in unacked' /\ \A w \in Workers : job'[w] # m
    BY DEF Save, workerVars, WatchInv, JobInv
  <2> QED
    BY <2>1 DEF NewSave, Unseen
<1> QED
  BY <1>1, <1>2, SavedIsWatched DEF WatchInv, Watched, WantInv, ListedInv, SomebodyInv

\* A worker takes up a job, which it has still to look at.
LEMMA ReceiveWatched ==
  ASSUME TypeOK, WatchInv, NEW w \in Workers, Deliver(w) \/ Dispatch(w)
  PROVE  WatchInv'
<1>1. PICK j \in unacked \cup {t \in Queued : tasks[t] <= now} : Receive(w, j)
  BY DEF Deliver, Dispatch
<1>2. /\ pc[w] = "idle" /\ pc' = [pc EXCEPT ![w] = "lock"]
      /\ job[w] = Nothing /\ job' = [job EXCEPT ![w] = j]
      /\ UNCHANGED <<now, status, at, started, unsaved, unacked, tasks, want, listed,
                     errored, orphaned, raced>>
  BY <1>1 DEF Receive, Goto, rowVars, queueVars, WatchInv, JobInv
<1>3. /\ pc \in [Workers -> Labels]
      /\ job \in [Workers -> Messages \cup TaskNames \cup {Nothing}]
      /\ j # Nothing /\ j \notin unsaved /\ Queued \subseteq TaskNames
  BY NotificationsAssumption DEF TypeOK, Queued
<1>4. JobInv'
  BY <1>1, <1>2, <1>3, NotificationsAssumption DEF WatchInv, JobInv, Queued, TypeOK
<1>5. Queuing' = Queuing
  BY <1>2, <1>3 DEF Queuing
<1>6. AloneInv'
  BY <1>2, <1>5 DEF WatchInv, AloneInv
<1>7. Watched'
  <2>1. \A v \in Workers : Early(v) => Early(v)' /\ job'[v] = job[v]
    BY <1>2, <1>3 DEF Early
  <2>2. ASSUME NEW k, Unseen(k) PROVE Unseen(k)'
    BY <1>2, <1>3, <2>1, <2>2 DEF Unseen, Early
  <2>3. now \in Int /\ now <= now'
    BY <1>2, Bounds DEF TypeOK
  <2> QED
    BY <1>2, <1>3, <1>5, <2>1, <2>2, <2>3, StillWatched DEF ToSend, Undisturbed
<1> QED
  BY <1>4, <1>6, <1>7 DEF WatchInv

\* A message that is acknowledged while it is being handled is still handled.
LEMMA IgnoreWatched ==
  ASSUME TypeOK, WatchInv, NEW w \in Workers, Ignore(w)
  PROVE  WatchInv'
<1>1. UNCHANGED <<now, status, at, started, unsaved, tasks, pc, job, want, listed,
                  errored, orphaned, raced>> /\ unacked' = unacked \ {job[w]}
  BY DEF Ignore, rowVars, workerVars
<1>2. JobInv' /\ AloneInv'
  BY <1>1 DEF WatchInv, JobInv, AloneInv, Queuing, Queued
<1>3. NewSave => NewSave'
  BY <1>1 DEF NewSave, Unseen, Early
<1>4. Watched'
  <2>1. \A j : Unseen(j)' <=> Unseen(j)
    BY <1>1 DEF Unseen, Early
  <2>2. WantInv => WantInv'
    BY <1>1, <1>3 DEF WantInv, Queuing
  <2>3. ListedInv => ListedInv'
    BY <1>1, <1>3, <2>1 DEF ListedInv
  <2>4. SomebodyInv => SomebodyInv'
    BY <1>1, <1>3, <2>1
    DEF SomebodyInv, DueTask, Stands, Queued, Queuing, Early, WholeSecond
  <2> QED
    BY <1>1, <2>2, <2>3, <2>4 DEF WatchInv, Watched, ToSend, Undisturbed
<1> QED
  BY <1>2, <1>4 DEF WatchInv

\* Steps in which a worker goes on and nothing else changes that matters here:
\* to the reading of the row, past a push, to the answer, or nowhere.
LEMMA OnwardWatched ==
  ASSUME TypeOK, WatchInv, now' \in Int, now <= now',
         UNCHANGED <<status, at, started, unsaved, unacked, tasks, job, want, listed,
                     orphaned, raced>>,
         errored => errored',
         \/ pc' = pc
         \/ \E w \in Workers :
               \/ pc[w] = "lock" /\ pc' = [pc EXCEPT ![w] = "read"]
               \/ pc[w] = "push" /\ pc' = [pc EXCEPT ![w] = "release"]
               \/ pc[w] = "release" /\ pc' = [pc EXCEPT ![w] = "respond"]
  PROVE  WatchInv'
<1>1. pc \in [Workers -> Labels] /\ now \in Int
  BY Bounds DEF TypeOK
<1>2. \A v \in Workers : /\ Early(v)' <=> Early(v)
                         /\ pc'[v] = "idle" <=> pc[v] = "idle"
                         /\ pc'[v] = "list" <=> pc[v] = "list"
                         /\ pc'[v] = "create" <=> pc[v] = "create"
  BY <1>1 DEF Early
<1>3. Queuing' = Queuing /\ \A j : Unseen(j) => Unseen(j)'
  BY <1>2 DEF Queuing, Unseen
<1>4. JobInv'
  <2>1. Queued' = Queued /\ \A t \in Queued : tasks[t] \in Int
    BY QueuedTimes DEF Queued
  <2> QED
    BY <1>1, <1>2, <2>1 DEF WatchInv, JobInv
<1>5. AloneInv'
  BY <1>3 DEF WatchInv, AloneInv
<1>6. Watched'
  BY <1>2, <1>3, StillWatched DEF ToSend, Undisturbed
<1> QED
  BY <1>4, <1>5, <1>6 DEF WatchInv

\* The row is read: a worker that goes on to Queue is alone there and queues
\* for the row's time; of the tasks at that time none can be under way.
LEMMA ReadWatched ==
  ASSUME TypeOK, WatchInv, NEW w \in Workers, Read(w)
  PROVE  WatchInv'
<1>1. /\ UNCHANGED <<now, status, at, started, unsaved, unacked, tasks, job, orphaned>>
      /\ pc[w] = "read" /\ pc \in [Workers -> Labels] /\ now \in Int
      /\ \A v \in Workers \ {w} : /\ pc'[v] = pc[v] /\ want'[v] = want[v]
                                  /\ listed'[v] = listed[v]
      /\ \A v \in Workers : pc'[v] = "idle" <=> pc[v] = "idle"
  BY Bounds DEF Read, ReturnError, Goto, rowVars, queueVars, TypeOK
<1>2. Queued' = Queued /\ \A t \in Queued : tasks[t] \in Int
  BY <1>1, QueuedTimes DEF Queued
<1>3. JobInv'
  <2>1. listed'[w] = listed[w] \/ listed'[w] = {<<t, tasks[t]>> : t \in Queued}
    BY DEF Read, TypeOK
  <2>2. \A e, f \in listed'[w] : e[1] = f[1] => e = f
    BY <2>1 DEF WatchInv, JobInv
  <2> QED
    BY <1>1, <1>2, <2>2 DEF WatchInv, JobInv
<1>4. CASE ~ToSend /\ pc' = [pc EXCEPT ![w] = "release"] /\ UNCHANGED <<want, listed, raced>>
  <2>1. AloneInv'
    BY <1>1, <1>4 DEF WatchInv, AloneInv, Queuing
  <2>2. Watched'
    BY <1>1, <1>4 DEF Watched, ToSend
  <2> QED
    BY <1>3, <2>1, <2>2 DEF WatchInv
<1>5. CASE /\ ToSend /\ InFuture /\ pc' = [pc EXCEPT ![w] = "list"]
           /\ want' = [want EXCEPT ![w] = at]
           /\ listed' = [listed EXCEPT ![w] = {<<t, tasks[t]>> : t \in Queued}]
           /\ raced' = (raced \/ \E v \in Workers : pc[v] \in {"list", "create"})
  <2>1. ~raced' => Queuing = {} /\ Queuing' = {w}
    BY <1>1, <1>5 DEF Queuing
  <2>2. want'[w] = at /\ listed'[w] = {<<t, tasks[t]>> : t \in Queued} /\ at \in Int /\ at > now
    BY <1>5, NotificationsAssumption DEF InFuture, TypeOK
  <2>3. AloneInv'
    BY <2>1 DEF AloneInv
  <2>4. ASSUME Undisturbed' PROVE WantInv' /\ ListedInv' /\ SomebodyInv'
    <3>1. Queuing' = {w}
      BY <2>1, <2>4 DEF Undisturbed
    <3>2. WantInv'
      BY <1>1, <2>2, <3>1 DEF WantInv
    <3>3. ListedInv'
      <4>1. ASSUME NEW t \in Queued, tasks[t] = at PROVE Unseen(t)'
        BY <1>1, <1>2, <2>2, <4>1 DEF WatchInv, JobInv, Unseen
      <4>2. \A e \in listed'[w] : e[2] = want'[w] => (tasks[e[1]] = e[2] /\ Unseen(e[1])')
        BY <2>2, <4>1
      <4> QED
        BY <1>1, <3>1, <4>2 DEF ListedInv, Queuing
    <3>4. SomebodyInv'
      BY <1>1, <1>5, <2>2, <3>1 DEF SomebodyInv, Stands, InFuture
    <3> QED
      BY <3>2, <3>3, <3>4
  <2> QED
    BY <1>3, <2>3, <2>4 DEF WatchInv, Watched
<1>6. CASE /\ ToSend /\ ~InFuture /\ pc' = [pc EXCEPT ![w] = "mark"]
           /\ UNCHANGED <<want, listed, errored, raced>>
  <2>1. \A v \in Workers : Early(v)' <=> Early(v)
    BY <1>1, <1>6 DEF Early
  <2>2. Queuing' = Queuing
    BY <1>1, <1>6 DEF Queuing
  <2>3. \A j : Unseen(j) => Unseen(j)'
    BY <1>1, <2>1 DEF Unseen
  <2>4. AloneInv'
    BY <1>6, <2>2 DEF WatchInv, AloneInv
  <2>5. Watched'
    BY <1>1, <1>6, <2>1, <2>2, <2>3, StillWatched DEF ToSend, Undisturbed
  <2> QED
    BY <1>3, <2>4, <2>5 DEF WatchInv
<1>7. CASE pc' = [pc EXCEPT ![w] = "release"] /\ errored' = TRUE /\ UNCHANGED raced
  <2>1. AloneInv'
    BY <1>1, <1>7 DEF WatchInv, AloneInv, Queuing
  <2> QED
    BY <1>3, <1>7, <2>1 DEF WatchInv, Watched, Undisturbed
<1> QED
  BY <1>4, <1>5, <1>6, <1>7 DEF Read, ReturnError, Goto

\* Queue goes through the listing.  A task that ends the call is there, unless
\* the row has been saved since it was read.
LEMMA ListWatched ==
  ASSUME TypeOK, PlaceInv, WatchInv, NEW w \in Workers, List(w)
  PROVE  WatchInv'
<1>1. /\ UNCHANGED <<now, status, at, started, unsaved, unacked, job, want, orphaned, raced>>
      /\ pc[w] = "list" /\ pc \in [Workers -> Labels]
      /\ \A v \in Workers \ {w} : pc'[v] = pc[v] /\ listed'[v] = listed[v]
      /\ listed'[w] \subseteq listed[w]
      /\ pc'[w] \in {"list", "create", "release"}
      /\ want[w] \in Schedules
  BY DEF List, ReturnError, Goto, rowVars, TypeOK, PlaceInv
<1>2. Queued' \subseteq Queued /\ \A t \in Queued' : tasks'[t] = tasks[t]
  BY DEF List, Queued, TypeOK
<1>3. Queuing' \subseteq Queuing /\ \A v \in Workers : Early(v)' <=> Early(v)
  BY <1>1 DEF Queuing, Early
<1>4. \A j : Unseen(j)' <=> Unseen(j)
  BY <1>1, <1>3 DEF Unseen
<1>5. NewSave => NewSave'
  BY <1>1, <1>3, <1>4 DEF NewSave
<1>6. JobInv' /\ AloneInv'
  BY <1>1, <1>2, <1>3 DEF WatchInv, JobInv, AloneInv
<1>7. ASSUME ToSend', Undisturbed', ~NewSave
      PROVE  WantInv' /\ ListedInv' /\ SomebodyInv'
  <2>1. ToSend /\ Undisturbed /\ WantInv /\ ListedInv
    BY <1>1, <1>7 DEF List, ReturnError, ToSend, Undisturbed, WatchInv, Watched
  <2>2. Queuing = {w} /\ want[w] = at /\ at \in Schedules
    BY <1>1, <1>7, <2>1 DEF WatchInv, AloneInv, Queuing, Undisturbed, WantInv
  <2>3. WantInv'
    BY <1>1, <1>3, <2>2 DEF WantInv
  <2>4. at # None
    BY <2>2, NotificationsAssumption
  <2>5. CASE pc'[w] \in {"list", "create"}
    <3>1. ListedInv'
      <4>1. ASSUME NEW e \in listed'[w], e[2] = want[w], pc'[w] = "list"
            PROVE  tasks'[e[1]] = e[2] /\ Unseen(e[1])'
        <5>1. tasks[e[1]] = e[2] /\ Unseen(e[1])
          BY <1>1, <1>7, <2>1, <4>1 DEF ListedInv
        <5>2. PICK f \in listed[w] : /\ listed' = [listed EXCEPT ![w] = @ \ {f}]
                                     /\ tasks' = [tasks EXCEPT ![f[1]] = None]
          BY <1>1, <1>7, <4>1 DEF List, Goto, ReturnError
        <5>3. e \in listed[w] /\ e # f
          BY <4>1, <5>2 DEF TypeOK
        <5>4. e[1] # f[1]
          BY <5>3 DEF WatchInv, JobInv
        <5>5. e[1] \in TaskNames
          BY <5>3 DEF TypeOK
        <5> QED
          BY <1>4, <5>1, <5>2, <5>4, <5>5 DEF TypeOK
      <4> QED
        BY <1>1, <2>2, <4>1 DEF ListedInv, Queuing
    <3>2. SomebodyInv'
      BY <1>1, <2>2, <2>4, <2>5 DEF SomebodyInv, Stands, Queuing
    <3> QED
      BY <2>3, <3>1, <3>2
  <2>6. CASE pc'[w] = "release"
    <3>1. PICK e \in listed[w] : e[2] = want[w] /\ tasks' = tasks
      BY <1>1, <1>7, <2>6 DEF List, Goto, ReturnError, Undisturbed, TypeOK
    <3>2. tasks[e[1]] = e[2] /\ Unseen(e[1])
      BY <1>1, <1>7, <2>1, <3>1 DEF ListedInv
    <3>3. e[1] \in TaskNames /\ e[2] \in {WholeSecond(t) : t \in Schedules}
      BY DEF TypeOK
    <3>4. e[2] = WholeSecond(at) /\ e[2] # None
      BY <2>2, <3>1, <3>3, WholeSecondTwice, NotificationsAssumption
    <3>5. ListedInv'
      BY <1>1, <2>2, <2>6 DEF ListedInv, Queuing
    <3>6. e[1] \in Queued' /\ tasks'[e[1]] = WholeSecond(at)' /\ Unseen(e[1])'
      BY <1>1, <1>4, <3>1, <3>2, <3>3, <3>4 DEF Queued, WholeSecond
    <3>7. SomebodyInv'
      BY <1>1, <2>4, <3>6 DEF SomebodyInv, Stands
    <3> QED
      BY <2>3, <3>5, <3>7
  <2> QED
    BY <1>1, <2>5, <2>6
<1> QED
  BY <1>5, <1>6, <1>7, SavedIsWatched DEF WatchInv, Watched, WantInv, ListedInv, SomebodyInv

\* Queue creates a task for the time its worker wanted, and nobody has it yet.
LEMMA CreateWatched ==
  ASSUME TypeOK, PlaceInv, WatchInv, NEW w \in Workers, Create(w)
  PROVE  WatchInv'
<1>1. /\ UNCHANGED <<now, status, at, started, unsaved, unacked, job, want, listed,
                     orphaned, raced>>
      /\ pc[w] = "create" /\ pc' = [pc EXCEPT ![w] = "release"]
      /\ pc \in [Workers -> Labels] /\ want[w] \in Schedules
  BY DEF Create, ReturnError, Goto, rowVars, TypeOK, PlaceInv
<1>2. Queuing' = Queuing \ {w} /\ w \in Queuing /\ \A v \in Workers : Early(v)' <=> Early(v)
  BY <1>1 DEF Queuing, Early
<1>3. \A j : Unseen(j)' <=> Unseen(j)
  BY <1>1, <1>2 DEF Unseen
<1>4. NewSave => NewSave'
  BY <1>1, <1>2, <1>3 DEF NewSave
<1>5. AloneInv'
  BY <1>1, <1>2 DEF WatchInv, AloneInv
<1>6. JobInv'
  <2>1. ASSUME NEW v \in Workers, NEW t \in Queued', job[v] = t
        PROVE  tasks'[t] = tasks[t] /\ t \in Queued
    BY <2>1 DEF Create, Unused, Queued, TypeOK
  <2> QED
    BY <1>1, <2>1 DEF WatchInv, JobInv
<1>7. ASSUME ToSend', Undisturbed', ~NewSave
      PROVE  WantInv' /\ ListedInv' /\ SomebodyInv'
  <2>1. ToSend /\ Undisturbed /\ WantInv
    BY <1>1, <1>7 DEF Create, ReturnError, ToSend, Undisturbed, WatchInv, Watched
  <2>2. Queuing' = {} /\ want[w] = at /\ at \in Schedules
    BY <1>1, <1>2, <1>7, <2>1 DEF WatchInv, AloneInv, Undisturbed, WantInv
  <2>3. PICK t \in TaskNames : Unused(t) /\ tasks' = [tasks EXCEPT ![t] = WholeSecond(at)]
    BY <1>7, <2>2 DEF Create, ReturnError, Undisturbed
  <2>4. at # None /\ WholeSecond(at) # None
    <3>1. at \in Nat
      BY <2>2, NotificationsAssumption
    <3> QED
      BY <3>1, WholeSecondNat, NotificationsAssumption
  <2>5. t \in Queued' /\ tasks'[t] = WholeSecond(at)' /\ Unseen(t)'
    BY <1>1, <2>3, <2>4 DEF Queued, Unused, Unseen, TypeOK, WholeSecond
  <2>6. SomebodyInv'
    BY <1>1, <2>4, <2>5 DEF SomebodyInv, Stands
  <2> QED
    BY <2>2, <2>6 DEF WantInv, ListedInv, Queuing
<1> QED
  BY <1>4, <1>5, <1>6, <1>7, SavedIsWatched
  DEF WatchInv, Watched, WantInv, ListedInv, SomebodyInv

\* Sending starts, or an error has come.
LEMMA MarkWatched ==
  ASSUME TypeOK, WatchInv, NEW w \in Workers, MarkStarted(w)
  PROVE  WatchInv'
<1>1. /\ UNCHANGED <<now, unsaved, unacked, tasks, job, want, listed, raced>>
      /\ pc[w] = "mark"
      /\ \A v \in Workers : /\ pc'[v] = "idle" <=> pc[v] = "idle"
                            /\ v \in Queuing' <=> v \in Queuing
  BY DEF MarkStarted, ReturnError, Goto, queueVars, TypeOK, Queuing
<1>2. JobInv' /\ AloneInv'
  BY <1>1 DEF WatchInv, JobInv, AloneInv, Queued, Queuing
<1>3. started' = TRUE \/ errored' = TRUE
  BY DEF MarkStarted, ReturnError
<1> QED
  BY <1>2, <1>3 DEF WatchInv, Watched, ToSend, Undisturbed

\* Nobody counts on a job that its worker is done with.
LEMMA RespondWatched ==
  ASSUME TypeOK, WatchInv, NEW w \in Workers, Respond(w)
  PROVE  WatchInv'
<1>1. /\ UNCHANGED <<now, status, at, started, unsaved, errored, orphaned, raced>>
      /\ pc[w] = "respond" /\ pc' = [pc EXCEPT ![w] = "idle"]
      /\ job' = [job EXCEPT ![w] = Nothing]
      /\ want' = [want EXCEPT ![w] = None]
      /\ listed' = [listed EXCEPT ![w] = {}]
      /\ unacked' = unacked \ {job[w]}
      /\ tasks' = [t \in TaskNames |-> IF t = job[w] THEN None ELSE tasks[t]]
  BY DEF Respond, Leave, Goto, rowVars, historyVars
<1>2. /\ pc \in [Workers -> Labels] /\ unsaved \subseteq Messages
      /\ job \in [Workers -> Messages \cup TaskNames \cup {Nothing}]
      /\ listed \in [Workers -> SUBSET (TaskNames \X {WholeSecond(t) : t \in Schedules})]
      /\ want \in [Workers -> Schedules \cup {None}]
  BY DEF TypeOK
<1>3. Queuing' = Queuing /\ w \notin Queuing
      /\ \A v \in Workers : /\ Early(v) <=> Early(v)'
                            /\ Early(v) => job'[v] = job[v]
                            /\ v # w => pc'[v] = pc[v] /\ want'[v] = want[v] /\ listed'[v] = listed[v]
  BY <1>1, <1>2 DEF Queuing, Early
<1>4. /\ \A j : Unseen(j) => j # job[w]
      /\ \A j \in Messages \cup TaskNames : Unseen(j) => Unseen(j)'
  BY <1>1, <1>2, NotificationsAssumption DEF Unseen, Early
<1>5. NewSave => NewSave'
  BY <1>1, <1>3, <1>4 DEF NewSave
<1>6. /\ Queued' \subseteq Queued /\ \A t \in Queued' : tasks'[t] = tasks[t]
      /\ \A t \in Queued : t # job[w] => t \in Queued'
  BY <1>1 DEF Queued
<1>7. JobInv' /\ AloneInv'
  <2>1. \A v \in Workers : pc'[v] = "idle" => job'[v] = Nothing
    BY <1>1, <1>2 DEF WatchInv, JobInv
  <2>2. \A v \in Workers : job'[v] \notin unsaved'
    BY <1>1, <1>2, NotificationsAssumption DEF WatchInv, JobInv
  <2>3. \A v \in Workers : \A t \in Queued' : job'[v] = t => tasks'[t] <= now'
    BY <1>1, <1>2, <1>6, NotificationsAssumption DEF WatchInv, JobInv, Queued
  <2>4. \A v \in Workers : \A e, f \in listed'[v] : e[1] = f[1] => e = f
    BY <1>1, <1>2 DEF WatchInv, JobInv
  <2> QED
    BY <1>1, <1>3, <2>1, <2>2, <2>3, <2>4 DEF WatchInv, JobInv, AloneInv
<1>8. Watched'
  <2>1. WantInv => WantInv'
    BY <1>1, <1>3, <1>5 DEF WantInv
  <2>2. ListedInv => ListedInv'
    <3> SUFFICES ASSUME ListedInv, ~NewSave, NEW v \in Workers, pc'[v] = "list",
                        NEW e \in listed'[v], e[2] = want'[v]
                 PROVE  tasks'[e[1]] = e[2] /\ Unseen(e[1])'
      BY <1>5 DEF ListedInv
    <3>1. v # w /\ pc[v] = "list" /\ e \in listed[v] /\ e[2] = want[v]
      BY <1>1, <1>2, <1>3
    <3>2. tasks[e[1]] = e[2] /\ Unseen(e[1]) /\ e[1] \in TaskNames
      BY <1>2, <3>1 DEF ListedInv
    <3> QED
      BY <1>1, <1>4, <3>2
  <2>3. SomebodyInv => SomebodyInv'
    <3>1. DueTask => DueTask'
      BY <1>1, <1>4, <1>6 DEF DueTask, Queued
    <3>2. Stands => Stands'
      BY <1>1, <1>3, <1>4, <1>6 DEF Stands, Queued, WholeSecond
    <3> QED
      BY <1>1, <1>3, <1>5, <3>1, <3>2 DEF SomebodyInv
  <2> QED
    BY <1>1, <2>1, <2>2, <2>3 DEF WatchInv, Watched, ToSend, Undisturbed
<1> QED
  BY <1>7, <1>8 DEF WatchInv

\* A pod is killed: its job, if it is still there and nobody else has it, has
\* to be looked at again.
LEMMA CrashWatched ==
  ASSUME TypeOK, WatchInv, NEW w \in Workers, Crash(w)
  PROVE  WatchInv'
<1>1. /\ UNCHANGED <<now, status, at, started, unsaved, unacked, tasks, errored, raced>>
      /\ pc' = [pc EXCEPT ![w] = "idle"]
      /\ job' = [job EXCEPT ![w] = Nothing]
      /\ want' = [want EXCEPT ![w] = None]
      /\ listed' = [listed EXCEPT ![w] = {}]
      /\ ~orphaned' => /\ ~orphaned /\ job[w] \in unacked \cup Queued
                       /\ \A v \in Workers \ {w} : job[v] # job[w]
  BY DEF Crash, Leave, Goto, rowVars, queueVars
<1>2. /\ pc \in [Workers -> Labels] /\ unsaved \subseteq Messages /\ unacked \subseteq Messages
      /\ job \in [Workers -> Messages \cup TaskNames \cup {Nothing}]
      /\ listed \in [Workers -> SUBSET (TaskNames \X {WholeSecond(t) : t \in Schedules})]
      /\ want \in [Workers -> Schedules \cup {None}]
  BY DEF TypeOK
<1>3. /\ Queuing' = Queuing \ {w} /\ Queued' = Queued /\ Queued \subseteq TaskNames
      /\ \A v \in Workers \ {w} : /\ Early(v) <=> Early(v)'
                                  /\ job'[v] = job[v] /\ pc'[v] = pc[v]
                                  /\ want'[v] = want[v] /\ listed'[v] = listed[v]
  BY <1>1, <1>2 DEF Queuing, Queued, Early
<1>4. \A j \in Messages \cup TaskNames : Unseen(j) => Unseen(j)'
  BY <1>1, <1>2, <1>3, NotificationsAssumption DEF Unseen
<1>5. JobInv' /\ AloneInv'
  <2>1. \A v \in Workers : pc'[v] = "idle" => job'[v] = Nothing
    BY <1>1, <1>2 DEF WatchInv, JobInv
  <2>2. \A v \in Workers : job'[v] \notin unsaved'
    BY <1>1, <1>2, NotificationsAssumption DEF WatchInv, JobInv
  <2>3. \A v \in Workers : \A t \in Queued' : job'[v] = t => tasks'[t] <= now'
    BY <1>1, <1>2, <1>3, NotificationsAssumption DEF WatchInv, JobInv
  <2>4. \A v \in Workers : \A e, f \in listed'[v] : e[1] = f[1] => e = f
    BY <1>1, <1>2 DEF WatchInv, JobInv
  <2> QED
    BY <1>1, <1>3, <2>1, <2>2, <2>3, <2>4 DEF WatchInv, JobInv, AloneInv
<1>6. ASSUME ToSend', Undisturbed', WantInv, ListedInv, SomebodyInv
      PROVE  WantInv' /\ ListedInv' /\ SomebodyInv'
  <2>1. PICK j : j = job[w]
    OBVIOUS
  <2>2. j \in unacked \cup Queued /\ Unseen(j)'
    <3>1. j # Nothing
      BY <1>1, <1>2, <1>3, <1>6, <2>1, NotificationsAssumption DEF Undisturbed
    <3> QED
      BY <1>1, <1>2, <1>6, <2>1, <3>1 DEF Undisturbed, Unseen
  <2>3. CASE j \in unacked
    <3>1. NewSave'
      BY <1>1, <1>2, <2>2, <2>3 DEF NewSave
    <3> QED
      BY <3>1 DEF WantInv, ListedInv, SomebodyInv
  <2>4. CASE j \in Queued
    <3>1. NewSave => NewSave'
      <4>1. job[w] \notin Messages
        BY <1>3, <2>1, <2>4, NotificationsAssumption
      <4> QED
        BY <1>1, <1>3, <1>4, <4>1 DEF NewSave
    <3>2. DueTask'
      BY <1>1, <1>3, <2>1, <2>2, <2>4 DEF WatchInv, JobInv, DueTask
    <3>3. WantInv'
      BY <1>1, <1>3, <1>6, <3>1 DEF WantInv
    <3>4. ListedInv'
      <4> SUFFICES ASSUME ~NewSave, NEW v \in Workers, pc'[v] = "list",
                          NEW e \in listed'[v], e[2] = want'[v]
                   PROVE  tasks'[e[1]] = e[2] /\ Unseen(e[1])'
        BY <3>1 DEF ListedInv
      <4>1. v # w /\ pc[v] = "list" /\ e \in listed[v] /\ e[2] = want[v]
        BY <1>1, <1>2, <1>3
      <4>2. tasks[e[1]] = e[2] /\ Unseen(e[1]) /\ e[1] \in TaskNames
        BY <1>2, <1>6, <4>1 DEF ListedInv
      <4> QED
        BY <1>1, <1>4, <4>2
    <3> QED
      BY <3>2, <3>3, <3>4 DEF SomebodyInv
  <2> QED
    BY <2>2, <2>3, <2>4
<1> QED
  BY <1>1, <1>5, <1>6 DEF WatchInv, Watched, ToSend, Undisturbed
-----------------------------------------------------------------------------
LEMMA InitWatchInv == Init => WatchInv
  BY NotificationsAssumption
  DEF Init, WatchInv, JobInv, AloneInv, Watched, ToSend, Queuing, Queued

LEMMA NextWatchInv == IInv /\ WatchInv /\ [Next]_vars => WatchInv'
<1> SUFFICES ASSUME IInv, WatchInv, [Next]_vars PROVE WatchInv'
  OBVIOUS
<1>1. TypeOK /\ PlaceInv /\ now \in Int
  BY Bounds DEF IInv, TypeOK
<1>2. CASE UNCHANGED vars
  BY <1>1, <1>2, OnwardWatched
  DEF vars, rowVars, queueVars, workerVars, historyVars
<1>3. CASE Lapse \/ Tick
  BY <1>1, <1>3, OnwardWatched
  DEF Lapse, Tick, rowVars, queueVars, workerVars, historyVars
<1>4. ASSUME NEW w \in Workers, Obtain(w) \/ GoOnUnlocked(w) \/ Push(w) \/ Release(w)
      PROVE  WatchInv'
  BY <1>1, <1>4, OnwardWatched
  DEF Obtain, GoOnUnlocked, Push, Release, ReturnError, Goto, rowVars, queueVars, historyVars
<1>5. ASSUME NEW w \in Workers, Handle(w) PROVE WatchInv'
  BY <1>1, <1>4, <1>5, ReadWatched, ListWatched, CreateWatched, MarkWatched,
     RespondWatched DEF Handle
<1> QED
  BY <1>1, <1>2, <1>3, <1>4, <1>5, SaveWatched, ReceiveWatched, IgnoreWatched,
     CrashWatched DEF Next

LEMMA WatchInductive == Spec => []WatchInv
  BY InitWatchInv, NextWatchInv, Inductive, PTL DEF Spec

\* A published notification is not forgotten: while nothing has gone wrong that
\* the code leaves at that, there is a message, a task or a worker for it.
THEOREM NotForgotten == Spec => []NeverForgotten
<1>1. WatchInv => NeverForgotten
  BY DEF WatchInv, Watched, SomebodyInv, NewSave, DueTask, Stands, Queuing, Early,
         Undisturbed, NeverForgotten, Attending
<1> QED
  BY <1>1, WatchInductive, PTL

\* When all saves and all due tasks have been handled a task stands at the time
\* that the row says, however often that was changed and in whatever order the
\* messages came.
THEOREM StandsAtItsTime == Spec => []QueuedForItsTime
<1>1. ASSUME WatchInv, TypeOK, ToSend, Quiet, Undisturbed
      PROVE  \E t \in Queued : at # None /\ tasks[t] = WholeSecond(at)
  <2>1. SomebodyInv
    BY <1>1 DEF WatchInv, Watched
  <2>2. ~NewSave /\ (\A w \in Workers : ~Early(w)) /\ Queuing = {}
    BY <1>1 DEF Quiet, NewSave, Early, Queuing
  <2>3. ~DueTask
    <3>1. now \in Int
      BY <1>1, Bounds DEF TypeOK
    <3> QED
      BY <1>1, <3>1, QueuedTimes DEF Quiet, DueTask
  <2> QED
    BY <2>1, <2>2, <2>3 DEF SomebodyInv, Stands
<1>2. WatchInv /\ TypeOK => QueuedForItsTime
  BY <1>1 DEF QueuedForItsTime, Undisturbed
<1> QED
  BY <1>2, WatchInductive, TypeCorrect, PTL
=============================================================================
