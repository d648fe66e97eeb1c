--------------------------- MODULE TaskCompletion ---------------------------
(***************************************************************************)
(* The studies of one profile: the mutations CompleteTask and              *)
(* LockLessonAnswers (backend/graph/api/mutations.resolvers.go), the       *)
(* achievements that CompleteTask checks (backend/achievements), and the   *)
(* data loaders they read through (backend/loaders), each pod with a cache *)
(* of its own.                                                             *)
(*                                                                         *)
(* One lesson, alone in its topic, has all the tasks, and all are in       *)
(* competition mode with answers that can be locked.  A loader caches the  *)
(* promise of its result: a Get that finds nothing asks the database anew, *)
(* whatever loads are still under way, and is one step here.               *)
(***************************************************************************)
EXTENDS Integers, FiniteSets

CONSTANTS Procs,         \* requests
          Pods,
          Tasks,         \* the tasks of the lesson
          NoTask,
          Achievements   \* <<collection, amount>>: its one condition

VARIABLES pc,        \* pc[p]: where p is
          pod,       \* pod[p]: the pod that serves p
          task,      \* task[p]: the task p completes, NoTask if it locks
          completed, \* completed[p]: the variable of that name
          answered,  \* the tasks with a row in users.taskanswers
          locked,    \* those whose row is locked
          achieved,  \* the achievements with a row in users.achievements
          loaded,    \* loaded[d][l]: what loader l of pod d has cached
          seen,      \* seen[p]: tasks answered when p had saved (history)
          settled,   \* <<d, t>>: t's CompleteTask ended on pod d (history)
          sealed,    \* <<d, t>>: LockLessonAnswers ended on d (history)
          barred     \* barred[p]: its sealed tasks as p began (history)

locals == <<pod, task, completed, seen, barred>>
rows == <<answered, locked, achieved>>
ended == <<settled, sealed>>
vars == <<pc, locals, rows, loaded, ended>>

Collections == {"topics", "lessons", "tasks"}
Loaders == Collections \cup {"lockedTasks", "taskCompleted"}
Absent == {NoTask}

Labels == {"idle", "checkLocked", "getCompleted", "save", "submit",
           "topics", "lessons", "tasks", "clear", "lock", "clearLocked"}

TypeOK == /\ pc \in [Procs -> Labels]
          /\ pod \in [Procs -> Pods]
          /\ task \in [Procs -> Tasks \cup {NoTask}]
          /\ completed \in [Procs -> BOOLEAN]
          /\ locked \subseteq answered /\ answered \subseteq Tasks
          /\ achieved \subseteq Achievements
          /\ loaded \in [Pods -> [Loaders -> SUBSET (Tasks \cup {NoTask})]]
          /\ seen \in [Procs -> SUBSET Tasks]
          /\ settled \subseteq Pods \X Tasks
          /\ sealed \subseteq Pods \X Tasks
          /\ barred \in [Procs -> SUBSET Tasks]

StateInit == /\ task = [p \in Procs |-> NoTask]
             /\ completed = [p \in Procs |-> FALSE]
             /\ answered = {} /\ locked = {} /\ achieved = {}
             /\ loaded = [d \in Pods |-> [l \in Loaders |-> Absent]]
             /\ seen = [p \in Procs |-> {}]
             /\ settled = {} /\ sealed = {}
             /\ barred = [p \in Procs |-> {}]

Init == /\ pc = [p \in Procs |-> "idle"]
        /\ pod \in [Procs -> Pods]
        /\ StateInit

Goto(p, label) == pc' = [pc EXCEPT ![p] = label] /\ UNCHANGED locals

\* p's call returns.
Return(p) == /\ pc' = [pc EXCEPT ![p] = "idle"]
             /\ task' = [task EXCEPT ![p] = NoTask]
             /\ completed' = [completed EXCEPT ![p] = FALSE]
             /\ seen' = [seen EXCEPT ![p] = {}]
             /\ barred' = [barred EXCEPT ![p] = {}]
             /\ UNCHANGED pod

\* What loader l of pod d answers: its cache, or else the database.
Answer(d, l) == IF loaded[d][l] # Absent THEN loaded[d][l]
                ELSE IF l = "lockedTasks" THEN locked ELSE answered

\* The Get that answers so leaves the answer in the cache.
Get(d, l) == loaded' = [loaded EXCEPT ![d][l] = Answer(d, l)]

Clear(d, ls) ==
    loaded' = [loaded EXCEPT ![d] = [l \in Loaders |-> IF l \in ls THEN Absent ELSE @[l]]]

\* How many items of collection c the answers to tasks ts complete.
Amount(c, ts) == IF c = "tasks" THEN Cardinality(ts) ELSE IF ts = Tasks THEN 1 ELSE 0

Due(c, ts) == {a \in Achievements : a[1] = c /\ a[2] <= Amount(c, ts)}
-----------------------------------------------------------------------------
\* CompleteTask(t), or LockLessonAnswers of the lesson.
Call(p) ==
    /\ pc[p] = "idle"
    /\ \/ /\ \E t \in Tasks : task' = [task EXCEPT ![p] = t]
          /\ barred' = [barred EXCEPT ![p] = {t \in Tasks : <<pod[p], t>> \in sealed}]
          /\ pc' = [pc EXCEPT ![p] = "checkLocked"]
       \/ /\ pc' = [pc EXCEPT ![p] = "lock"]
          /\ UNCHANGED <<task, barred>>
    /\ UNCHANGED <<pod, completed, seen, rows, loaded, ended>>

\* CompletedAndLockedTasksLoader: ErrTaskAlreadyCompleted, or an error of its
\* own, ends the call.
CheckLocked(p) ==
    /\ pc[p] = "checkLocked"
    /\ \/ /\ Get(pod[p], "lockedTasks")
          /\ IF task[p] \in Answer(pod[p], "lockedTasks") THEN Return(p)
                                                         ELSE Goto(p, "getCompleted")
       \/ UNCHANGED loaded /\ Return(p)
    /\ UNCHANGED <<rows, ended>>

\* CompletedTasksLoader, whose error is not looked at.
GetCompleted(p) ==
    /\ pc[p] = "getCompleted"
    /\ \/ /\ Get(pod[p], "tasks")
          /\ completed' = [completed EXCEPT ![p] = task[p] \in Answer(pod[p], "tasks")]
       \/ UNCHANGED <<loaded, completed>>
    /\ pc' = [pc EXCEPT ![p] = "save"]
    /\ UNCHANGED <<pod, task, seen, barred, rows, ended>>

\* SetTaskCompleted; its error ends the call.
Save(p) ==
    /\ pc[p] = "save"
    /\ \/ /\ answered' = answered \cup {task[p]}
          /\ seen' = [seen EXCEPT ![p] = answered']
          /\ pc' = [pc EXCEPT ![p] = "submit"]
          /\ UNCHANGED <<pod, task, completed, barred>>
       \/ UNCHANGED answered /\ Return(p)
    /\ UNCHANGED <<locked, achieved, loaded, ended>>

\* IsAnswerCorrect, whose error ends the call, and SubmitAnswer.
Submit(p) ==
    /\ pc[p] = "submit"
    /\ Goto(p, IF completed[p] THEN "clear" ELSE "topics") \/ Return(p)
    /\ UNCHANGED <<rows, loaded, ended>>

\* CheckNewAchievements for collection c.  An error ends the call, with some
\* of what is due, or nothing, set.
CheckNew(p, c, next) ==
    /\ pc[p] = c
    /\ \/ /\ Get(pod[p], c)
          /\ achieved' = achieved \cup Due(c, Answer(pod[p], c))
          /\ Goto(p, next)
       \/ /\ Get(pod[p], c) \/ UNCHANGED loaded
          /\ \E some \in SUBSET Due(c, Answer(pod[p], c)) : achieved' = achieved \cup some
          /\ Return(p)
    /\ UNCHANGED <<answered, locked, ended>>

\* Mutant: the lessons are not cleared.
ClearTasksOnly(p) ==
    /\ pc[p] = "clear"
    /\ Clear(pod[p], {"tasks", "lockedTasks"})
    /\ settled' = settled \cup {<<pod[p], task[p]>>}
    /\ Return(p)
    /\ UNCHANGED <<rows, sealed>>

\* The Clears and ClearAlls at the end.  ClearAll of a loader, which is
\* LoaderCache.Clear, deletes the keys that its own prefix starts with: none.
ClearCompleted(p) ==
    /\ pc[p] = "clear"
    /\ Clear(pod[p], {"tasks", "lockedTasks", "lessons"})
    /\ settled' = settled \cup {<<pod[p], task[p]>>}
    /\ Return(p)
    /\ UNCHANGED <<rows, sealed>>

\* SetAnswerLock locks the answers there are.  Its error is returned later.
SetAnswerLock(p) ==
    /\ pc[p] = "lock"
    /\ \/ locked' = answered /\ seen' = [seen EXCEPT ![p] = answered]
       \/ UNCHANGED <<locked, seen>>
    /\ pc' = [pc EXCEPT ![p] = "clearLocked"]
    /\ UNCHANGED <<pod, task, completed, barred, answered, achieved, loaded, ended>>

\* Mutant: nothing is cleared.
ClearNothing(p) ==
    /\ pc[p] = "clearLocked"
    /\ sealed' = sealed \cup {<<pod[p], t>> : t \in seen[p]}
    /\ Return(p)
    /\ UNCHANGED <<rows, loaded, settled>>

\* The Clear and the ClearAlls of LockLessonAnswers.
ClearLocked(p) ==
    /\ pc[p] = "clearLocked"
    /\ Clear(pod[p], {"lockedTasks"})
    /\ sealed' = sealed \cup {<<pod[p], t>> : t \in seen[p]}
    /\ Return(p)
    /\ UNCHANGED <<rows, settled>>

\* The resolver of a query reads through one of the loaders queries use.
View(d) ==
    /\ \E l \in {"lessons", "taskCompleted"} : loaded[d][l] = Absent /\ Get(d, l)
    /\ UNCHANGED <<pc, locals, rows, ended>>

\* A cached promise expires.
Expire(d) ==
    /\ \E l \in Loaders : loaded[d][l] # Absent /\ Clear(d, {l})
    /\ UNCHANGED <<pc, locals, rows, ended>>

Proceed(p) == \/ CheckLocked(p)
              \/ GetCompleted(p)
              \/ Save(p)
              \/ Submit(p)
              \/ CheckNew(p, "topics", "lessons")
              \/ CheckNew(p, "lessons", "tasks")
              \/ CheckNew(p, "tasks", "clear")
              \/ ClearCompleted(p)
              \/ SetAnswerLock(p)
              \/ ClearLocked(p)

Next == \/ \E p \in Procs : Call(p) \/ Proceed(p)
        \/ \E d \in Pods : View(d) \/ Expire(d)

Spec == Init /\ [][Next]_vars
-----------------------------------------------------------------------------
\* Once LockLessonAnswers has returned, no request that begins later on the
\* same pod changes one of the answers it locked, whatever the loaders of that
\* pod had cached.
LockedStaysLocked == \A p \in Procs : pc[p] = "save" => task[p] \notin barred[p]

\* What a CompleteTask has saved is seen by the later requests of its pod: the
\* loaders it clears hold nothing older, though others fill them meanwhile.
SettledIsSeen ==
    \A d \in Pods, t \in Tasks, l \in {"tasks", "lessons"} :
        <<d, t>> \in settled /\ loaded[d][l] # Absent => t \in loaded[d][l]

\* "Clear clears the entire cache": what has been saved is seen through the
\* loaders that are cleared with ClearAll as well.
ClearAllClears ==
    \A d \in Pods, t \in Tasks :
        <<d, t>> \in settled /\ loaded[d]["taskCompleted"] # Absent
            => t \in loaded[d]["taskCompleted"]
=============================================================================
