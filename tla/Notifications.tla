---------------------------- MODULE Notifications ----------------------------
(***************************************************************************)
(* Sending one push notification: the worker of backend/cmd/jobs           *)
(* (update-handler.go), the scheduler (backend/scheduler/client.go) and    *)
(* what they share with the CMS, Pub/Sub, Cloud Tasks and redis.           *)
(*                                                                         *)
(* An editor saves the notification's row, which publishes a message.  A   *)
(* worker handling it takes the redis lock if it can, reads the row, and   *)
(* skips, or queues a task for the scheduled time, or marks the row as     *)
(* started and pushes.  The task runs the same handler again at its time.  *)
(* Both are acknowledged whatever the handler returned (HTTP 200), so only *)
(* a worker that dies before answering has its job delivered again.        *)
(*                                                                         *)
(* Time is counted in half seconds: a row's schedule may fall between two  *)
(* seconds, a task's may not (Seconds: at.Unix()).                         *)
(*                                                                         *)
(* External: the editor's CMS (a save and its message are one step),       *)
(* Pub/Sub and Cloud Tasks (at-least-once delivery, a task is listed until *)
(* its run is acknowledged), the lease lock of module LeaseLock.           *)
(***************************************************************************)
EXTENDS Integers, FiniteSets

CONSTANTS Workers,       \* pods, each handling one job at a time
          Messages,      \* bound: one message per save, so as many saves
          TaskNames,     \* bound: names of tasks that exist at one time
          Schedules,     \* the schedule times an editor may choose
          MaxTime,       \* bound of the clock
          MaxMishaps,    \* bound: locks refused, or outrun where it matters
          MaxCrashes,    \* bound: workers killed
          MaxDuplicates, \* bound: deliveries of a job that is being handled
          Nobody, Nothing, None

LockName == "notification-model-update"

ASSUME NotificationsAssumption ==
    /\ IsFiniteSet(Workers)
    /\ Nobody \notin Workers /\ Nothing # LockName
    /\ Messages \cap TaskNames = {} /\ Nothing \notin Messages \cup TaskNames
    /\ Schedules \subseteq Nat /\ None \notin Nat
    /\ {MaxTime, MaxMishaps, MaxCrashes, MaxDuplicates} \subseteq Nat

VARIABLES lock, held, lapsed,  \* see module LeaseLock
          now,         \* the clock
          status, at,  \* the row: status and schedule_at (None is NULL)
          started,     \* the row: send_started is not NULL
          unsaved,     \* messages not yet published
          unacked,     \* messages not yet acknowledged
          tasks,       \* tasks[t]: when task t runs, None if it is not there
          pc,          \* pc[w]: where w is in the handler
          job,         \* job[w]: the message or task w handles
          want,        \* want[w]: the time for which w queues a task
          listed,      \* listed[w]: listed tasks, and their times, w has not looked at
          pushes,      \* pushes made (history)
          mishaps,     \* see MaxMishaps (history)
          crashes, duplicates,  \* see MaxCrashes, MaxDuplicates
          errored,     \* some handling returned an error (history)
          orphaned,    \* a worker died whose job was gone, or that had marked
                       \* the row and not yet pushed (history)
          raced        \* two workers were in Queue at a time (history)

lockVars == <<lock, held, lapsed>>
rowVars == <<status, at, started>>
queueVars == <<unsaved, unacked, tasks>>
workerVars == <<pc, job, want, listed>>
historyVars == <<pushes, mishaps, crashes, duplicates, errored, orphaned,
                 raced>>
vars == <<lockVars, now, rowVars, queueVars, workerVars, historyVars>>

Lease == INSTANCE LeaseLock WITH Procs <- Workers, Keys <- {LockName},
                                 NoProc <- Nobody, NoKey <- Nothing

WholeSecond(t) == t - (t % 2)

Labels == {"idle", "lock", "read", "list", "create", "mark", "push",
           "release", "respond"}

TypeOK == /\ Lease!TypeOK
          /\ now \in 0..MaxTime
          /\ status \in {"draft", "published"}
          /\ at \in Schedules \cup {None}
          /\ started \in BOOLEAN
          /\ unsaved \in SUBSET Messages
          /\ unacked \in SUBSET (Messages \ unsaved)
          /\ tasks \in [TaskNames -> {WholeSecond(t) : t \in Schedules} \cup {None}]
          /\ pc \in [Workers -> Labels]
          /\ job \in [Workers -> Messages \cup TaskNames \cup {Nothing}]
          /\ want \in [Workers -> Schedules \cup {None}]
          /\ listed \in [Workers -> SUBSET (TaskNames \X {WholeSecond(t) : t \in Schedules})]
          /\ mishaps \in 0..MaxMishaps
          /\ pushes \in 0..(1 + MaxMishaps)
          /\ crashes \in 0..MaxCrashes
          /\ duplicates \in 0..MaxDuplicates
          /\ errored \in BOOLEAN
          /\ orphaned \in BOOLEAN
          /\ raced \in BOOLEAN

Init == /\ Lease!Init
        /\ now = 0
        /\ status = "draft" /\ at = None /\ started = FALSE
        /\ unsaved = Messages /\ unacked = {}
        /\ tasks = [t \in TaskNames |-> None]
        /\ pc = [w \in Workers |-> "idle"]
        /\ job = [w \in Workers |-> Nothing]
        /\ want = [w \in Workers |-> None]
        /\ listed = [w \in Workers |-> {}]
        /\ pushes = 0 /\ mishaps = 0 /\ crashes = 0 /\ duplicates = 0
        /\ errored = FALSE /\ orphaned = FALSE /\ raced = FALSE

Goto(w, label) == pc' = [pc EXCEPT ![w] = label]

\* What the handler asks of a row: is it to be sent, and is it too early to.
ToSend == status = "published" /\ ~started
InFuture == at # None /\ at > now

Queued == {t \in TaskNames : tasks[t] # None}

\* The handler returns an error to a caller that only logs it.
ReturnError(w) == /\ Goto(w, "release")
                  /\ errored' = TRUE
-----------------------------------------------------------------------------
\* An editor saves the row; once sending has started the form is read-only.
\* Nothing reads the time of a draft, so there is one.
Save(m) ==
    /\ m \in unsaved
    /\ ~started
    /\ \/ status' = "published" /\ at' \in Schedules \cup {None}
       \/ status' = "draft" /\ at' = None
    /\ unsaved' = unsaved \ {m}
    /\ unacked' = unacked \cup {m}
    /\ UNCHANGED <<lockVars, now, started, tasks, workerVars, historyVars>>

\* Job j reaches w: again while another pod handles it, when that delivery is
\* taken for lost.
Receive(w, j) ==
    /\ pc[w] = "idle"
    /\ IF \E v \in Workers : job[v] = j
       THEN duplicates < MaxDuplicates /\ duplicates' = duplicates + 1
       ELSE UNCHANGED duplicates
    /\ job' = [job EXCEPT ![w] = j]
    /\ Goto(w, "lock")
    /\ UNCHANGED <<lockVars, now, rowVars, queueVars, want, listed, pushes,
                   mishaps, crashes, errored, orphaned, raced>>

\* Pub/Sub delivers a message (ProcessMessage, Process).
Deliver(w) == \E m \in unacked : Receive(w, m)

\* The message reaches w's pod again while w handles it: messageCache knows
\* it, so it is ignored, and acknowledged.
Ignore(w) ==
    /\ job[w] \in unacked
    /\ duplicates < MaxDuplicates
    /\ duplicates' = duplicates + 1
    /\ unacked' = unacked \ {job[w]}
    /\ UNCHANGED <<lockVars, now, rowVars, unsaved, tasks, workerVars, pushes,
                   mishaps, crashes, errored, orphaned, raced>>

\* Cloud Tasks runs a task that is due (ProcessScheduledTask, HandleRequest).
Dispatch(w) == \E t \in Queued : tasks[t] <= now /\ Receive(w, t)

\* h.remoteCache.Lock returns a lock.
Obtain(w) ==
    /\ pc[w] = "lock"
    /\ Lease!Obtain(w, LockName)
    /\ Goto(w, "read")
    /\ UNCHANGED <<now, rowVars, queueVars, job, want, listed, historyVars>>

\* h.remoteCache.Lock returns an error: "We want to keep running the function".
GoOnUnlocked(w) ==
    /\ pc[w] = "lock"
    /\ mishaps < MaxMishaps
    /\ mishaps' = mishaps + 1
    /\ Lease!Refused(w, LockName)
    /\ Goto(w, "read")
    /\ UNCHANGED <<now, rowVars, queueVars, job, want, listed, pushes, crashes,
                   duplicates, errored, orphaned, raced>>

\* Mutant: the schedule is compared the wrong way round.
ReadInverted(w) ==
    /\ pc[w] = "read"
    /\ Goto(w, IF ToSend /\ InFuture THEN "mark" ELSE "release")
    /\ UNCHANGED <<lockVars, now, rowVars, queueVars, job, want, listed, historyVars>>

\* GetNotifications, and the decision on the row as it was read.
Read(w) ==
    /\ pc[w] = "read"
    /\ \/ /\ ~ToSend
          /\ Goto(w, "release")
          /\ UNCHANGED <<want, listed, errored, raced>>
       \/ /\ ToSend /\ InFuture
          /\ want' = [want EXCEPT ![w] = at]
          /\ listed' = [listed EXCEPT ![w] = {<<t, tasks[t]>> : t \in Queued}]
          /\ Goto(w, "list")
          /\ raced' = (raced \/ \E v \in Workers : pc[v] \in {"list", "create"})
          /\ UNCHANGED errored
       \/ /\ ToSend /\ ~InFuture
          /\ Goto(w, "mark")
          /\ UNCHANGED <<want, listed, errored, raced>>
       \/ /\ ReturnError(w)
          /\ UNCHANGED <<want, listed, raced>>
    /\ UNCHANGED <<lockVars, now, rowVars, queueVars, job, pushes, mishaps,
                   crashes, duplicates, orphaned>>

\* Mutant: any task of the notification will do.
ListAny(w) ==
    /\ pc[w] = "list"
    /\ Goto(w, IF listed[w] = {} THEN "create" ELSE "release")
    /\ UNCHANGED <<lockVars, now, rowVars, queueVars, job, want, listed, historyVars>>

\* Queue: one task of the listing.  One at the wanted time ends the call, be
\* it there still or not; any other is deleted, and that it is gone already is
\* an error.  A listing that fails half-way is taken as complete.
List(w) ==
    /\ pc[w] = "list"
    /\ \/ \E entry \in listed[w] :
            /\ listed' = [listed EXCEPT ![w] = @ \ {entry}]
            /\ \/ /\ entry[2] = want[w]
                  /\ Goto(w, "release")
                  /\ UNCHANGED <<tasks, errored>>
               \/ /\ entry[2] # want[w]
                  /\ tasks[entry[1]] # None
                  /\ tasks' = [tasks EXCEPT ![entry[1]] = None]
                  /\ UNCHANGED <<pc, errored>>
               \/ /\ entry[2] # want[w]
                  /\ ReturnError(w)
                  /\ UNCHANGED tasks
       \/ /\ Goto(w, "create")
          /\ listed' = [listed EXCEPT ![w] = {}]
          /\ UNCHANGED <<tasks, errored>>
    /\ UNCHANGED <<lockVars, now, rowVars, unsaved, unacked, job, want, pushes,
                   mishaps, crashes, duplicates, orphaned, raced>>

\* A task name is random, so it is one that nobody has heard of.
Unused(t) == /\ tasks[t] = None
             /\ \A w \in Workers : job[w] # t /\ \A entry \in listed[w] : entry[1] # t

\* Mutant: the task keeps the fraction of the second.
CreateUntruncated(w) ==
    /\ pc[w] = "create"
    /\ \E t \in TaskNames : /\ Unused(t)
                            /\ tasks' = [tasks EXCEPT ![t] = want[w]]
    /\ Goto(w, "release")
    /\ UNCHANGED <<lockVars, now, rowVars, unsaved, unacked, job, want, listed, historyVars>>

\* Mutant: a task for a time already under way is not created.
CreateFuture(w) ==
    /\ pc[w] = "create"
    /\ IF WholeSecond(want[w]) > now
       THEN \E t \in TaskNames :
              Unused(t) /\ tasks' = [tasks EXCEPT ![t] = WholeSecond(want[w])]
       ELSE UNCHANGED tasks
    /\ Goto(w, "release")
    /\ UNCHANGED <<lockVars, now, rowVars, unsaved, unacked, job, want, listed, historyVars>>

\* Queue: CreateTask.
Create(w) ==
    /\ pc[w] = "create"
    /\ \/ /\ \E t \in TaskNames :
               Unused(t) /\ tasks' = [tasks EXCEPT ![t] = WholeSecond(want[w])]
          /\ Goto(w, "release")
          /\ UNCHANGED errored
       \/ ReturnError(w) /\ UNCHANGED tasks
    /\ UNCHANGED <<lockVars, now, rowVars, unsaved, unacked, job, want, listed,
                   pushes, mishaps, crashes, duplicates, orphaned, raced>>

\* Mutant: started is not recorded before pushing.
MarkNothing(w) ==
    /\ pc[w] = "mark"
    /\ Goto(w, "push")
    /\ UNCHANGED <<lockVars, now, rowVars, queueVars, job, want, listed, historyVars>>

\* NotificationMarkSendStarted, on whatever row there is now.
MarkStarted(w) ==
    /\ pc[w] = "mark"
    /\ \/ /\ started' = TRUE
          /\ Goto(w, "push")
          /\ UNCHANGED errored
       \/ ReturnError(w) /\ UNCHANGED started
    /\ UNCHANGED <<lockVars, now, status, at, queueVars, job, want, listed,
                   pushes, mishaps, crashes, duplicates, orphaned, raced>>

\* The devices are resolved, SendNotificationToDevices pushes to them and
\* NotificationMarkSendCompleted writes what nothing reads.  An error can come
\* before the first push or after the last one.
Push(w) ==
    /\ pc[w] = "push"
    /\ \/ pushes' = pushes + 1 /\ Goto(w, "release") /\ UNCHANGED errored
       \/ pushes' = pushes + 1 /\ ReturnError(w)
       \/ UNCHANGED pushes /\ ReturnError(w)
    /\ UNCHANGED <<lockVars, now, rowVars, queueVars, job, want, listed,
                   mishaps, crashes, duplicates, orphaned, raced>>

\* The deferred Release.
Release(w) ==
    /\ pc[w] = "release"
    /\ Lease!Release(w)
    /\ Goto(w, "respond")
    /\ UNCHANGED <<now, rowVars, queueVars, job, want, listed, historyVars>>

\* w is done with its job, or dead.
Leave(w) == /\ Goto(w, "idle")
            /\ job' = [job EXCEPT ![w] = Nothing]
            /\ want' = [want EXCEPT ![w] = None]
            /\ listed' = [listed EXCEPT ![w] = {}]

\* HTTP 200, errors or not: the message is acknowledged, the task is done.
Respond(w) ==
    /\ pc[w] = "respond"
    /\ unacked' = unacked \ {job[w]}
    /\ tasks' = [t \in TaskNames |-> IF t = job[w] THEN None ELSE tasks[t]]
    /\ Leave(w)
    /\ UNCHANGED <<lockVars, now, rowVars, unsaved, historyVars>>

\* w's pod is killed.  Its job is delivered again, unless it is gone or about
\* to be: a task that w itself deleted in Queue, a message or task of which
\* another delivery is being handled.  After the mark that is of no use: the row
\* counts as sent.
Crash(w) ==
    /\ pc[w] # "idle"
    /\ crashes < MaxCrashes
    /\ crashes' = crashes + 1
    /\ Lease!Die(w)
    /\ orphaned' = \/ orphaned
                    \/ job[w] \notin unacked \cup Queued
                    \/ pc[w] = "push"
                    \/ \E v \in Workers \ {w} : job[v] = job[w]
    /\ Leave(w)
    /\ UNCHANGED <<now, rowVars, queueVars, pushes, mishaps, duplicates,
                   errored, raced>>

\* lockTTL passes.  It matters while the holder has read the row and not yet
\* marked it, or has yet to read it.
Lapse ==
    /\ Lease!Lapse(LockName)
    /\ IF \E w \in lapsed' \ lapsed : pc[w] \in {"read", "mark"}
       THEN mishaps < MaxMishaps /\ mishaps' = mishaps + 1
       ELSE UNCHANGED mishaps
    /\ UNCHANGED <<now, rowVars, queueVars, workerVars, pushes, crashes,
                   duplicates, errored, orphaned, raced>>

Tick ==
    /\ now < MaxTime
    /\ now' = now + 1
    /\ UNCHANGED <<lockVars, rowVars, queueVars, workerVars, historyVars>>
-----------------------------------------------------------------------------
Handle(w) == \/ Obtain(w)
             \/ Read(w)
             \/ List(w)
             \/ Create(w)
             \/ MarkStarted(w)
             \/ Push(w)
             \/ Release(w)
             \/ Respond(w)

Next == \/ \E m \in Messages : Save(m)
        \/ \E w \in Workers : \/ Deliver(w)
                              \/ Ignore(w)
                              \/ Dispatch(w)
                              \/ Handle(w)
                              \/ GoOnUnlocked(w)
                              \/ Crash(w)
        \/ Lapse
        \/ Tick

Spec == Init /\ [][Next]_vars

\* Calls return, jobs are delivered, leases of dead workers run out and time
\* passes.  A worker polls for the lock every 100 ms against others that do the
\* same, and goes on without it after four seconds; with the bound on mishaps
\* it has to get it in the end.
FairSpec == /\ Spec
            /\ WF_vars(Tick) /\ WF_vars(Lapse)
            /\ \A w \in Workers : /\ WF_vars(Handle(w) /\ pc[w] # "lock")
                                  /\ SF_vars(Obtain(w))
            /\ WF_vars(\E w \in Workers : Deliver(w))
            /\ WF_vars(\E w \in Workers : Dispatch(w))
-----------------------------------------------------------------------------
\* Nobody is notified twice but by a mishap: under redeliveries, crashes,
\* reschedulings and leases that run out during a long push, each push beyond
\* the first is paid for by a lock that was refused, or outrun before
\* send_started was written.
PushesAccountedFor == pushes <= 1 + mishaps

\* w has still to read the row, or is acting on it.
Attending(w) == pc[w] \in {"lock", "read", "list", "create", "mark"}

\* A published notification is not forgotten: until sending starts there is a
\* message, a task or a worker that will look at it, unless an error was
\* answered with HTTP 200, a worker died after its job was gone, or two workers,
\* one of them without the lock, deleted each other's tasks in Queue.
NeverForgotten ==
    ToSend =>
        \/ unacked # {} \/ Queued # {}
        \/ \E w \in Workers : Attending(w)
        \/ errored \/ orphaned \/ raced

\* Nothing is to be handled now.
Quiet == /\ unacked = {}
         /\ \A t \in Queued : tasks[t] > now
         /\ \A w \in Workers : pc[w] = "idle"

\* Rescheduling takes effect: when every save and every task that is due has
\* been handled, a task stands at the time the row says, not only at one it
\* said before.
QueuedForItsTime ==
    /\ ToSend /\ Quiet
    /\ ~errored /\ ~orphaned /\ ~raced
    => \E t \in Queued : at # None /\ tasks[t] = WholeSecond(at)

\* What is published and stays so is pushed, whichever workers are killed, with
\* the exceptions of NeverForgotten and one more: a worker killed between
\* NotificationMarkSendStarted and its push leaves a row that every redelivery
\* skips and that nobody is notified of.
PublishedIsSent ==
    (status = "published")
        ~> (pushes > 0 \/ status = "draft" \/ errored \/ orphaned \/ raced)
=============================================================================
