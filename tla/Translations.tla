---------------------------- MODULE Translations ----------------------------
(***************************************************************************)
(* Sending texts to be translated: a translations.sync event, under the    *)
(* lock of runIfNotLocked (backend/cmd/jobs/server/server.go), through     *)
(* sendToProviderIfNeeded (backend/translations/service.go) to             *)
(* SendToTranslation (backend/translations/phrase/client.go).              *)
(*                                                                         *)
(* One collection.  Its texts are modelled by a version, as is the hash of *)
(* them.  A job is Phrase's translation of the collection into one         *)
(* language and is modelled by the version of its source.                  *)
(*                                                                         *)
(* External: Pub/Sub, which may deliver an event twice; redis; Phrase; the *)
(* CMS, where editors change texts and may change them back.               *)
(***************************************************************************)
EXTENDS Integers, Sequences

CONSTANTS Procs,     \* messages that are being handled
          Events,    \* ids of translations.sync events
          NoEvent,
          Texts,     \* versions of the texts
          NoVersion, \* "nothing sent yet", and the source of old jobs
          Languages,
          MaxJobs    \* bound: jobs of a language when a listing is lost

VARIABLES pc,        \* pc[p]: where p is
          event,     \* event[p]: the id of the event that p handles
          running,   \* the events whose lock key is set
          content,   \* the version of the texts
          data,      \* data[p]: the version that p has read
          hash,      \* the version in translations_hash
          recent,    \* it has been sent within the last 30 minutes
          jobs,      \* jobs[l]: the jobs for language l
          listed,    \* listed[p][l]: how many of them p has been told of
          errs,      \* those that have an error in errList
          alone,     \* the run that nothing has overlapped (history)
          blind,     \* the runs that GetJobs told of no jobs, for want of an
                     \* answer (history)
          disturbed, \* what went wrong since the last send of a run that was
                     \* alone, and in it (history)
          shared     \* runs have overlapped or been blind (history)

locals == <<event, data, listed, errs>>
tables == <<hash, recent>>
history == <<alone, blind, disturbed, shared>>
vars == <<pc, locals, running, content, tables, jobs, history>>

Labels == {"idle", "get", "set", "read", "should", "list", "update", "create",
           "notify", "record", "del"}

TypeOK == /\ pc \in [Procs -> Labels]
          /\ event \in [Procs -> Events \cup {NoEvent}]
          /\ running \in SUBSET Events
          /\ content \in Texts
          /\ data \in [Procs -> Texts \cup {NoVersion}]
          /\ hash \in Texts \cup {NoVersion}
          /\ recent \in BOOLEAN
          /\ \A l \in Languages : \A i \in DOMAIN jobs[l] : jobs[l][i] \in Texts \cup {NoVersion}
          /\ \A p \in Procs, l \in Languages : listed[p][l] \in 0..Len(jobs[l])
          /\ errs \in SUBSET Procs
          /\ alone \in SUBSET Procs
          /\ blind \in SUBSET Procs
          /\ disturbed \in SUBSET {"overlap", "failure", "blind"}
          /\ shared \in BOOLEAN

\* Languages may have been added since the jobs were made.
StateInit == /\ event = [p \in Procs |-> NoEvent]
             /\ running = {}
             /\ content \in Texts
             /\ data = [p \in Procs |-> NoVersion]
             /\ hash = NoVersion /\ recent = FALSE
             /\ jobs \in [Languages -> {<<>>, <<NoVersion>>}]
             /\ listed = [p \in Procs |-> [l \in Languages |-> 0]]
             /\ errs = {}
             /\ alone = {} /\ blind = {} /\ disturbed = {} /\ shared = FALSE

Init == pc = [p \in Procs |-> "idle"] /\ StateInit

Goto(p, label) == pc' = [pc EXCEPT ![p] = label]

Busy == {p \in Procs : pc[p] \notin {"idle", "get", "set", "del"}}

\* p has run its task to an end, or it is gone.
Leave(p, label) ==
    /\ Goto(p, label)
    /\ data' = [data EXCEPT ![p] = NoVersion]
    /\ listed' = [listed EXCEPT ![p] = [l \in Languages |-> 0]]
    /\ errs' = errs \ {p}
    /\ alone' = alone \ {p}
    /\ blind' = blind \ {p}
    /\ UNCHANGED shared

Failed(p) == disturbed' = IF p \in Busy THEN disturbed \cup {"failure"} ELSE disturbed
-----------------------------------------------------------------------------
\* The event is delivered.
Deliver(p) ==
    /\ pc[p] = "idle"
    /\ \E e \in Events : event' = [event EXCEPT ![p] = e]
    /\ Goto(p, "get")
    /\ UNCHANGED <<running, content, data, tables, jobs, listed, errs, history>>

\* runIfNotLocked gets the key; if it is there the message is done with.
GetKey(p) ==
    /\ pc[p] = "get"
    /\ IF event[p] \in running
       THEN Goto(p, "idle") /\ event' = [event EXCEPT ![p] = NoEvent]
       ELSE Goto(p, "set") /\ UNCHANGED event
    /\ UNCHANGED <<running, content, data, tables, jobs, listed, errs, history>>

\* It sets the key, for 10 minutes, and starts the task.
SetKey(p) ==
    /\ pc[p] = "set"
    /\ running' = running \cup {event[p]}
    /\ Goto(p, "read")
    /\ alone' = IF Busy = {} THEN {p} ELSE {}
    /\ disturbed' = IF Busy = {} THEN disturbed ELSE disturbed \cup {"overlap"}
    /\ shared' = (shared \/ Busy # {})
    /\ UNCHANGED <<content, tables, jobs, locals, blind>>

\* SendCollectionToTranslation reads the texts.
ReadContent(p) ==
    /\ pc[p] = "read"
    /\ data' = [data EXCEPT ![p] = content]
    /\ Goto(p, "should")
    /\ UNCHANGED <<event, running, content, tables, jobs, listed, errs, history>>

\* ShouldSendTranslations: not if they are the same, nor so soon.
ShouldSend(p) ==
    /\ pc[p] = "should"
    /\ IF hash = data[p] \/ recent
       THEN Leave(p, "del") /\ UNCHANGED <<event, running, disturbed>>
       ELSE Goto(p, "list") /\ UNCHANGED <<locals, running, history>>
    /\ UNCHANGED <<content, tables, jobs>>

\* GetJobs: the jobs there are.  A status other than 200 is logged, and no jobs
\* and no error are returned: p goes on as if there were none.
GetJobs(p) ==
    /\ pc[p] = "list"
    /\ \/ /\ listed' = [listed EXCEPT ![p] = [l \in Languages |-> Len(jobs[l])]]
          /\ UNCHANGED <<blind, shared>>
       \/ /\ \A l \in Languages : Len(jobs[l]) < MaxJobs
          /\ listed' = [listed EXCEPT ![p] = [l \in Languages |-> 0]]
          /\ blind' = blind \cup {p} /\ shared' = TRUE
    /\ Goto(p, "update")
    /\ UNCHANGED <<event, data, errs, running, content, tables, jobs, alone, disturbed>>

\* The jobs that p goes by have p's texts from now on.
Updated(p) == [l \in Languages |-> [i \in DOMAIN jobs[l] |->
                  IF i <= listed[p][l] THEN data[p] ELSE jobs[l][i]]]

\* Mutant: an error of UpdateSource is logged and no more.
UpdateSourceUnchecked(p) ==
    /\ pc[p] = "update"
    /\ jobs' \in {jobs, Updated(p)}
    /\ Goto(p, "create")
    /\ UNCHANGED <<locals, running, content, tables, history>>

\* UpdateSource of the jobs listed, if any, whose error is kept for the end.
UpdateSource(p) ==
    /\ pc[p] = "update"
    /\ \/ jobs' = Updated(p) /\ UNCHANGED errs
       \/ /\ \E l \in Languages : listed[p][l] > 0
          /\ jobs' \in {jobs, Updated(p)} /\ errs' = errs \cup {p}
    /\ Goto(p, "create")
    /\ UNCHANGED <<event, data, listed, running, content, tables, history>>

\* CreateJob for the languages that had none.
CreateJob(p) ==
    LET created == [l \in Languages |->
                       IF listed[p][l] = 0 THEN Append(jobs[l], data[p]) ELSE jobs[l]]
    IN
    /\ pc[p] = "create"
    /\ \/ jobs' = created /\ UNCHANGED errs
       \/ /\ \E l \in Languages : listed[p][l] = 0
          /\ jobs' \in {jobs, created} /\ errs' = errs \cup {p}
    /\ Goto(p, "notify")
    /\ UNCHANGED <<event, data, listed, running, content, tables, history>>

\* NotifyAssignedJobs may fail too, if there were jobs.  Only without any error
\* the send is recorded.
Notify(p) ==
    /\ pc[p] = "notify"
    /\ \/ /\ p \notin errs
          /\ Goto(p, "record")
          /\ UNCHANGED <<locals, history>>
       \/ /\ p \in errs \/ \E l \in Languages : listed[p][l] > 0
          /\ Leave(p, "del") /\ Failed(p) /\ UNCHANGED event
    /\ UNCHANGED <<running, content, tables, jobs>>

\* UpdateTranslationsHash.
UpdateHash(p) ==
    /\ pc[p] = "record"
    /\ hash' = data[p] /\ recent' = TRUE
    /\ Leave(p, "del")
    /\ disturbed' = IF p \in alone
                    THEN IF p \in blind THEN {"blind"} ELSE {}
                    ELSE disturbed
    /\ UNCHANGED <<event, running, content, jobs>>

\* The deferred Del, whoever has set the key by now.
DelKey(p) ==
    /\ pc[p] = "del"
    /\ running' = running \ {event[p]}
    /\ event' = [event EXCEPT ![p] = NoEvent]
    /\ Goto(p, "idle")
    /\ UNCHANGED <<content, data, listed, errs, tables, jobs, history>>

\* A query fails, or GetJobs gets no response at all.  SendAllToTranslation logs all errors there are.
Fail(p) ==
    /\ pc[p] \in {"read", "should", "list", "record"}
    /\ Leave(p, "del") /\ Failed(p)
    /\ UNCHANGED <<event, running, content, tables, jobs>>

\* The pod dies.
Crash(p) ==
    /\ pc[p] # "idle"
    /\ Leave(p, "idle") /\ Failed(p)
    /\ event' = [event EXCEPT ![p] = NoEvent]
    /\ UNCHANGED <<running, content, tables, jobs>>

\* 10 minutes after it was set a key is gone.
ExpireKey(e) ==
    /\ e \in running
    /\ running' = running \ {e}
    /\ UNCHANGED <<pc, locals, content, tables, jobs, history>>

\* 30 minutes have passed since the last send.
Elapse ==
    /\ recent
    /\ recent' = FALSE
    /\ UNCHANGED <<pc, locals, running, content, hash, jobs, history>>

\* External: an editor changes the texts.
Edit ==
    /\ \E v \in Texts \ {content} : content' = v
    /\ UNCHANGED <<pc, locals, running, tables, jobs, history>>

Proceed(p) == \/ GetKey(p) \/ SetKey(p)
              \/ ReadContent(p) \/ ShouldSend(p)
              \/ GetJobs(p) \/ UpdateSource(p) \/ CreateJob(p) \/ Notify(p)
              \/ UpdateHash(p) \/ DelKey(p) \/ Fail(p)

Next == \/ \E p \in Procs : Deliver(p) \/ Proceed(p) \/ Crash(p)
        \/ \E e \in Events : ExpireKey(e)
        \/ Elapse
        \/ Edit
-----------------------------------------------------------------------------
\* The job of a language that was created last.
Newest(l) == jobs[l][Len(jobs[l])]

\* Every language has a job with the version that was recorded, and so have all
\* its jobs if GetJobs told of them; for a second job of a language it takes two
\* runs at a time or a blind one, though CreateJob may have done its work when it
\* fails.
Current == \A l \in Languages :
               /\ jobs[l] # <<>> /\ Newest(l) = hash
               /\ "blind" \notin disturbed => \A i \in DOMAIN jobs[l] : jobs[l][i] = hash
               /\ ~shared => Len(jobs[l]) = 1

\* What is recorded as sent, and so will not be sent again, is what the newest
\* job of every language has, and what every job has unless the run that sent it
\* was blind; except when runs overlapped or failed, for which a send that
\* nothing overlaps and that succeeds makes up.
RecordedIsSent ==
    Busy = {} /\ disturbed \subseteq {"blind"} /\ hash # NoVersion => Current
=============================================================================
