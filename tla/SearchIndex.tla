----------------------------- MODULE SearchIndex -----------------------------
(***************************************************************************)
(* The search index, backend/search/indexing.go: what IndexModel,          *)
(* DeleteModel and ReindexElastic make of one item whose row is created,   *)
(* saved and deleted in the CMS.                                           *)
(*                                                                         *)
(* Every save publishes a message, which reaches a pod after any delay, in *)
(* any order and possibly more than once; a reindex is a message too.      *)
(* Each pod has loaders that cache the item and its permissions.  Rows are *)
(* modelled by the number of the save, permissions by the save that they   *)
(* were read after.                                                        *)
(*                                                                         *)
(* External: elastic, where writing to an index that is missing makes it   *)
(* and creating one that is there fails; the CMS; Pub/Sub.                 *)
(***************************************************************************)
EXTENDS Integers

CONSTANTS Procs,     \* messages that are being handled
          Pods,
          Collection, \* "shows", "seasons" or "episodes"
          MaxSaves   \* bound: saves of the row

VARIABLES pc,        \* pc[p]: where p is
          pod,       \* pod[p]: the pod that handles p
          row,       \* the save the row is from, 0 if there is no row
          saves,     \* saves so far
          events,    \* events[e]: messages of type e to be delivered
          index,     \* the index exists
          doc,       \* the item's document in it
          loaded,    \* loaded[d][l]: what loader l of pod d has cached
          obj,       \* obj[p]: the item p goes on with
          perms,     \* perms[p]: its permissions
          alone,     \* the reindex that nothing has overlapped (history)
          disturbed  \* jobs overlapped or failed since the last of those (history)

caches == <<loaded, obj, perms>>
rows == <<row, saves>>
elastic == <<index, doc>>
history == <<alone, disturbed>>
vars == <<pc, pod, rows, events, elastic, caches, history>>

Unknown == -1  \* "not cached", "not read"
NoDoc == [item |-> 0, perms |-> 0]

\* The loaders that IndexModel clears.
Clears == IF Collection = "episodes" THEN {"item", "perms"} ELSE {"item"}

Labels == {"idle", "clear", "load", "perms", "write", "delete",
           "drop", "create", "list", "prime", "put"}

Versions == 0..MaxSaves

TypeOK == /\ pc \in [Procs -> Labels]
          /\ pod \in [Procs -> Pods]
          /\ row \in Versions /\ saves \in Versions
          /\ events \in [{"save", "delete"} -> Versions]
          /\ index \in BOOLEAN
          /\ doc \in [item : Versions, perms : Versions]
          /\ loaded \in [Pods -> [{"item", "perms"} -> Versions \cup {Unknown}]]
          /\ obj \in [Procs -> Versions \cup {Unknown}]
          /\ perms \in [Procs -> Versions \cup {Unknown}]
          /\ alone \in SUBSET Procs
          /\ disturbed \in BOOLEAN

StateInit == /\ row = 0 /\ saves = 0
             /\ events = [e \in {"save", "delete"} |-> 0]
             /\ index = TRUE /\ doc = NoDoc
             /\ loaded = [d \in Pods |-> [l \in {"item", "perms"} |-> Unknown]]
             /\ obj = [p \in Procs |-> Unknown]
             /\ perms = [p \in Procs |-> Unknown]
             /\ alone = {} /\ disturbed = FALSE

Init == /\ pc = [p \in Procs |-> "idle"]
        /\ pod \in [Procs -> Pods]
        /\ StateInit

Busy == {p \in Procs : pc[p] # "idle"}

Goto(p, label) == pc' = [pc EXCEPT ![p] = label]

\* What loader l of p's pod answers, and caches.
Answer(p, l) == IF loaded[pod[p]][l] = Unknown THEN row ELSE loaded[pod[p]][l]
Load(p, l) == loaded' = [loaded EXCEPT ![pod[p]][l] = Answer(p, l)]

\* p begins a job.
Begin(p, label) ==
    /\ pc[p] = "idle"
    /\ Goto(p, label)
    /\ \E d \in Pods : pod' = [pod EXCEPT ![p] = d]
    /\ alone' = IF label = "drop" /\ Busy = {} THEN {p} ELSE {}
    /\ disturbed' = (disturbed \/ Busy # {})

Forget(p) == /\ obj' = [obj EXCEPT ![p] = Unknown]
             /\ perms' = [perms EXCEPT ![p] = Unknown]

\* p's job comes to its end.
End(p) == Goto(p, "idle") /\ Forget(p)
-----------------------------------------------------------------------------
\* External: an editor creates, changes or deletes the item.
Edit ==
    /\ row # 0 \/ saves = 0
    /\ \/ /\ saves < MaxSaves
          /\ saves' = saves + 1
          /\ row' = saves + 1
          /\ events' = [events EXCEPT !["save"] = @ + 1]
       \/ /\ row # 0
          /\ row' = 0
          /\ events' = [events EXCEPT !["delete"] = @ + 1]
          /\ UNCHANGED saves
    /\ UNCHANGED <<pc, pod, elastic, caches, history>>

\* A message is delivered, and perhaps will be again.
Deliver(p) ==
    /\ \E e \in {"save", "delete"} :
          /\ events[e] > 0
          /\ Begin(p, IF e = "save" THEN "clear" ELSE "delete")
          /\ events' \in {events, [events EXCEPT ![e] = @ - 1]}
    /\ UNCHANGED <<rows, elastic, caches>>

Reindex(p) ==
    /\ Begin(p, "drop")
    /\ UNCHANGED <<rows, events, elastic, caches>>

\* Mutant: IndexModel goes by what is cached.
ClearNothing(p) ==
    /\ pc[p] = "clear"
    /\ Goto(p, "load")
    /\ UNCHANGED <<pod, rows, events, elastic, caches, history>>

\* IndexModel clears loaders of the item.
Clear(p) ==
    /\ pc[p] = "clear"
    /\ loaded' = [loaded EXCEPT ![pod[p]] =
                      [l \in {"item", "perms"} |-> IF l \in Clears THEN Unknown ELSE @[l]]]
    /\ Goto(p, "load")
    /\ UNCHANGED <<pod, rows, events, elastic, obj, perms, history>>

\* indexEpisode loads the item; without one there is nothing to index.
LoadItem(p) ==
    /\ pc[p] = "load"
    /\ Load(p, "item")
    /\ IF Answer(p, "item") = 0
       THEN End(p)
       ELSE Goto(p, "perms") /\ obj' = [obj EXCEPT ![p] = Answer(p, "item")] /\ UNCHANGED perms
    /\ UNCHANGED <<pod, rows, events, elastic, history>>

\* It gets the permissions.  Without any, indexObjectElastic panics.
LoadPerms(p) ==
    /\ pc[p] = "perms"
    /\ Load(p, "perms")
    /\ IF Answer(p, "perms") = 0
       THEN End(p)
       ELSE Goto(p, "write") /\ perms' = [perms EXCEPT ![p] = Answer(p, "perms")] /\ UNCHANGED obj
    /\ UNCHANGED <<pod, rows, events, elastic, history>>

\* indexObjectElastic.
Write(p) ==
    /\ pc[p] = "write"
    /\ index' = TRUE
    /\ doc' = [item |-> obj[p], perms |-> perms[p]]
    /\ End(p)
    /\ UNCHANGED <<pod, rows, events, loaded, history>>

\* DeleteModel.
Delete(p) ==
    /\ pc[p] = "delete"
    /\ doc' = NoDoc
    /\ End(p)
    /\ UNCHANGED <<pod, rows, events, index, loaded, history>>

\* resetElasticIndexes: the index is deleted, if it is there.
Drop(p) ==
    /\ pc[p] = "drop"
    /\ index' = FALSE
    /\ doc' = NoDoc
    /\ Goto(p, "create")
    /\ UNCHANGED <<pod, rows, events, caches, history>>

\* It is created; an index that has come into being meanwhile is an error.
Create(p) ==
    /\ pc[p] = "create"
    /\ index' = TRUE
    /\ IF index THEN End(p) ELSE Goto(p, "list") /\ UNCHANGED <<obj, perms>>
    /\ UNCHANGED <<pod, rows, events, doc, loaded, history>>

\* indexCollectionElastic lists the items.
List(p) ==
    /\ pc[p] = "list"
    /\ obj' = [obj EXCEPT ![p] = row]
    /\ Goto(p, "prime")
    /\ UNCHANGED <<pod, rows, events, elastic, loaded, perms, history>>

\* LoadMany of the permissions, and Prime, which leaves a cached item alone.
Prime(p) ==
    /\ pc[p] = "prime"
    /\ IF obj[p] = 0
       THEN loaded' = loaded
       ELSE loaded' = [loaded EXCEPT ![pod[p]] =
                           [perms |-> Answer(p, "perms"),
                            item |-> IF @["item"] = Unknown THEN obj[p] ELSE @["item"]]]
    /\ Goto(p, "put")
    /\ UNCHANGED <<pod, rows, events, elastic, obj, perms, history>>

\* The permissions, if any, and the document; then the reindex has ended.
Put(p) ==
    /\ pc[p] = "put"
    /\ IF obj[p] = 0
       THEN UNCHANGED <<elastic, loaded>>
       ELSE /\ Load(p, "perms")
            /\ index' = TRUE
            /\ doc' = [item |-> obj[p], perms |-> Answer(p, "perms")]
    /\ disturbed' = (disturbed /\ p \notin alone)
    /\ alone' = alone \ {p}
    /\ End(p)
    /\ UNCHANGED <<pod, rows, events>>

\* A query or a request to elastic fails, which ends p's job, or its pod dies.
Fail(p) ==
    /\ pc[p] # "idle"
    /\ disturbed' = TRUE
    /\ alone' = {}
    /\ End(p)
    /\ UNCHANGED <<pod, rows, events, elastic, loaded>>

\* The converter of another item, an episode of this season say, loads it.
Warm(d) ==
    /\ loaded[d]["item"] = Unknown
    /\ loaded' = [loaded EXCEPT ![d]["item"] = row]
    /\ UNCHANGED <<pc, pod, rows, events, elastic, obj, perms, history>>

\* An entry of a loader expires, after 5 minutes.
Expire(d, l) ==
    /\ loaded[d][l] # Unknown
    /\ loaded' = [loaded EXCEPT ![d][l] = Unknown]
    /\ UNCHANGED <<pc, pod, rows, events, elastic, obj, perms, history>>

Proceed(p) == \/ Clear(p) \/ LoadItem(p) \/ LoadPerms(p) \/ Write(p)
              \/ Delete(p)
              \/ Drop(p) \/ Create(p) \/ List(p) \/ Prime(p) \/ Put(p)

Next == \/ Edit
        \/ \E p \in Procs : Deliver(p) \/ Reindex(p) \/ Proceed(p) \/ Fail(p)
        \/ \E d \in Pods : Warm(d) \/ \E l \in {"item", "perms"} : Expire(d, l)
-----------------------------------------------------------------------------
Quiet == Busy = {} /\ events = [e \in {"save", "delete"} |-> 0] /\ ~disturbed

\* The index holds what the row holds when all messages have been handled, in
\* whatever order they came and however often, and whatever was cached, unless
\* jobs overlapped or failed; and a reindex that nothing overlaps makes up for
\* all of that.
IndexFollowsRow == Quiet => doc.item = row
=============================================================================
