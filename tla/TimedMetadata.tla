---------------------------- MODULE TimedMetadata ----------------------------
(***************************************************************************)
(* The chapters of a video, IngestTimedMetadata in                         *)
(* backend/asset/timedmetadata.go with backend/asset/utils.go: the         *)
(* chapters of its assets are deleted, and one goroutine per chapter of    *)
(* the delivered file inserts that chapter for each asset.                 *)
(*                                                                         *)
(* No transaction holds this together; a mutex of the run lets its         *)
(* goroutines insert one at a time.  All chapters name the same person,    *)
(* whom the first to come inserts.  The frame that is cut for a chapter is *)
(* left out: its errors are logged and the chapter is inserted without.    *)
(***************************************************************************)
EXTENDS Integers, FiniteSets

CONSTANTS Procs,     \* deliveries that are being handled
          Assets,    \* the assets of the video that are long enough
          Chapters,
          Known,     \* those with a content type that is known
          NoChapter

VARIABLES pc,       \* pc[p]: where p is in IngestTimedMetadata
          file,     \* file[p]: the chapters delivered to p
          todo,     \* todo[p]: assets still to be cleared
          at,       \* at[p][c]: where p's goroutine for c is
          left,     \* left[p][c]: assets it has still to insert c for
          found,    \* found[p]: whether the one that holds the mutex found the person
          insertLock, \* insertLock[p]: the chapter whose goroutine holds p's mutex
          rows,     \* rows[v][c]: rows of asset v for chapter c
          persons,  \* rows for the person
          alone,    \* the run that nothing has overlapped (history)
          whole,    \* the file of the last run, if that was alone to its good end (history)
          shared    \* two runs have overlapped (history)

routines == <<file, todo, at, left, found, insertLock>>
tables == <<rows, persons>>
history == <<alone, whole, shared>>
vars == <<pc, routines, tables, history>>

Labels == {"idle", "read", "clear", "ingest"}
Steps == {"none", "lock", "find", "person", "insert", "failed"}

TypeOK == /\ pc \in [Procs -> Labels]
          /\ file \in [Procs -> SUBSET Chapters]
          /\ todo \in [Procs -> SUBSET Assets]
          /\ at \in [Procs -> [Chapters -> Steps]]
          /\ left \in [Procs -> [Chapters -> SUBSET Assets]]
          /\ found \in [Procs -> BOOLEAN]
          /\ insertLock \in [Procs -> Chapters \cup {NoChapter}]
          /\ rows \in [Assets -> [Chapters -> 0..Cardinality(Procs)]]
          /\ persons \in 0..Cardinality(Procs)
          /\ alone \in SUBSET Procs
          /\ whole \in SUBSET Chapters
          /\ shared \in BOOLEAN

Quiet(p) == /\ file' = [file EXCEPT ![p] = {}]
            /\ todo' = [todo EXCEPT ![p] = {}]
            /\ at' = [at EXCEPT ![p] = [c \in Chapters |-> "none"]]
            /\ left' = [left EXCEPT ![p] = [c \in Chapters |-> {}]]
            /\ found' = [found EXCEPT ![p] = FALSE]
            /\ insertLock' = [insertLock EXCEPT ![p] = NoChapter]
            /\ pc' = [pc EXCEPT ![p] = "idle"]

StateInit == /\ file = [p \in Procs |-> {}]
             /\ todo = [p \in Procs |-> {}]
             /\ at = [p \in Procs |-> [c \in Chapters |-> "none"]]
             /\ left = [p \in Procs |-> [c \in Chapters |-> {}]]
             /\ found = [p \in Procs |-> FALSE]
             /\ insertLock = [p \in Procs |-> NoChapter]
             /\ rows = [v \in Assets |-> [c \in Chapters |-> 0]]
             /\ persons = 0
             /\ alone = {} /\ whole = {} /\ shared = FALSE

Init == pc = [p \in Procs |-> "idle"] /\ StateInit

Busy == {p \in Procs : pc[p] # "idle"}

Step(p, c, step) == at' = [at EXCEPT ![p][c] = step]
-----------------------------------------------------------------------------
\* A file of chapters is delivered, or delivered again.
Deliver(p) ==
    /\ pc[p] = "idle"
    /\ pc' = [pc EXCEPT ![p] = "read"]
    /\ \E chapters \in SUBSET Chapters : file' = [file EXCEPT ![p] = chapters]
    /\ alone' = IF Busy = {} THEN {p} ELSE {}
    /\ shared' = (shared \/ Busy # {})
    /\ whole' = {}
    /\ UNCHANGED <<todo, at, left, found, insertLock, tables>>

\* The JSON and the assets are read; no chapters are an error.
Read(p) ==
    /\ pc[p] = "read"
    /\ file[p] # {}
    /\ pc' = [pc EXCEPT ![p] = "clear"]
    /\ todo' = [todo EXCEPT ![p] = Assets]
    /\ UNCHANGED <<file, at, left, found, insertLock, tables, history>>

\* ClearAssetTimedMetadata.
Clear(p, v) ==
    /\ pc[p] = "clear"
    /\ v \in todo[p]
    /\ todo' = [todo EXCEPT ![p] = @ \ {v}]
    /\ rows' = [rows EXCEPT ![v] = [c \in Chapters |-> 0]]
    /\ UNCHANGED <<pc, file, at, left, found, insertLock, persons, history>>

\* The goroutines are started; they make for the mutex.
Start(p) ==
    /\ pc[p] = "clear"
    /\ todo[p] = {}
    /\ pc' = [pc EXCEPT ![p] = "ingest"]
    /\ at' = [at EXCEPT ![p] = [c \in Chapters |-> IF c \in file[p] THEN "lock" ELSE "none"]]
    /\ left' = [left EXCEPT ![p] = [c \in Chapters |-> IF c \in file[p] THEN Assets ELSE {}]]
    /\ UNCHANGED <<file, todo, found, insertLock, tables, history>>

\* insertLock.Lock returns.  A chapter of unknown type ends here.
Lock(p, c) ==
    /\ at[p][c] = "lock"
    /\ insertLock[p] = NoChapter
    /\ IF c \in Known THEN Step(p, c, "find") /\ insertLock' = [insertLock EXCEPT ![p] = c]
                      ELSE Step(p, c, "none") /\ UNCHANGED insertLock
    /\ UNCHANGED <<pc, file, todo, left, found, tables, history>>

Unlock(p) == insertLock' = [insertLock EXCEPT ![p] = NoChapter]

\* GetPersonIDsByNames.
Find(p, c) ==
    /\ at[p][c] = "find"
    /\ found' = [found EXCEPT ![p] = persons > 0]
    /\ Step(p, c, "person")
    /\ UNCHANGED <<pc, file, todo, left, insertLock, tables, history>>

\* InsertPerson, unless the person was found.
InsertPerson(p, c) ==
    /\ at[p][c] = "person"
    /\ persons' = IF found[p] THEN persons ELSE persons + 1
    /\ Step(p, c, "insert")
    /\ UNCHANGED <<pc, file, todo, left, found, insertLock, rows, history>>

\* InsertTimedMetadata for one asset, and its contributions and image.
Insert(p, c, v) ==
    /\ at[p][c] = "insert"
    /\ v \in left[p][c]
    /\ left' = [left EXCEPT ![p][c] = @ \ {v}]
    /\ rows' = [rows EXCEPT ![v][c] = @ + 1]
    /\ IF left'[p][c] = {} THEN Step(p, c, "none") /\ Unlock(p) ELSE UNCHANGED <<at, insertLock>>
    /\ UNCHANGED <<pc, file, todo, found, persons, history>>

\* Mutant: the error that one goroutine left is written over by the next.
FailMasked(p, c) ==
    /\ at[p][c] \in {"find", "person", "insert"}
    /\ Step(p, c, "none")
    /\ left' = [left EXCEPT ![p][c] = {}]
    /\ Unlock(p)
    /\ UNCHANGED <<pc, file, todo, found, tables, history>>

\* A query fails and with it the goroutine; what belongs to the row may fail
\* when that has been inserted.
Fail(p, c) ==
    /\ at[p][c] \in {"find", "person", "insert"}
    /\ Step(p, c, "failed")
    /\ left' = [left EXCEPT ![p][c] = {}]
    /\ \/ UNCHANGED rows
       \/ /\ at[p][c] = "insert"
          /\ \E v \in left[p][c] : rows' = [rows EXCEPT ![v][c] = @ + 1]
    /\ Unlock(p)
    /\ UNCHANGED <<pc, file, todo, found, persons, history>>

\* eg.Wait returns, with the first error if there was one.
Wait(p) ==
    /\ pc[p] = "ingest"
    /\ \A c \in Chapters : at[p][c] \in {"none", "failed"}
    /\ whole' = IF p \in alone /\ \A c \in Chapters : at[p][c] = "none" THEN file[p] ELSE {}
    /\ alone' = {}
    /\ Quiet(p)
    /\ UNCHANGED <<tables, shared>>

\* The run ends with an error before it has started goroutines, or its pod dies.
Stop(p) ==
    /\ pc[p] # "idle"
    /\ alone' = {}
    /\ Quiet(p)
    /\ UNCHANGED <<tables, whole, shared>>

Proceed(p) == \/ Read(p)
              \/ \E v \in Assets : Clear(p, v)
              \/ Start(p)
              \/ \E c \in Chapters : \/ Lock(p, c)
                                     \/ Find(p, c)
                                     \/ InsertPerson(p, c)
                                     \/ \E v \in Assets : Insert(p, c, v)
                                     \/ Fail(p, c)
              \/ Wait(p)

Next == \E p \in Procs : Deliver(p) \/ Proceed(p) \/ Stop(p)
-----------------------------------------------------------------------------
\* A run that ends without an error and that no other overlapped leaves every
\* asset with the chapters of its file, each once, and nothing of what earlier
\* runs left half done.  Nor have its goroutines entered anybody twice, nor has
\* one run after another: it takes two runs at a time.
ChaptersAreOfTheFile ==
    whole # {} =>
        /\ \A v \in Assets, c \in Chapters :
               rows[v][c] = IF c \in whole \cap Known THEN 1 ELSE 0
        /\ ~shared => persons <= 1
=============================================================================
