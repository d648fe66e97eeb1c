--------------------------- MODULE JobServerProofs ---------------------------
(***************************************************************************)
(* What is proved of the job server for every value of its constants:      *)
(*   - a completed copy is the whole object, for every part size and every *)
(*     file size: the parts uploaded so far are adjacent, begin at the     *)
(*     first byte and end where the next part is to begin, or at the last  *)
(*     byte (CopyInv);                                                     *)
(*   - the index follows the row (IndexInv): what a job has read is the    *)
(*     row, or a message about the row is still to come;                   *)
(*   - chapters are those of the file (ChaptersInv): what a run inserts it *)
(*     has had left to insert, and no run inserts a row twice;             *)
(*   - what is recorded as sent to be translated is sent (TextsInv).       *)
(* A behaviour is about one of the four, so each has an invariant of its   *)
(* own; the part before "OfServer" is about the component alone.           *)
(***************************************************************************)
EXTENDS JobServer, FiniteSetTheorems, TLAPS

\* Where the parts uploaded so far end.
Covered == IF i <= fileSize THEN i ELSE fileSize

\* The parts are adjacent and cover the first Covered bytes.
PartsInv ==
    /\ i = 0 <=> parts = <<>>
    /\ parts # <<>> => parts[1][1] = 0 /\ parts[Len(parts)][2] = Covered - 1
    /\ \A n \in 1..Len(parts) : parts[n][1] <= parts[n][2]
    /\ \A n \in 1..Len(parts) - 1 : parts[n][2] + 1 = parts[n + 1][1]

\* An upload is completed only when all the bytes are covered.
CompletedInv == upload = "completed" => copyPc \in {"copied", "error"} /\ i >= fileSize

CopyInv == MPC!TypeOK /\ PartsInv /\ CompletedInv

LEMMA CopyInit ==
  ASSUME MPC!SizesAssumption
  PROVE  MPC!Init => CopyInv
  <1> SUFFICES ASSUME MPC!Init PROVE CopyInv
    OBVIOUS
  <1> USE DEF MPC!SizesAssumption
  <1>1. MPC!TypeOK
    <2>1. parts \in Seq(MPC!Ranges)
      BY DEF MPC!Init
    <2>2. 0 \in 0..(MaxFileSize + MaxPartSize)
      OBVIOUS
    <2> QED BY <2>1, <2>2 DEF MPC!Init, MPC!TypeOK
  <1>2. PartsInv
    BY DEF MPC!Init, PartsInv, Covered
  <1>3. CompletedInv
    BY DEF MPC!Init, CompletedInv
  <1> QED BY <1>1, <1>2, <1>3 DEF CopyInv

\* A part begins where the last one ended and lies within the file.
LEMMA RangeWithin ==
  ASSUME MPC!SizesAssumption, MPC!TypeOK, i < fileSize, MPC!CopySourceRange(i, fileSize)[2] < fileSize
  PROVE  LET range == MPC!CopySourceRange(i, fileSize)
         IN  /\ range \in MPC!Ranges
             /\ range[1] = i
             /\ range[1] <= range[2]
             /\ range[2] = (IF i + MaxPartSize <= fileSize THEN i + MaxPartSize ELSE fileSize) - 1
  BY DEF MPC!SizesAssumption, MPC!TypeOK, MPC!CopySourceRange, MPC!Ranges

LEMMA CopyStep ==
  ASSUME MPC!SizesAssumption
  PROVE  CopyInv /\ [MPC!Next]_(MPC!vars) => CopyInv'
  <1> SUFFICES ASSUME CopyInv, [MPC!Next]_(MPC!vars) PROVE CopyInv'
    OBVIOUS
  <1> USE DEF MPC!SizesAssumption, CopyInv
  <1>1. CASE MPC!Start
    BY <1>1 DEF MPC!Start, MPC!Fails, MPC!TypeOK, PartsInv, CompletedInv, Covered
  <1>2. CASE MPC!UploadPart
    <2> DEFINE range == MPC!CopySourceRange(i, fileSize)
    <2>1. CASE parts' = parts /\ i' = i
      BY <1>2, <2>1 DEF MPC!UploadPart, MPC!Fails, MPC!TypeOK, PartsInv, CompletedInv, Covered
    <2>2. CASE ~(parts' = parts /\ i' = i)
      <3>1. /\ copyPc = "parts" /\ i < fileSize /\ range[2] < fileSize
            /\ parts' = Append(parts, range)
            /\ i' = i + MaxPartSize
            /\ UNCHANGED <<fileSize, copyPc, upload, expired, faults>>
        BY <1>2, <2>2 DEF MPC!UploadPart, MPC!Fails
      <3>2. /\ range \in MPC!Ranges
            /\ range[1] = i
            /\ range[1] <= range[2]
            /\ range[2] = Covered' - 1
        BY <3>1, RangeWithin DEF Covered
      <3> HIDE DEF range
      <3>3. /\ Len(parts') = Len(parts) + 1
            /\ parts'[Len(parts')] = range
            /\ \A n \in 1..Len(parts) : parts'[n] = parts[n]
            /\ parts' # <<>>
            /\ parts \in Seq(MPC!Ranges) /\ parts' \in Seq(MPC!Ranges)
            /\ Len(parts) \in Nat
        BY <3>1, <3>2 DEF MPC!TypeOK
      <3>4. MPC!TypeOK'
        BY <3>1, <3>3 DEF MPC!TypeOK
      <3>5. parts'[1][1] = 0
        <4>1. CASE parts = <<>>
          BY <4>1, <3>2, <3>3 DEF PartsInv
        <4>2. CASE parts # <<>>
          BY <4>2, <3>3 DEF PartsInv
        <4> QED BY <4>1, <4>2
      <3>6. \A n \in 1..Len(parts') : parts'[n][1] <= parts'[n][2]
        BY <3>2, <3>3 DEF PartsInv
      <3>7. ASSUME NEW n \in 1..Len(parts') - 1
            PROVE  parts'[n][2] + 1 = parts'[n + 1][1]
        <4>1. CASE n = Len(parts)
          <5>1. parts # <<>>
            BY <4>1, <3>3
          <5>2. Covered = i
            BY <3>1 DEF Covered, MPC!TypeOK
          <5>3. parts[n][2] = i - 1
            BY <4>1, <5>1, <5>2 DEF PartsInv
          <5>4. i \in Int
            BY DEF MPC!TypeOK
          <5> QED BY <5>3, <5>4, <4>1, <3>2, <3>3
        <4>2. CASE n # Len(parts)
          BY <4>2, <3>3 DEF PartsInv
        <4> QED BY <4>1, <4>2
      <3>8. PartsInv'
        <4>1. i' # 0
          BY <3>1 DEF MPC!TypeOK
        <4> QED BY <4>1, <3>2, <3>3, <3>5, <3>6, <3>7 DEF PartsInv
      <3>9. CompletedInv'
        BY <3>1 DEF CompletedInv
      <3> QED BY <3>4, <3>8, <3>9
    <2> QED BY <2>1, <2>2
  <1>3. CASE MPC!Abort
    BY <1>3 DEF MPC!Abort, MPC!Fails, MPC!TypeOK, PartsInv, CompletedInv, Covered
  <1>4. CASE MPC!Complete
    BY <1>4 DEF MPC!Complete, MPC!Fails, MPC!TypeOK, PartsInv, CompletedInv, Covered
  <1>5. CASE UNCHANGED MPC!vars
    BY <1>5 DEF MPC!vars, MPC!TypeOK, PartsInv, CompletedInv, Covered
  <1> QED BY <1>1, <1>2, <1>3, <1>4, <1>5 DEF MPC!Next

-----------------------------------------------------------------------------
\* The other components leave the copy alone.
LEMMA Inductive == Spec => []CopyInv
  <1>1. Init => CopyInv
    BY CopyInit, JobsAssumption DEF Init
  <1>2. CopyInv /\ [Next]_vars => CopyInv'
    <2>1. [Next]_vars => [MPC!Next]_(MPC!vars)
      BY DEF Next, vars, OfCopy, OfIndex, OfChapters, OfTranslations, copyVars, MPC!vars
    <2> QED BY <2>1, CopyStep, JobsAssumption
  <1> QED BY <1>1, <1>2, PTL DEF Spec

\* Types of multiPartCopy's state: every part lies within the largest file.
THEOREM CopyTypeCorrect == Spec => []MPC!TypeOK
  <1>1. CopyInv => MPC!TypeOK
    BY DEF CopyInv
  <1> QED BY <1>1, Inductive, PTL

\* What S3 assembles from a completed upload is the source object, whatever
\* the part size and the size of the file.
THEOREM CompletedWhole == Spec => []CompletedIsWhole
  <1>1. CopyInv => CompletedIsWhole
    <2> SUFFICES ASSUME CopyInv, upload = "completed"
                 PROVE  /\ parts # <<>>
                        /\ parts[1][1] = 0
                        /\ parts[Len(parts)][2] = fileSize - 1
                        /\ \A n \in 1..Len(parts) : parts[n][1] <= parts[n][2]
                        /\ \A n \in 1..Len(parts) - 1 : parts[n][2] + 1 = parts[n + 1][1]
      BY DEF CompletedIsWhole, MPC!CompletedIsWhole
    <2>1. i >= fileSize /\ fileSize > 0 /\ i \in Int /\ fileSize \in Int
      BY DEF CopyInv, CompletedInv, MPC!TypeOK
    <2>2. parts # <<>>
      BY <2>1 DEF CopyInv, PartsInv
    <2>3. Covered = fileSize
      BY <2>1 DEF Covered
    <2> QED BY <2>2, <2>3 DEF CopyInv, PartsInv
  <1> QED BY <1>1, Inductive, PTL

\* A part that fails never leaves an upload open: that takes the end of the
\* context, or a failure of one of the calls that begin and end the upload.
THEOREM UploadsEnd == Spec => []NoneLeftOpen
  <1> USE DEF NoneLeftOpen, MPC!NoneLeftOpen
  <1>1. Init => NoneLeftOpen
    BY DEF Init, MPC!Init
  <1>2. ASSUME NoneLeftOpen, [Next]_vars PROVE NoneLeftOpen'
    <2>1. [MPC!Next]_(MPC!vars)
      BY <1>2 DEF Next, vars, OfCopy, OfIndex, OfChapters, OfTranslations, copyVars, MPC!vars
    <2>2. CASE MPC!Start
      BY <1>2, <2>2 DEF MPC!Start, MPC!Fails
    <2>3. CASE MPC!UploadPart
      BY <1>2, <2>3 DEF MPC!UploadPart, MPC!Fails
    <2>4. CASE MPC!Abort
      BY <1>2, <2>4 DEF MPC!Abort, MPC!Fails
    <2>5. CASE MPC!Complete
      BY <1>2, <2>5 DEF MPC!Complete, MPC!Fails
    <2>6. CASE UNCHANGED MPC!vars
      BY <1>2, <2>6 DEF MPC!vars
    <2> QED BY <2>1, <2>2, <2>3, <2>4, <2>5, <2>6 DEF MPC!Next
  <1> QED BY <1>1, <1>2, PTL DEF Spec
-----------------------------------------------------------------------------
(* The search index.  What a job has read is what the row says, or a        *)
(* message about the row is still to come; and while nothing is disturbed   *)
(* the document is the row's, or a job or a message will make it so.        *)

Reindexing == {"drop", "create", "list", "prime", "put"}

\* The message of the row's last change is still to be delivered.
ChangeToCome == IF row = 0 THEN events["delete"] > 0 ELSE events["save"] > 0

\* An item that is deleted stays so.
RowInv == /\ row <= saves /\ events["save"] <= saves
          /\ events["delete"] > 0 \/ (\E p \in Procs : pc[p] = "delete")
                 => row = 0 /\ saves > 0

\* What jobs go on with.
ReadInv == \A p \in Procs : /\ pc[p] \in {"perms", "write"} => obj[p] > 0
                            /\ pc[p] = "write" => perms[p] > 0
                            /\ pc[p] \in {"prime", "put"} => obj[p] >= 0
                            /\ obj[p] > 0 => saves > 0

\* What loaders have: no permissions are cached only when the item is gone.
LoadedInv == \A d \in Pods : /\ loaded[d]["item"] > 0 => saves > 0
                             /\ loaded[d]["perms"] = 0 => row = 0 /\ saves > 0

\* A reindex that nothing has overlapped.
ReindexInv ==
    \A p \in alone : /\ SI!Busy = {p} /\ pc[p] \in Reindexing
                     /\ pc[p] # "drop" => doc = SI!NoDoc
                     /\ pc[p] = "create" => ~index
                     /\ pc[p] \in {"prime", "put"} => obj[p] = row \/ ChangeToCome

CalmInv ==
    ~overlapped =>
        /\ \A p, q \in SI!Busy : p = q
        /\ \A p \in Procs :
               /\ pc[p] \in Reindexing => p \in alone
               /\ pc[p] = "load" =>
                      loaded[pod[p]]["item"] \in {SI!Unknown, row} \/ ChangeToCome
               /\ pc[p] \in {"perms", "write"} => obj[p] = row \/ ChangeToCome
        /\ \/ doc.item = row \/ ChangeToCome
           \/ \E p \in SI!Busy : pc[p] = "delete" <=> row = 0

IndexInv == /\ SI!TypeOK
            /\ RowInv /\ ReadInv /\ LoadedInv
            /\ ReindexInv /\ CalmInv

\* The numbers among the variables.
LEMMA IndexNumbers ==
  ASSUME SI!TypeOK
  PROVE  /\ row \in Nat /\ saves \in Nat /\ row <= MaxSaves /\ saves <= MaxSaves
         /\ events["save"] \in Nat /\ events["delete"] \in Nat
         /\ doc.item \in Nat /\ doc.perms \in Nat
         /\ \A p \in Procs : /\ pc[p] \in SI!Labels /\ pod[p] \in Pods
                             /\ obj[p] \in Int /\ perms[p] \in Int
                             /\ obj[p] >= 0 \/ obj[p] = SI!Unknown
                             /\ perms[p] >= 0 \/ perms[p] = SI!Unknown
                             /\ obj[p] <= MaxSaves /\ perms[p] <= MaxSaves
         /\ \A d \in Pods, l \in {"item", "perms"} :
                /\ loaded[d][l] \in Int /\ loaded[d][l] <= MaxSaves
                /\ loaded[d][l] >= 0 \/ loaded[d][l] = SI!Unknown
  BY JobsAssumption DEF SI!TypeOK, SI!Versions, SI!Unknown

LEMMA IndexInit == SI!Init => IndexInv
<1> SUFFICES ASSUME SI!Init PROVE IndexInv
  OBVIOUS
<1>1. SI!TypeOK
  <2>1. 0 \in SI!Versions
    BY JobsAssumption DEF SI!Versions
  <2> QED
    BY <2>1
    DEF SI!Init, SI!StateInit, SI!TypeOK, SI!Labels, SI!NoDoc, SI!Unknown
<1>2. SI!Busy = {} /\ doc.item = row
  BY DEF SI!Init, SI!StateInit, SI!Busy, SI!NoDoc
<1> QED
  BY <1>1, <1>2
  DEF SI!Init, SI!StateInit, IndexInv, RowInv, ReadInv, LoadedInv, ReindexInv, CalmInv,
      SI!Unknown, Reindexing

\* What a loader answers, and keeps.
LEMMA LoaderAnswers ==
  ASSUME IndexInv, NEW p \in Procs, NEW l \in {"item", "perms"}, SI!Load(p, l)
  PROVE  /\ SI!Answer(p, l) \in SI!Versions
         /\ loaded' \in [Pods -> [{"item", "perms"} -> SI!Versions \cup {SI!Unknown}]]
         /\ \A d \in Pods, k \in {"item", "perms"} :
                loaded'[d][k] = IF d = pod[p] /\ k = l THEN SI!Answer(p, l) ELSE loaded[d][k]
<1>1. /\ loaded \in [Pods -> [{"item", "perms"} -> SI!Versions \cup {SI!Unknown}]]
      /\ pod[p] \in Pods /\ row \in SI!Versions
  BY DEF IndexInv, SI!TypeOK
<1>2. SI!Answer(p, l) \in SI!Versions
  BY <1>1 DEF SI!Answer
<1>3. loaded' = [loaded EXCEPT ![pod[p]] = [loaded[pod[p]] EXCEPT ![l] = SI!Answer(p, l)]]
  BY DEF SI!Load
<1> QED
  BY <1>1, <1>2, <1>3

\* An editor changes the item: a message about that is to come.
LEMMA EditKeeps ==
  ASSUME IndexInv, SI!Edit
  PROVE  IndexInv'
<1>1. /\ UNCHANGED <<pc, pod, index, doc, loaded, obj, perms, alone, overlapped>>
      /\ row # 0 \/ saves = 0
      /\ events \in [{"save", "delete"} -> SI!Versions]
  BY DEF SI!Edit, SI!elastic, SI!caches, SI!history, IndexInv, SI!TypeOK
<1>2. \/ /\ saves < MaxSaves /\ saves' = saves + 1 /\ row' = saves + 1
         /\ events'["save"] = events["save"] + 1 /\ events'["delete"] = events["delete"]
      \/ /\ row # 0 /\ row' = 0 /\ saves' = saves
         /\ events'["save"] = events["save"] /\ events'["delete"] = events["delete"] + 1
  BY <1>1 DEF SI!Edit
<1>3. /\ events["delete"] = 0 /\ (\A p \in Procs : pc[p] # "delete")
      /\ events["save"] <= saves
  BY <1>1, IndexNumbers DEF IndexInv, RowInv
<1>4. SI!TypeOK'
  <2>1. events' \in [{"save", "delete"} -> SI!Versions]
    <3>1. events'["save"] \in SI!Versions /\ events'["delete"] \in SI!Versions
      BY <1>2, <1>3, IndexNumbers, JobsAssumption DEF IndexInv, SI!Versions, RowInv
    <3> QED
      BY <1>1, <3>1 DEF SI!Edit
  <2>2. row' \in SI!Versions /\ saves' \in SI!Versions
    BY <1>2, IndexNumbers, JobsAssumption DEF IndexInv, SI!Versions
  <2> QED
    BY <1>1, <2>1, <2>2 DEF IndexInv, SI!TypeOK
<1>5. saves' > 0 /\ saves' >= saves /\ row' <= saves' /\ ChangeToCome'
  BY <1>2, IndexNumbers DEF IndexInv, RowInv, ChangeToCome
<1>6. RowInv'
  BY <1>1, <1>2, <1>3, <1>5, IndexNumbers DEF IndexInv, RowInv
<1>7. ReadInv' /\ LoadedInv'
  BY <1>1, <1>5, IndexNumbers DEF IndexInv, ReadInv, LoadedInv
<1>8. ReindexInv' /\ CalmInv'
  BY <1>1, <1>5 DEF IndexInv, ReindexInv, CalmInv, SI!Busy
<1> QED
  BY <1>4, <1>6, <1>7, <1>8 DEF IndexInv

\* A message is delivered, or a reindex begins.  The last message of a change
\* that is taken from the queue is the job of the one that took it.
LEMMA BeginKeeps ==
  ASSUME IndexInv, NEW p \in Procs, SI!Deliver(p) \/ SI!Reindex(p)
  PROVE  IndexInv'
<1>1. PICK label \in {"clear", "delete", "drop"}, e \in {"save", "delete"} :
         /\ SI!Begin(p, label)
         /\ events' \in {events, [events EXCEPT ![e] = @ - 1]}
         /\ label = "clear" => events["save"] > 0 /\ e = "save"
         /\ label = "delete" => events["delete"] > 0 /\ e = "delete"
         /\ label = "drop" => events' = events
         /\ events' # events => events[e] > 0
         /\ UNCHANGED <<row, saves, index, doc, loaded, obj, perms>>
  BY DEF SI!Deliver, SI!Reindex, SI!rows, SI!elastic, SI!caches
<1>2. /\ pc[p] = "idle" /\ pc' = [pc EXCEPT ![p] = label]
      /\ alone' = IF label = "drop" /\ SI!Busy = {} THEN {p} ELSE {}
      /\ overlapped' = (overlapped \/ SI!Busy # {})
      /\ pc \in [Procs -> SI!Labels]
  BY <1>1 DEF SI!Begin, SI!Goto, IndexInv, SI!TypeOK
<1>3. /\ events \in [{"save", "delete"} -> SI!Versions]
      /\ events'["save"] <= events["save"] /\ events'["save"] \in SI!Versions
      /\ events'["delete"] <= events["delete"] /\ events'["delete"] \in SI!Versions
      /\ e = "save" => events'["delete"] = events["delete"]
      /\ e = "delete" => events'["save"] = events["save"]
  BY <1>1, IndexNumbers, JobsAssumption DEF IndexInv, SI!TypeOK, SI!Versions
<1>4. SI!TypeOK'
  <2>1. pc' \in [Procs -> SI!Labels] /\ pod' \in [Procs -> Pods]
    BY <1>1, <1>2 DEF SI!Begin, SI!Labels, IndexInv, SI!TypeOK
  <2>2. events' \in [{"save", "delete"} -> SI!Versions]
    BY <1>1, <1>3
  <2>3. alone' \in SUBSET Procs /\ overlapped' \in BOOLEAN
    BY <1>2 DEF IndexInv, SI!TypeOK
  <2> QED
    BY <1>1, <2>1, <2>2, <2>3 DEF IndexInv, SI!TypeOK
<1>5. RowInv'
  BY <1>1, <1>2, <1>3, IndexNumbers DEF IndexInv, RowInv
<1>6. ReadInv' /\ LoadedInv'
  BY <1>1, <1>2 DEF IndexInv, ReadInv, LoadedInv
<1>7. SI!Busy' = SI!Busy \cup {p}
  BY <1>2 DEF SI!Busy
<1>8. ReindexInv'
  BY <1>1, <1>2, <1>7 DEF ReindexInv, Reindexing
<1>9. CalmInv'
  <2> SUFFICES ASSUME ~overlapped' PROVE CalmInv'
    BY DEF CalmInv
  <2>1. ~overlapped /\ SI!Busy = {} /\ SI!Busy' = {p} /\ pc'[p] = label
        /\ \A q \in Procs \ {p} : pc'[q] = "idle"
    BY <1>2, <1>7 DEF SI!Busy
  <2>2. doc.item = row \/ ChangeToCome
    BY <2>1 DEF IndexInv, CalmInv
  <2>3. doc'.item = row' \/ ChangeToCome' \/ (pc'[p] = "delete" <=> row' = 0)
    BY <1>1, <1>3, <2>1, <2>2, IndexNumbers DEF IndexInv, RowInv, ChangeToCome
  <2> QED
    BY <1>1, <1>2, <2>1, <2>3 DEF CalmInv, Reindexing
<1> QED
  BY <1>4, <1>5, <1>6, <1>8, <1>9 DEF IndexInv

\* Entries of loaders come and go by themselves.
LEMMA LoaderKeeps ==
  ASSUME IndexInv, NEW d \in Pods,
         SI!Warm(d) \/ \E l \in {"item", "perms"} : SI!Expire(d, l)
  PROVE  IndexInv'
<1>1. /\ UNCHANGED <<pc, pod, row, saves, events, index, doc, obj, perms, alone, overlapped>>
      /\ row \in SI!Versions
      /\ loaded \in [Pods -> [{"item", "perms"} -> SI!Versions \cup {SI!Unknown}]]
  BY DEF SI!Warm, SI!Expire, SI!rows, SI!elastic, SI!history, IndexInv, SI!TypeOK
<1>2. \/ loaded' = [loaded EXCEPT ![d] = [loaded[d] EXCEPT !["item"] = row]]
      \/ \E l \in {"item", "perms"} :
            loaded' = [loaded EXCEPT ![d] = [loaded[d] EXCEPT ![l] = SI!Unknown]]
  BY DEF SI!Warm, SI!Expire
<1>3. \A f \in Pods : /\ loaded'[f]["item"] \in {loaded[f]["item"], row, SI!Unknown}
                      /\ loaded'[f]["perms"] \in {loaded[f]["perms"], SI!Unknown}
  BY <1>1, <1>2
<1>4. SI!TypeOK'
  BY <1>1, <1>2 DEF IndexInv, SI!TypeOK
<1>5. RowInv' /\ ReadInv' /\ ReindexInv'
  BY <1>1 DEF IndexInv, RowInv, ReadInv, ReindexInv, SI!Busy, ChangeToCome
<1>6. LoadedInv'
  BY <1>1, <1>3, IndexNumbers DEF IndexInv, LoadedInv, RowInv, SI!Unknown
<1>7. CalmInv'
  BY <1>1, <1>3, IndexNumbers DEF IndexInv, CalmInv, SI!Busy, ChangeToCome
<1> QED
  BY <1>4, <1>5, <1>6, <1>7 DEF IndexInv

\* A job fails.
LEMMA FailKeeps ==
  ASSUME IndexInv, NEW p \in Procs, SI!Fail(p)
  PROVE  IndexInv'
<1>1. /\ UNCHANGED <<pod, row, saves, events, index, doc, loaded>>
      /\ pc' = [pc EXCEPT ![p] = "idle"]
      /\ obj' = [obj EXCEPT ![p] = SI!Unknown]
      /\ perms' = [perms EXCEPT ![p] = SI!Unknown]
      /\ overlapped' = TRUE /\ alone' = {}
  BY DEF SI!Fail, SI!End, SI!Goto, SI!Forget, SI!rows, SI!elastic
<1>2. SI!TypeOK'
  BY <1>1 DEF IndexInv, SI!TypeOK, SI!Labels
<1>3. RowInv' /\ ReadInv' /\ LoadedInv'
  BY <1>1 DEF IndexInv, SI!TypeOK, RowInv, ReadInv, LoadedInv, SI!Unknown
<1>4. ReindexInv' /\ CalmInv'
  BY <1>1 DEF ReindexInv, CalmInv
<1> QED
  BY <1>2, <1>3, <1>4 DEF IndexInv

\* A job goes on: all that it does is up to it, so this is what it has to see
\* to.  An undisturbed job is the only one.
LEMMA JobKeeps ==
  ASSUME IndexInv, NEW p \in Procs, NEW label \in SI!Labels, SI!TypeOK',
         pc[p] # "idle", pc' = [pc EXCEPT ![p] = label],
         UNCHANGED <<pod, row, saves, events, overlapped>>,
         alone' = alone,
         \A q \in Procs \ {p} : obj'[q] = obj[q] /\ perms'[q] = perms[q],
         \* what it goes on with
         label \in {"perms", "write"} => obj'[p] > 0,
         label = "write" => perms'[p] > 0,
         label \in {"prime", "put"} => obj'[p] >= 0,
         obj'[p] > 0 => saves > 0,
         label # "delete",
         LoadedInv',
         \* a reindex goes on as one
         p \in alone => /\ label \in Reindexing
                        /\ label # "drop" => doc' = SI!NoDoc
                        /\ label = "create" => ~index'
                        /\ label \in {"prime", "put"} => obj'[p] = row \/ ChangeToCome,
         \* undisturbed, it is about the row
         ~overlapped =>
             /\ label \in Reindexing => p \in alone
             /\ label = "load" => loaded'[pod[p]]["item"] \in {SI!Unknown, row} \/ ChangeToCome
             /\ label \in {"perms", "write"} => obj'[p] = row \/ ChangeToCome
             /\ \/ doc'.item = row \/ ChangeToCome
                \/ label # "idle" /\ row # 0
  PROVE  IndexInv'
<1>1. pc \in [Procs -> SI!Labels] /\ p \in SI!Busy
  BY DEF IndexInv, SI!TypeOK, SI!Busy
<1>2. ChangeToCome' = ChangeToCome
  BY DEF ChangeToCome
<1>3. /\ pc'[p] = label /\ \A q \in Procs \ {p} : pc'[q] = pc[q]
      /\ SI!Busy' \subseteq SI!Busy
      /\ label # "idle" => SI!Busy' = SI!Busy
  BY <1>1 DEF SI!Busy
<1>4. RowInv' /\ ReadInv'
  BY <1>1, <1>3 DEF IndexInv, RowInv, ReadInv
<1>5. ReindexInv'
  BY <1>1, <1>2, <1>3 DEF IndexInv, ReindexInv, Reindexing
<1>6. CalmInv'
  <2> SUFFICES ASSUME ~overlapped PROVE CalmInv'
    BY DEF CalmInv
  <2>1. \A q \in Procs \ {p} : pc[q] = "idle" /\ pc'[q] = "idle"
    BY <1>1, <1>3 DEF IndexInv, CalmInv, SI!Busy
  <2>2. label # "idle" => p \in SI!Busy'
    BY <1>1, <1>3
  <2> QED
    BY <1>1, <1>2, <1>3, <2>1, <2>2 DEF IndexInv, CalmInv, Reindexing
<1> QED
  BY <1>4, <1>5, <1>6 DEF IndexInv

LEMMA ClearKeeps ==
  ASSUME IndexInv, NEW p \in Procs, SI!Clear(p)
  PROVE  IndexInv'
<1>1. /\ UNCHANGED <<pod, row, saves, events, index, doc, obj, perms, alone, overlapped>>
      /\ pc[p] = "clear" /\ pc' = [pc EXCEPT ![p] = "load"]
      /\ loaded' = [loaded EXCEPT ![pod[p]] = [l \in {"item", "perms"} |->
                        IF l \in SI!Clears THEN SI!Unknown ELSE loaded[pod[p]][l]]]
      /\ loaded \in [Pods -> [{"item", "perms"} -> SI!Versions \cup {SI!Unknown}]]
      /\ pod[p] \in Pods /\ "item" \in SI!Clears
  BY DEF SI!Clear, SI!Goto, SI!rows, SI!elastic, SI!history, SI!Clears, IndexInv, SI!TypeOK
<1>2. /\ loaded'[pod[p]]["item"] = SI!Unknown
      /\ \A d \in Pods, l \in {"item", "perms"} : loaded'[d][l] \in {loaded[d][l], SI!Unknown}
  BY <1>1
<1>3. SI!TypeOK'
  BY <1>1 DEF IndexInv, SI!TypeOK, SI!Labels
<1>4. LoadedInv'
  BY <1>1, <1>2 DEF IndexInv, LoadedInv, SI!Unknown
<1>5. p \notin alone /\ p \in SI!Busy /\ "load" \in SI!Labels
  BY <1>1 DEF IndexInv, ReindexInv, Reindexing, SI!Busy, SI!Labels
<1>6. ~overlapped => doc.item = row \/ ChangeToCome \/ row # 0
  BY <1>1, <1>5 DEF IndexInv, CalmInv, SI!Busy
<1> QED
  BY <1>1, <1>2, <1>3, <1>4, <1>5, <1>6, JobKeeps DEF IndexInv, ReadInv, Reindexing

\* An item that is not found is one that has been deleted, when nothing is
\* disturbed: then its document has been, or a message says so.
LEMMA LoadItemKeeps ==
  ASSUME IndexInv, NEW p \in Procs, SI!LoadItem(p)
  PROVE  IndexInv'
<1> DEFINE answer == SI!Answer(p, "item")
<1>1. /\ UNCHANGED <<pod, row, saves, events, index, doc, alone, overlapped>>
      /\ pc[p] = "load" /\ SI!Load(p, "item")
      /\ \/ /\ answer = 0 /\ pc' = [pc EXCEPT ![p] = "idle"]
            /\ obj' = [obj EXCEPT ![p] = SI!Unknown]
            /\ perms' = [perms EXCEPT ![p] = SI!Unknown]
         \/ /\ answer # 0 /\ pc' = [pc EXCEPT ![p] = "perms"]
            /\ obj' = [obj EXCEPT ![p] = answer] /\ perms' = perms
  BY DEF SI!LoadItem, SI!End, SI!Goto, SI!Forget, SI!rows, SI!elastic, SI!history
<1>2. /\ answer \in SI!Versions
      /\ loaded' \in [Pods -> [{"item", "perms"} -> SI!Versions \cup {SI!Unknown}]]
      /\ \A d \in Pods, k \in {"item", "perms"} :
             loaded'[d][k] = IF d = pod[p] /\ k = "item" THEN answer ELSE loaded[d][k]
  BY <1>1, LoaderAnswers
<1>3. /\ answer = IF loaded[pod[p]]["item"] = SI!Unknown THEN row ELSE loaded[pod[p]]["item"]
      /\ pod[p] \in Pods
  BY DEF SI!Answer, IndexInv, SI!TypeOK
<1> HIDE DEF answer
<1>4. answer \in Nat /\ (answer > 0 => saves > 0)
  BY <1>2, <1>3, IndexNumbers, JobsAssumption DEF IndexInv, LoadedInv, RowInv, SI!Versions
<1>5. SI!TypeOK'
  <2>1. /\ obj' \in [Procs -> SI!Versions \cup {SI!Unknown}]
        /\ perms' \in [Procs -> SI!Versions \cup {SI!Unknown}]
    <3>1. /\ obj \in [Procs -> SI!Versions \cup {SI!Unknown}]
          /\ perms \in [Procs -> SI!Versions \cup {SI!Unknown}]
      BY DEF IndexInv, SI!TypeOK
    <3> QED
      BY <1>1, <1>2, <3>1
  <2>2. pc' \in [Procs -> SI!Labels]
    BY <1>1 DEF IndexInv, SI!TypeOK, SI!Labels
  <2> QED
    BY <1>1, <1>2, <2>1, <2>2 DEF IndexInv, SI!TypeOK
<1>6. LoadedInv'
  BY <1>1, <1>2, <1>4 DEF IndexInv, LoadedInv
<1>7. p \notin alone /\ p \in SI!Busy
  BY <1>1 DEF IndexInv, ReindexInv, Reindexing, SI!Busy
<1>8. ~overlapped => /\ answer = row \/ ChangeToCome
                     /\ doc.item = row \/ ChangeToCome \/ row # 0
  BY <1>1, <1>3, <1>7 DEF IndexInv, CalmInv, SI!Busy
<1>9. obj \in [Procs -> SI!Versions \cup {SI!Unknown}] /\ perms \in [Procs -> SI!Versions \cup {SI!Unknown}]
  BY DEF IndexInv, SI!TypeOK
<1>10. CASE answer = 0
  BY <1>1, <1>4, <1>5, <1>6, <1>7, <1>8, <1>9, <1>10, JobKeeps
  DEF Reindexing, SI!Labels, SI!Unknown
<1>11. CASE answer # 0
  BY <1>1, <1>4, <1>5, <1>6, <1>7, <1>8, <1>9, <1>11, JobKeeps
  DEF Reindexing, SI!Labels, SI!Unknown
<1> QED
  BY <1>10, <1>11

\* Nor are permissions missing but of an item that has been deleted.
LEMMA LoadPermsKeeps ==
  ASSUME IndexInv, NEW p \in Procs, SI!LoadPerms(p)
  PROVE  IndexInv'
<1> DEFINE answer == SI!Answer(p, "perms")
<1>1. /\ UNCHANGED <<pod, row, saves, events, index, doc, alone, overlapped>>
      /\ pc[p] = "perms" /\ SI!Load(p, "perms")
      /\ \/ /\ answer = 0 /\ pc' = [pc EXCEPT ![p] = "idle"]
            /\ obj' = [obj EXCEPT ![p] = SI!Unknown]
            /\ perms' = [perms EXCEPT ![p] = SI!Unknown]
         \/ /\ answer # 0 /\ pc' = [pc EXCEPT ![p] = "write"]
            /\ perms' = [perms EXCEPT ![p] = answer] /\ obj' = obj
  BY DEF SI!LoadPerms, SI!End, SI!Goto, SI!Forget, SI!rows, SI!elastic, SI!history
<1>2. /\ answer \in SI!Versions
      /\ loaded' \in [Pods -> [{"item", "perms"} -> SI!Versions \cup {SI!Unknown}]]
      /\ \A d \in Pods, k \in {"item", "perms"} :
             loaded'[d][k] = IF d = pod[p] /\ k = "perms" THEN answer ELSE loaded[d][k]
  BY <1>1, LoaderAnswers
<1>3. /\ answer = IF loaded[pod[p]]["perms"] = SI!Unknown THEN row ELSE loaded[pod[p]]["perms"]
      /\ pod[p] \in Pods
  BY DEF SI!Answer, IndexInv, SI!TypeOK
<1> HIDE DEF answer
<1>4. /\ answer \in Nat /\ obj[p] > 0 /\ saves > 0
      /\ answer = 0 => row = 0
  BY <1>1, <1>2, <1>3, JobsAssumption DEF IndexInv, LoadedInv, ReadInv, SI!Versions
<1>5. SI!TypeOK'
  <2>1. /\ obj' \in [Procs -> SI!Versions \cup {SI!Unknown}]
        /\ perms' \in [Procs -> SI!Versions \cup {SI!Unknown}]
    <3>1. /\ obj \in [Procs -> SI!Versions \cup {SI!Unknown}]
          /\ perms \in [Procs -> SI!Versions \cup {SI!Unknown}]
      BY DEF IndexInv, SI!TypeOK
    <3> QED
      BY <1>1, <1>2, <3>1
  <2>2. pc' \in [Procs -> SI!Labels]
    BY <1>1 DEF IndexInv, SI!TypeOK, SI!Labels
  <2> QED
    BY <1>1, <1>2, <2>1, <2>2 DEF IndexInv, SI!TypeOK
<1>6. LoadedInv'
  BY <1>1, <1>2, <1>4 DEF IndexInv, LoadedInv
<1>7. p \notin alone /\ p \in SI!Busy
  BY <1>1 DEF IndexInv, ReindexInv, Reindexing, SI!Busy
<1>8. ~overlapped => /\ obj[p] = row \/ ChangeToCome
                     /\ doc.item = row \/ ChangeToCome \/ row # 0
  BY <1>1, <1>7 DEF IndexInv, CalmInv, SI!Busy
<1>9. obj \in [Procs -> SI!Versions \cup {SI!Unknown}] /\ perms \in [Procs -> SI!Versions \cup {SI!Unknown}]
  BY DEF IndexInv, SI!TypeOK
<1>10. CASE answer = 0
  BY <1>1, <1>4, <1>5, <1>6, <1>7, <1>8, <1>9, <1>10, JobKeeps
  DEF Reindexing, SI!Labels, SI!Unknown
<1>11. CASE answer # 0
  BY <1>1, <1>4, <1>5, <1>6, <1>7, <1>8, <1>9, <1>11, JobKeeps
  DEF Reindexing, SI!Labels, SI!Unknown
<1> QED
  BY <1>10, <1>11

\* The document is written, or deleted.
LEMMA WriteKeeps ==
  ASSUME IndexInv, NEW p \in Procs, SI!Write(p) \/ SI!Delete(p)
  PROVE  IndexInv'
<1>1. /\ UNCHANGED <<pod, row, saves, events, loaded, alone, overlapped>>
      /\ pc[p] \in {"write", "delete"} /\ pc' = [pc EXCEPT ![p] = "idle"]
      /\ obj' = [obj EXCEPT ![p] = SI!Unknown]
      /\ perms' = [perms EXCEPT ![p] = SI!Unknown]
      /\ index' \in {TRUE, index}
      /\ \/ pc[p] = "write" /\ doc' = [item |-> obj[p], perms |-> perms[p]]
         \/ pc[p] = "delete" /\ doc' = SI!NoDoc
  BY DEF SI!Write, SI!Delete, SI!End, SI!Goto, SI!Forget, SI!rows, SI!history
<1>2. doc' \in [item : SI!Versions, perms : SI!Versions]
  BY <1>1, IndexNumbers, JobsAssumption DEF IndexInv, ReadInv, SI!Versions, SI!NoDoc
<1>3. SI!TypeOK'
  BY <1>1, <1>2 DEF IndexInv, SI!TypeOK, SI!Labels
<1>4. LoadedInv'
  BY <1>1 DEF IndexInv, LoadedInv
<1>5. p \notin alone /\ p \in SI!Busy
  BY <1>1 DEF IndexInv, ReindexInv, Reindexing, SI!Busy
<1>6. ~overlapped => doc'.item = row \/ ChangeToCome
  BY <1>1 DEF IndexInv, CalmInv, RowInv, SI!NoDoc
<1>7. /\ obj'[p] = SI!Unknown /\ "idle" \in SI!Labels
      /\ \A q \in Procs \ {p} : obj'[q] = obj[q] /\ perms'[q] = perms[q]
  BY <1>1 DEF IndexInv, SI!TypeOK, SI!Labels
<1>8. pc[p] # "idle" /\ alone' = alone /\ ~(obj'[p] > 0)
  BY <1>1, <1>7 DEF SI!Unknown
<1> QED
  BY <1>1, <1>3, <1>4, <1>5, <1>6, <1>7, <1>8, JobKeeps DEF Reindexing

\* A reindex drops the index, so that nothing is in it,
LEMMA DropKeeps ==
  ASSUME IndexInv, NEW p \in Procs, SI!Drop(p)
  PROVE  IndexInv'
<1>1. /\ UNCHANGED <<pod, row, saves, events, loaded, obj, perms, alone, overlapped>>
      /\ pc[p] = "drop" /\ pc' = [pc EXCEPT ![p] = "create"]
      /\ ~index' /\ index' \in BOOLEAN /\ doc' = SI!NoDoc
  BY DEF SI!Drop, SI!Goto, SI!rows, SI!caches, SI!history
<1>2. 0 \in SI!Versions /\ "create" \in SI!Labels
  BY JobsAssumption DEF SI!Versions, SI!Labels
<1>3. SI!TypeOK'
  BY <1>1, <1>2 DEF IndexInv, SI!TypeOK, SI!NoDoc
<1>4. LoadedInv'
  BY <1>1 DEF IndexInv, LoadedInv
<1>5. ~overlapped => /\ p \in alone
                     /\ doc'.item = row \/ row # 0
  BY <1>1, IndexNumbers DEF IndexInv, CalmInv, Reindexing, SI!NoDoc
<1>6. obj'[p] > 0 => saves > 0
  BY <1>1 DEF IndexInv, ReadInv
<1> QED
  BY <1>1, <1>2, <1>3, <1>4, <1>5, <1>6, JobKeeps DEF Reindexing

\* creates it, unless somebody else has meanwhile,
LEMMA CreateKeeps ==
  ASSUME IndexInv, NEW p \in Procs, SI!Create(p)
  PROVE  IndexInv'
<1>1. /\ UNCHANGED <<pod, row, saves, events, doc, loaded, alone, overlapped>>
      /\ pc[p] = "create" /\ index' = TRUE
      /\ \/ /\ index /\ pc' = [pc EXCEPT ![p] = "idle"]
            /\ obj' = [obj EXCEPT ![p] = SI!Unknown]
            /\ perms' = [perms EXCEPT ![p] = SI!Unknown]
         \/ /\ ~index /\ pc' = [pc EXCEPT ![p] = "list"]
            /\ obj' = obj /\ perms' = perms
  BY DEF SI!Create, SI!End, SI!Goto, SI!Forget, SI!rows, SI!history
<1>2. /\ obj \in [Procs -> SI!Versions \cup {SI!Unknown}]
      /\ perms \in [Procs -> SI!Versions \cup {SI!Unknown}]
      /\ pc \in [Procs -> SI!Labels]
      /\ "idle" \in SI!Labels /\ "list" \in SI!Labels
  BY DEF IndexInv, SI!TypeOK, SI!Labels
<1>3. SI!TypeOK'
  <2>1. /\ pc' \in [Procs -> SI!Labels]
        /\ obj' \in [Procs -> SI!Versions \cup {SI!Unknown}]
        /\ perms' \in [Procs -> SI!Versions \cup {SI!Unknown}]
    BY <1>1, <1>2
  <2> QED
    BY <1>1, <2>1 DEF IndexInv, SI!TypeOK
<1>4. LoadedInv'
  BY <1>1 DEF IndexInv, LoadedInv
<1>5. /\ p \in alone => ~index /\ doc = SI!NoDoc
      /\ ~overlapped => p \in alone
      /\ obj[p] > 0 => saves > 0
  BY <1>1 DEF IndexInv, ReindexInv, CalmInv, ReadInv, Reindexing
<1>6. SI!NoDoc.item = 0 /\ ~(SI!Unknown > 0) /\ row \in Nat
  BY IndexNumbers DEF SI!NoDoc, SI!Unknown, IndexInv
<1>7. CASE index
  BY <1>1, <1>2, <1>3, <1>4, <1>5, <1>6, <1>7, JobKeeps
<1>8. CASE ~index
  BY <1>1, <1>2, <1>3, <1>4, <1>5, <1>6, <1>8, JobKeeps DEF Reindexing
<1> QED
  BY <1>7, <1>8

\* lists the items,
LEMMA ListKeeps ==
  ASSUME IndexInv, NEW p \in Procs, SI!List(p)
  PROVE  IndexInv'
<1>1. /\ UNCHANGED <<pod, row, saves, events, index, doc, loaded, perms, alone, overlapped>>
      /\ pc[p] = "list" /\ pc' = [pc EXCEPT ![p] = "prime"]
      /\ obj' = [obj EXCEPT ![p] = row]
  BY DEF SI!List, SI!Goto, SI!rows, SI!elastic, SI!history
<1>2. /\ obj \in [Procs -> SI!Versions \cup {SI!Unknown}] /\ row \in SI!Versions
      /\ pc \in [Procs -> SI!Labels] /\ "prime" \in SI!Labels
  BY DEF IndexInv, SI!TypeOK, SI!Labels
<1>3. SI!TypeOK'
  BY <1>1, <1>2 DEF IndexInv, SI!TypeOK
<1>4. LoadedInv'
  BY <1>1 DEF IndexInv, LoadedInv
<1>5. /\ p \in alone => doc = SI!NoDoc
      /\ ~overlapped => p \in alone
      /\ row \in Nat /\ (row > 0 => saves > 0) /\ SI!NoDoc.item = 0
  BY <1>1, IndexNumbers DEF IndexInv, ReindexInv, RowInv, CalmInv, Reindexing, SI!NoDoc
<1>6. obj'[p] = row /\ \A q \in Procs \ {p} : obj'[q] = obj[q]
  BY <1>1, <1>2
<1>7. ~overlapped => doc'.item = row \/ row # 0
  BY <1>1, <1>5
<1>8. pc[p] # "idle" /\ row >= 0 /\ alone' = alone
  BY <1>1, <1>5
<1> QED
  BY <1>1, <1>2, <1>3, <1>4, <1>5, <1>6, <1>7, <1>8, JobKeeps DEF Reindexing

\* and primes the loaders with what it has listed.
LEMMA PrimeKeeps ==
  ASSUME IndexInv, NEW p \in Procs, SI!Prime(p)
  PROVE  IndexInv'
<1> DEFINE answer == SI!Answer(p, "perms")
           item == loaded[pod[p]]["item"]
<1>1. /\ UNCHANGED <<pod, row, saves, events, index, doc, obj, perms, alone, overlapped>>
      /\ pc[p] = "prime" /\ pc' = [pc EXCEPT ![p] = "put"]
      /\ \/ loaded' = loaded
         \/ /\ obj[p] # 0
            /\ loaded' = [loaded EXCEPT ![pod[p]] =
                              [perms |-> answer,
                               item |-> IF item = SI!Unknown THEN obj[p] ELSE item]]
  BY DEF SI!Prime, SI!Goto, SI!rows, SI!elastic, SI!history
<1>2. /\ loaded \in [Pods -> [{"item", "perms"} -> SI!Versions \cup {SI!Unknown}]]
      /\ obj \in [Procs -> SI!Versions \cup {SI!Unknown}] /\ row \in SI!Versions
      /\ pod[p] \in Pods /\ pc \in [Procs -> SI!Labels] /\ "put" \in SI!Labels
  BY DEF IndexInv, SI!TypeOK, SI!Labels
<1>3. /\ answer \in SI!Versions
      /\ answer = IF loaded[pod[p]]["perms"] = SI!Unknown THEN row ELSE loaded[pod[p]]["perms"]
  BY <1>2 DEF SI!Answer
<1>4. obj[p] >= 0 /\ (obj[p] > 0 => saves > 0)
  BY <1>1 DEF IndexInv, ReadInv
<1> HIDE DEF answer, item
<1>5. /\ loaded' \in [Pods -> [{"item", "perms"} -> SI!Versions \cup {SI!Unknown}]]
      /\ \A d \in Pods : \/ loaded'[d] = loaded[d]
                         \/ /\ d = pod[p] /\ obj[p] # 0
                            /\ loaded'[d]["perms"] = answer
                            /\ loaded'[d]["item"] \in {obj[p], loaded[d]["item"]}
  BY <1>1, <1>2, <1>3 DEF item
<1>6. SI!TypeOK'
  BY <1>1, <1>2, <1>5 DEF IndexInv, SI!TypeOK
<1>7. LoadedInv'
  <2>1. obj[p] # 0 => saves > 0
    BY <1>2, <1>4, IndexNumbers DEF IndexInv
  <2>2. answer = 0 => row = 0
    BY <1>2, <1>3 DEF IndexInv, LoadedInv
  <2> QED
    BY <1>1, <1>5, <2>1, <2>2 DEF IndexInv, LoadedInv
<1>8. /\ p \in alone => doc = SI!NoDoc /\ (obj[p] = row \/ ChangeToCome)
      /\ ~overlapped => p \in alone
      /\ row \in Nat /\ SI!NoDoc.item = 0
  BY <1>1, IndexNumbers DEF IndexInv, ReindexInv, CalmInv, Reindexing, SI!NoDoc
<1>9. pc[p] # "idle" /\ alone' = alone
  BY <1>1
<1> QED
  BY <1>1, <1>2, <1>4, <1>6, <1>7, <1>8, <1>9, JobKeeps DEF Reindexing

\* When a reindex ends that nothing has overlapped, all is well again.
LEMMA PutKeeps ==
  ASSUME IndexInv, NEW p \in Procs, SI!Put(p)
  PROVE  IndexInv'
<1>1. /\ UNCHANGED <<pod, row, saves, events>>
      /\ pc[p] = "put" /\ pc' = [pc EXCEPT ![p] = "idle"]
      /\ obj' = [obj EXCEPT ![p] = SI!Unknown]
      /\ perms' = [perms EXCEPT ![p] = SI!Unknown]
      /\ alone' = alone \ {p} /\ overlapped' = (overlapped /\ p \notin alone)
  BY DEF SI!Put, SI!End, SI!Goto, SI!Forget, SI!rows
<1>2. /\ SI!TypeOK /\ pc \in [Procs -> SI!Labels] /\ p \in SI!Busy
      /\ obj[p] \in SI!Versions \cup {SI!Unknown} /\ obj[p] >= 0
  BY <1>1 DEF IndexInv, SI!TypeOK, SI!Busy, ReadInv
<1>3. /\ loaded' \in [Pods -> [{"item", "perms"} -> SI!Versions \cup {SI!Unknown}]]
      /\ LoadedInv'
  <2>1. CASE obj[p] = 0
    BY <1>1, <1>2, <2>1 DEF SI!Put, IndexInv, SI!TypeOK, LoadedInv
  <2>2. CASE obj[p] # 0
    <3>1. SI!Load(p, "perms") /\ saves > 0
      BY <1>1, <1>2, <2>2, IndexNumbers DEF SI!Put, IndexInv, ReadInv
    <3>2. SI!Answer(p, "perms") = 0 => row = 0
      BY <1>2 DEF SI!Answer, IndexInv, LoadedInv, SI!TypeOK
    <3> QED
      BY <1>1, <3>1, <3>2, LoaderAnswers DEF IndexInv, LoadedInv
  <2> QED
    BY <2>1, <2>2
<1>4. /\ index' \in BOOLEAN /\ doc' \in [item : SI!Versions, perms : SI!Versions]
      /\ obj[p] = 0 => doc' = doc
      /\ obj[p] # 0 => doc'.item = obj[p]
  <2>1. CASE obj[p] = 0
    BY <1>2, <2>1 DEF SI!Put, SI!elastic, SI!TypeOK
  <2>2. CASE obj[p] # 0
    <3>1. /\ SI!Answer(p, "perms") \in SI!Versions /\ obj[p] \in SI!Versions
          /\ index' = TRUE /\ doc' = [item |-> obj[p], perms |-> SI!Answer(p, "perms")]
      BY <1>2, <2>2, LoaderAnswers, JobsAssumption DEF SI!Put, SI!Versions, SI!Unknown
    <3> QED
      BY <2>2, <3>1
  <2> QED
    BY <2>1, <2>2
<1>5. SI!TypeOK'
  <2>1. /\ obj' \in [Procs -> SI!Versions \cup {SI!Unknown}]
        /\ perms' \in [Procs -> SI!Versions \cup {SI!Unknown}]
        /\ pc' \in [Procs -> SI!Labels]
    BY <1>1, <1>2 DEF SI!TypeOK, SI!Labels
  <2>2. alone' \in SUBSET Procs /\ overlapped' \in BOOLEAN
    BY <1>1, <1>2 DEF SI!TypeOK
  <2> QED
    BY <1>1, <1>2, <1>3, <1>4, <2>1, <2>2 DEF SI!TypeOK
<1>6. RowInv' /\ ReadInv'
  BY <1>1, <1>2 DEF IndexInv, SI!TypeOK, RowInv, ReadInv, SI!Unknown
<1>7. ReindexInv'
  BY <1>1, <1>2 DEF IndexInv, ReindexInv
<1>8. CalmInv'
  <2> SUFFICES ASSUME ~overlapped' PROVE CalmInv'
    BY DEF CalmInv
  <2>1. p \in alone
    BY <1>1, <1>2 DEF IndexInv, CalmInv, Reindexing
  <2>2. /\ SI!Busy = {p} /\ doc = SI!NoDoc
        /\ obj[p] = row \/ ChangeToCome
    BY <1>1, <2>1 DEF IndexInv, ReindexInv
  <2>3. doc'.item = row \/ ChangeToCome
    BY <1>4, <2>2 DEF SI!NoDoc
  <2>4. \A q \in Procs : pc'[q] = "idle"
    BY <1>1, <1>2, <2>2 DEF SI!Busy
  <2> QED
    BY <1>1, <2>3, <2>4 DEF CalmInv, ChangeToCome, SI!Busy, Reindexing
<1> QED
  BY <1>3, <1>5, <1>6, <1>7, <1>8 DEF IndexInv

LEMMA IndexStep == IndexInv /\ [SI!Next]_(SI!vars) => IndexInv'
<1> SUFFICES ASSUME IndexInv, [SI!Next]_(SI!vars) PROVE IndexInv'
  OBVIOUS
<1>1. CASE UNCHANGED SI!vars
  BY <1>1
  DEF SI!vars, SI!rows, SI!elastic, SI!caches, SI!history, IndexInv, SI!TypeOK, RowInv, ReadInv,
      LoadedInv, ReindexInv, CalmInv, SI!Busy, ChangeToCome
<1>2. CASE SI!Edit
  BY <1>2, EditKeeps
<1>3. ASSUME NEW p \in Procs,
             SI!Deliver(p) \/ SI!Reindex(p) \/ SI!Proceed(p) \/ SI!Fail(p)
      PROVE  IndexInv'
  <2>1. CASE SI!Deliver(p) \/ SI!Reindex(p)
    BY <2>1, BeginKeeps
  <2>2. CASE SI!Fail(p)
    BY <2>2, FailKeeps
  <2>3. CASE SI!Proceed(p)
    BY <2>3, ClearKeeps, LoadItemKeeps, LoadPermsKeeps, WriteKeeps, DropKeeps, CreateKeeps,
       ListKeeps, PrimeKeeps, PutKeeps
    DEF SI!Proceed
  <2> QED
    BY <1>3, <2>1, <2>2, <2>3
<1>4. ASSUME NEW d \in Pods,
             SI!Warm(d) \/ \E l \in {"item", "perms"} : SI!Expire(d, l)
      PROVE  IndexInv'
  BY <1>4, LoaderKeeps
<1> QED
  BY <1>1, <1>2, <1>3, <1>4 DEF SI!Next

\* In a behaviour about the index, which the job server's step is then of.
IndexBehaviourInv == kind = "index" => IndexInv

LEMMA IndexOfServer ==
  /\ Init => IndexBehaviourInv
  /\ IndexBehaviourInv /\ [Next]_vars => IndexBehaviourInv'
<1>1. Init => IndexBehaviourInv
  BY IndexInit DEF Init, IndexBehaviourInv
<1>2. ASSUME IndexBehaviourInv, [Next]_vars, kind' = "index" PROVE IndexInv'
  <2>1. kind = "index" /\ [SI!Next]_(SI!vars)
    BY <1>2
    DEF Next, OfCopy, OfIndex, OfChapters, OfTranslations, vars, indexVars,
        SI!vars, SI!rows, SI!elastic, SI!caches, SI!history
  <2> QED
    BY <1>2, <2>1, IndexStep DEF IndexBehaviourInv
<1> QED
  BY <1>1, <1>2 DEF IndexBehaviourInv

\* When all messages have been handled the index holds what the row holds, in
\* whatever order they came and whatever was cached, unless jobs overlapped or
\* failed since a reindex that nothing overlapped.
THEOREM IndexIsOfTheRow == Spec => []IndexFollowsRow
<1>1. IndexBehaviourInv => IndexFollowsRow
  <2> SUFFICES ASSUME IndexInv, SI!Quiet PROVE doc.item = row
    BY DEF IndexBehaviourInv, IndexFollowsRow, SI!IndexFollowsRow
  <2>1. events["save"] = 0 /\ events["delete"] = 0 /\ ~overlapped /\ SI!Busy = {}
    BY DEF SI!Quiet
  <2> QED
    BY <2>1 DEF IndexInv, CalmInv, ChangeToCome
<1> QED
  BY <1>1, IndexOfServer, PTL DEF Spec
-----------------------------------------------------------------------------
(* Chapters.  A run inserts each chapter for each asset at most once, under *)
(* the mutex of the run; the rows of a run that nothing overlaps are those  *)
(* that it has inserted.                                                    *)

\* The mutex is held, for a chapter of the file whose type is known.
Inserting == {"find", "person", "insert"}

GoroutineInv ==
    \A p \in Procs, c \in Chapters :
        /\ at[p][c] # "none" => pc[p] = "ingest" /\ c \in file[p]
        /\ at[p][c] \in Inserting => insertLock[p] = c /\ c \in Known

\* The runs that may yet insert a row for chapter c of asset v, or have cleared
\* the asset for that, and those that are about to insert the person.
Pending(v, c) == {p \in Procs : \/ pc[p] = "clear" /\ v \notin todo[p]
                                \/ pc[p] = "ingest" /\ v \in left[p][c]}
Entering == {p \in Procs : ~found[p] /\ \E c \in Chapters : at[p][c] = "person"}

\* There are as many rows as there are other runs, at most.
RowsCounted(v, c) == rows[v][c] <= Cardinality(Procs \ Pending(v, c))
CountInv == /\ \A v \in Assets, c \in Chapters : RowsCounted(v, c)
            /\ persons + Cardinality(Entering) <= Cardinality(Procs)

\* As long as one run came after another the person is inserted once.
PersonInv ==
    ~shared => /\ \A p, q \in TM!Busy : p = q
               /\ persons <= 1
               /\ \A p \in Procs, c \in Chapters :
                      at[p][c] = "person" => (found[p] <=> persons > 0)

\* What run p has made of the rows, if it is the only one.
RowsAreOf(p) ==
    /\ pc[p] = "clear" => \A v \in Assets \ todo[p], c \in Chapters : rows[v][c] = 0
    /\ pc[p] = "ingest" =>
           \A c \in Chapters :
               /\ at[p][c] # "failed" =>
                      \A v \in Assets :
                          rows[v][c] = IF c \in file[p] /\ v \notin left[p][c] THEN 1 ELSE 0
               /\ at[p][c] = "none" /\ c \in Known => left[p][c] = {}
               /\ c \in file[p] /\ c \notin Known => left[p][c] = Assets
AloneRunInv == \A p \in alone : TM!Busy = {p} /\ RowsAreOf(p)

WholeInv == whole # {} =>
                /\ TM!Busy = {}
                /\ \A v \in Assets, c \in Chapters :
                       rows[v][c] = IF c \in whole \cap Known THEN 1 ELSE 0

ChaptersInv == /\ TM!TypeOK
               /\ GoroutineInv /\ CountInv /\ PersonInv
               /\ AloneRunInv /\ WholeInv

\* Cardinality is the same there as here.
LEMMA SameCount == TM!Cardinality(Procs) = Cardinality(Procs)
  BY DEF TM!Cardinality, Cardinality

LEMMA ChaptersInit == TM!Init => ChaptersInv
<1> SUFFICES ASSUME TM!Init PROVE ChaptersInv
  OBVIOUS
<1>1. Cardinality(Procs) \in Nat
  BY JobsAssumption, FS_CardinalityType
<1>2. TM!TypeOK
  <2>1. 0 \in 0..Cardinality(Procs)
    BY <1>1
  <2>2. rows \in [Assets -> [Chapters -> 0..Cardinality(Procs)]]
    BY <2>1 DEF TM!Init, TM!StateInit
  <2>3. at \in [Procs -> [Chapters -> TM!Steps]]
    BY DEF TM!Init, TM!StateInit, TM!Steps
  <2>4. left \in [Procs -> [Chapters -> SUBSET Assets]]
    BY DEF TM!Init, TM!StateInit
  <2> QED
    BY SameCount, <2>1, <2>2, <2>3, <2>4 DEF TM!Init, TM!StateInit, TM!TypeOK, TM!Labels
<1>3. CountInv
  <2>1. \A v \in Assets, c \in Chapters : Pending(v, c) = {} /\ rows[v][c] = 0
    BY DEF TM!Init, TM!StateInit, Pending
  <2>2. Entering = {} /\ persons = 0
    BY DEF TM!Init, TM!StateInit, Entering
  <2>3. ASSUME NEW v \in Assets, NEW c \in Chapters PROVE RowsCounted(v, c)
    <3>1. Procs \ Pending(v, c) = Procs
      BY <2>1
    <3> QED
      BY <1>1, <2>1, <3>1 DEF RowsCounted
  <2>4. persons + Cardinality(Entering) <= Cardinality(Procs)
    BY <1>1, <2>2, FS_EmptySet
  <2> QED
    BY <2>3, <2>4 DEF CountInv
<1>4. GoroutineInv /\ PersonInv /\ AloneRunInv /\ WholeInv
  BY DEF TM!Init, TM!StateInit, TM!Busy, GoroutineInv, Inserting, PersonInv, AloneRunInv, WholeInv
<1> QED
  BY <1>2, <1>3, <1>4 DEF ChaptersInv

\* Of finitely many runs.
LEMMA RunsCounted ==
  ASSUME NEW S \in SUBSET Procs
  PROVE  /\ Cardinality(S) \in Nat /\ Cardinality(Procs \ S) \in Nat /\ Cardinality(Procs) \in Nat
         /\ Cardinality(S) <= Cardinality(Procs)
         /\ Cardinality(Procs \ S) <= Cardinality(Procs)
  BY JobsAssumption, FS_Subset, FS_CardinalityType

LEMMA FewerRuns ==
  ASSUME NEW S \in SUBSET Procs, NEW T \in SUBSET S
  PROVE  /\ Cardinality(T) <= Cardinality(S)
         /\ Cardinality(Procs \ S) <= Cardinality(Procs \ T)
         /\ \A p \in S \ T : /\ Cardinality(Procs \ S) + 1 <= Cardinality(Procs \ T)
                             /\ Cardinality(T) + 1 <= Cardinality(S)
<1>1. /\ IsFiniteSet(S) /\ IsFiniteSet(T)
      /\ IsFiniteSet(Procs \ S) /\ IsFiniteSet(Procs \ T)
  BY JobsAssumption, FS_Subset
<1>2. Procs \ S \subseteq Procs \ T
  OBVIOUS
<1>3. ASSUME NEW p \in S \ T
      PROVE  /\ Cardinality(Procs \ S) + 1 <= Cardinality(Procs \ T)
             /\ Cardinality(T) + 1 <= Cardinality(S)
  <2>1. /\ Cardinality((Procs \ S) \cup {p}) = Cardinality(Procs \ S) + 1
        /\ Cardinality(T \cup {p}) = Cardinality(T) + 1
    BY <1>1, <1>3, FS_AddElement
  <2>2. (Procs \ S) \cup {p} \subseteq Procs \ T /\ T \cup {p} \subseteq S
    BY <1>3
  <2>3. /\ Cardinality((Procs \ S) \cup {p}) <= Cardinality(Procs \ T)
        /\ Cardinality(T \cup {p}) <= Cardinality(S)
    BY <1>1, <2>2, FS_Subset
  <2> QED
    BY <2>1, <2>3
<1> QED
  BY <1>1, <1>2, <1>3, FS_Subset

\* A step of run p, and what it has to see to: the others stay as they are,
\* its goroutines are where they may be, what is inserted has been left to
\* insert, and alone it is on its own.
StepTyped == /\ todo' \in [Procs -> SUBSET Assets]
             /\ at' \in [Procs -> [Chapters -> TM!Steps]]
             /\ left' \in [Procs -> [Chapters -> SUBSET Assets]]
             /\ found' \in [Procs -> BOOLEAN]
             /\ insertLock' \in [Procs -> Chapters \cup {NoChapter}]
             /\ rows' \in [Assets -> [Chapters -> Nat]]
             /\ persons' \in Nat

OthersStay(p) == \A q \in Procs \ {p} :
                     /\ todo'[q] = todo[q] /\ at'[q] = at[q] /\ left'[q] = left[q]
                     /\ found'[q] = found[q] /\ insertLock'[q] = insertLock[q]

GoroutinesOf(p) == \A c \in Chapters :
                       /\ at[p][c] # "none" => pc[p] = "ingest" /\ c \in file[p]
                       /\ at[p][c] \in Inserting => insertLock[p] = c /\ c \in Known

RowAccounted(p, v, c) ==
    \/ rows'[v][c] = 0
    \/ rows'[v][c] = rows[v][c] /\ (p \in Pending(v, c)' => p \in Pending(v, c))
    \/ /\ rows'[v][c] = rows[v][c] + 1
       /\ p \in Pending(v, c) /\ p \notin Pending(v, c)'

PersonAccounted(p) ==
    \/ persons' = persons /\ (p \in Entering' => p \in Entering \/ persons = 0)
    \/ persons' = persons + 1 /\ p \in Entering /\ p \notin Entering'

PersonsOf(p) == /\ persons <= 1
                /\ \A c \in Chapters : at[p][c] = "person" => (found[p] <=> persons > 0)

LEMMA RowCounted ==
  ASSUME TM!TypeOK, CountInv, NEW p \in Procs, \A q \in Procs \ {p} : pc'[q] = pc[q],
         OthersStay(p), NEW v \in Assets, NEW c \in Chapters, rows'[v][c] \in Nat,
         RowAccounted(p, v, c)
  PROVE  RowsCounted(v, c)' /\ rows'[v][c] \in 0..Cardinality(Procs)
<1> DEFINE S == Pending(v, c)
           T == Pending(v, c)'
<1>1. S \in SUBSET Procs /\ T \in SUBSET Procs
  BY DEF Pending
<1>2. \A q \in Procs \ {p} : q \in T <=> q \in S
  BY DEF Pending, OthersStay
<1>3. rows[v][c] \in 0..Cardinality(Procs) /\ rows[v][c] <= Cardinality(Procs \ S)
  <2>1. rows \in [Assets -> [Chapters -> 0..Cardinality(Procs)]]
    BY SameCount DEF TM!TypeOK
  <2>2. RowsCounted(v, c)
    BY DEF CountInv
  <2> QED
    BY <2>1, <2>2 DEF RowsCounted
<1>4. \/ rows'[v][c] = 0
      \/ rows'[v][c] = rows[v][c] /\ (p \in T => p \in S)
      \/ rows'[v][c] = rows[v][c] + 1 /\ p \in S /\ p \notin T
  BY DEF RowAccounted
<1> HIDE DEF S, T
<1>5. /\ Cardinality(Procs) \in Nat /\ Cardinality(Procs \ S) \in Nat
      /\ Cardinality(Procs \ T) \in Nat /\ Cardinality(Procs \ T) <= Cardinality(Procs)
  BY <1>1, RunsCounted
<1>6. rows'[v][c] <= Cardinality(Procs \ T)
  <2>1. CASE rows'[v][c] = 0
    BY <1>5, <2>1
  <2>2. CASE rows'[v][c] = rows[v][c] /\ (p \in T => p \in S)
    <3>1. T \in SUBSET S
      BY <1>1, <1>2, <2>2
    <3>2. Cardinality(Procs \ S) <= Cardinality(Procs \ T)
      BY <1>1, <3>1, FewerRuns
    <3> QED
      BY <1>3, <1>5, <2>2, <3>2
  <2>3. CASE rows'[v][c] = rows[v][c] + 1 /\ p \in S /\ p \notin T
    <3>1. T \in SUBSET S /\ p \in S \ T
      BY <1>1, <1>2, <2>3
    <3>2. Cardinality(Procs \ S) + 1 <= Cardinality(Procs \ T)
      BY <1>1, <3>1, FewerRuns
    <3> QED
      BY <1>3, <1>5, <2>3, <3>2
  <2> QED
    BY <1>4, <2>1, <2>2, <2>3
<1> QED
  BY <1>5, <1>6 DEF RowsCounted, T

LEMMA PersonCounted ==
  ASSUME TM!TypeOK, CountInv, NEW p \in Procs, OthersStay(p), persons' \in Nat,
         PersonAccounted(p)
  PROVE  persons' + Cardinality(Entering') <= Cardinality(Procs) /\ persons' \in 0..Cardinality(Procs)
<1> DEFINE S == Entering
           T == Entering'
<1>1. S \in SUBSET Procs /\ T \in SUBSET Procs
  BY DEF Entering
<1>2. \A q \in Procs \ {p} : q \in T <=> q \in S
  BY DEF Entering, OthersStay
<1>3. persons \in 0..Cardinality(Procs) /\ persons + Cardinality(S) <= Cardinality(Procs)
  <2>1. persons \in 0..Cardinality(Procs)
    BY SameCount DEF TM!TypeOK
  <2> QED
    BY <2>1 DEF CountInv
<1>4. \/ persons' = persons /\ (p \in T => p \in S \/ persons = 0)
      \/ persons' = persons + 1 /\ p \in S /\ p \notin T
  BY DEF PersonAccounted
<1> HIDE DEF S, T
<1>5. /\ Cardinality(S) \in Nat /\ Cardinality(Procs) \in Nat
      /\ Cardinality(T) \in Nat /\ Cardinality(T) <= Cardinality(Procs)
  BY <1>1, RunsCounted
<1>6. persons' + Cardinality(T) <= Cardinality(Procs)
  <2>1. CASE persons' = persons /\ (p \in T => p \in S)
    <3>1. T \in SUBSET S
      BY <1>1, <1>2, <2>1
    <3>2. Cardinality(T) <= Cardinality(S)
      BY <1>1, <3>1, FewerRuns
    <3> QED
      BY <1>3, <1>5, <2>1, <3>2
  <2>2. CASE persons' = persons /\ persons = 0
    BY <1>5, <2>2
  <2>3. CASE persons' = persons + 1 /\ p \in S /\ p \notin T
    <3>1. T \in SUBSET S /\ p \in S \ T
      BY <1>1, <1>2, <2>3
    <3>2. Cardinality(T) + 1 <= Cardinality(S)
      BY <1>1, <3>1, FewerRuns
    <3> QED
      BY <1>3, <1>5, <2>3, <3>2
  <2> QED
    BY <1>4, <2>1, <2>2, <2>3
<1> QED
  BY <1>5, <1>6 DEF T

LEMMA RunKeeps ==
  ASSUME ChaptersInv, NEW p \in Procs, NEW label \in {"clear", "ingest"},
         pc[p] # "idle", pc' = [pc EXCEPT ![p] = label],
         UNCHANGED <<file, alone, whole, shared>>,
         StepTyped, OthersStay(p), GoroutinesOf(p)',
         \A v \in Assets, c \in Chapters : RowAccounted(p, v, c),
         PersonAccounted(p),
         ~shared => PersonsOf(p)',
         p \in alone => RowsAreOf(p)'
  PROVE  ChaptersInv'
<1>1. /\ TM!TypeOK /\ pc \in [Procs -> TM!Labels]
      /\ p \in TM!Busy
      /\ \A q \in Procs \ {p} : pc'[q] = pc[q]
      /\ pc'[p] = label
  BY DEF ChaptersInv, TM!TypeOK, TM!Busy
<1>2. TM!Busy' = TM!Busy
  BY <1>1 DEF TM!Busy
<1>3. \A v \in Assets, c \in Chapters : RowsCounted(v, c)' /\ rows'[v][c] \in 0..Cardinality(Procs)
  BY <1>1, RowCounted DEF ChaptersInv, StepTyped
<1>4. persons' + Cardinality(Entering') <= Cardinality(Procs) /\ persons' \in 0..Cardinality(Procs)
  BY <1>1, PersonCounted DEF ChaptersInv, StepTyped
<1>5. TM!TypeOK'
  <2>1. rows' \in [Assets -> [Chapters -> 0..Cardinality(Procs)]]
    BY <1>3 DEF StepTyped
  <2>2. pc' \in [Procs -> TM!Labels]
    BY <1>1 DEF TM!Labels
  <2>3. /\ file' \in [Procs -> SUBSET Chapters]
        /\ alone' \in SUBSET Procs /\ whole' \in SUBSET Chapters /\ shared' \in BOOLEAN
    BY <1>1 DEF TM!TypeOK
  <2> QED
    BY SameCount, <1>4, <2>1, <2>2, <2>3 DEF TM!TypeOK, StepTyped
<1>6. GoroutineInv'
  <2>1. \A q \in Procs \ {p}, c \in Chapters :
            /\ at'[q][c] # "none" => pc'[q] = "ingest" /\ c \in file'[q]
            /\ at'[q][c] \in Inserting => insertLock'[q] = c /\ c \in Known
    BY <1>1 DEF ChaptersInv, GoroutineInv, OthersStay
  <2> QED
    BY <2>1 DEF GoroutineInv, GoroutinesOf
<1>7. CountInv'
  BY <1>3, <1>4 DEF CountInv
<1>8. PersonInv'
  <2> SUFFICES ASSUME ~shared PROVE PersonInv'
    BY DEF PersonInv
  <2>1. \A q \in Procs \ {p} : pc[q] = "idle"
    BY <1>1 DEF ChaptersInv, PersonInv, TM!Busy
  <2>2. \A q \in Procs \ {p}, c \in Chapters : at'[q][c] = "none"
    BY <2>1 DEF ChaptersInv, GoroutineInv, OthersStay
  <2>3. PersonsOf(p)'
    OBVIOUS
  <2> QED
    BY <1>2, <2>2, <2>3 DEF ChaptersInv, PersonInv, PersonsOf
<1>9. AloneRunInv'
  <2>1. \A q \in alone : q = p
    BY <1>1 DEF ChaptersInv, AloneRunInv
  <2> QED
    BY <1>2, <2>1 DEF ChaptersInv, AloneRunInv
<1>10. WholeInv'
  BY <1>1 DEF ChaptersInv, WholeInv
<1> QED
  BY <1>5, <1>6, <1>7, <1>8, <1>9, <1>10 DEF ChaptersInv

\* A run begins; what was whole need not be any more.
LEMMA DeliverRunKeeps ==
  ASSUME ChaptersInv, NEW p \in Procs, TM!Deliver(p)
  PROVE  ChaptersInv'
<1>1. /\ pc[p] = "idle" /\ pc' = [pc EXCEPT ![p] = "read"]
      /\ UNCHANGED <<todo, at, left, found, insertLock, rows, persons>>
      /\ alone' = IF TM!Busy = {} THEN {p} ELSE {}
      /\ shared' = (shared \/ TM!Busy # {}) /\ whole' = {}
      /\ \E chapters \in SUBSET Chapters : file' = [file EXCEPT ![p] = chapters]
      /\ TM!TypeOK
  BY DEF TM!Deliver, TM!tables, ChaptersInv
<1>2. /\ pc \in [Procs -> TM!Labels]
      /\ file' \in [Procs -> SUBSET Chapters]
      /\ \A q \in Procs \ {p} : pc'[q] = pc[q] /\ file'[q] = file[q]
      /\ pc'[p] = "read"
  BY <1>1 DEF TM!TypeOK
<1>3. TM!Busy' = TM!Busy \cup {p}
  BY <1>1, <1>2 DEF TM!Busy
<1>4. TM!TypeOK'
  <2>1. pc' \in [Procs -> TM!Labels]
    BY <1>1, <1>2 DEF TM!Labels
  <2>2. alone' \in SUBSET Procs /\ whole' \in SUBSET Chapters /\ shared' \in BOOLEAN
    BY <1>1 DEF TM!TypeOK
  <2> QED
    BY <1>1, <1>2, <2>1, <2>2 DEF TM!TypeOK
<1>5. GoroutineInv'
  BY <1>1, <1>2 DEF ChaptersInv, GoroutineInv, Inserting
<1>6. CountInv'
  <2>1. Entering' = Entering /\ \A v \in Assets, c \in Chapters : Pending(v, c)' = Pending(v, c)
    BY <1>1, <1>2 DEF Entering, Pending
  <2> QED
    BY <1>1, <2>1 DEF ChaptersInv, CountInv, RowsCounted
<1>7. PersonInv'
  BY <1>1, <1>3 DEF ChaptersInv, PersonInv
<1>8. AloneRunInv'
  BY <1>1, <1>2, <1>3 DEF AloneRunInv, RowsAreOf
<1>9. WholeInv'
  BY <1>1 DEF WholeInv
<1> QED
  BY <1>4, <1>5, <1>6, <1>7, <1>8, <1>9 DEF ChaptersInv

\* The functions among the variables.
LEMMA ChapterTypes ==
  ASSUME ChaptersInv
  PROVE  /\ pc \in [Procs -> TM!Labels]
         /\ todo \in [Procs -> SUBSET Assets]
         /\ at \in [Procs -> [Chapters -> TM!Steps]]
         /\ left \in [Procs -> [Chapters -> SUBSET Assets]]
         /\ found \in [Procs -> BOOLEAN]
         /\ insertLock \in [Procs -> Chapters \cup {NoChapter}]
         /\ rows \in [Assets -> [Chapters -> Nat]]
         /\ persons \in Nat
<1>1. 0..Cardinality(Procs) \subseteq Nat
  OBVIOUS
<1> QED
  BY <1>1, SameCount DEF ChaptersInv, TM!TypeOK

LEMMA StepsTyped ==
  ASSUME ChaptersInv, NEW p \in Procs, NEW c \in Chapters, NEW step \in TM!Steps
  PROVE  [at EXCEPT ![p] = [at[p] EXCEPT ![c] = step]] \in [Procs -> [Chapters -> TM!Steps]]
  BY ChapterTypes

\* The file is read.
LEMMA ReadRunKeeps ==
  ASSUME ChaptersInv, NEW p \in Procs, TM!Read(p)
  PROVE  ChaptersInv'
<1>1. /\ pc[p] = "read" /\ pc' = [pc EXCEPT ![p] = "clear"]
      /\ todo' = [todo EXCEPT ![p] = Assets]
      /\ UNCHANGED <<file, at, left, found, insertLock, rows, persons, alone, whole, shared>>
  BY DEF TM!Read, TM!tables, TM!history
<1>2. StepTyped /\ OthersStay(p)
  BY <1>1, ChapterTypes DEF StepTyped, OthersStay
<1>3. pc'[p] = "clear" /\ todo'[p] = Assets /\ \A c \in Chapters : at[p][c] = "none"
  BY <1>1, ChapterTypes DEF ChaptersInv, GoroutineInv
<1>4. GoroutinesOf(p)' /\ (~shared => PersonsOf(p)')
  BY <1>1, <1>3 DEF ChaptersInv, PersonInv, GoroutinesOf, PersonsOf, Inserting
<1>5. \A v \in Assets, c \in Chapters : RowAccounted(p, v, c)
  BY <1>1, <1>3 DEF RowAccounted, Pending
<1>6. PersonAccounted(p)
  BY <1>1 DEF PersonAccounted, Entering
<1>7. RowsAreOf(p)'
  BY <1>3 DEF RowsAreOf
<1> QED
  BY <1>1, <1>2, <1>4, <1>5, <1>6, <1>7, RunKeeps

\* An asset is cleared.
LEMMA ClearRunKeeps ==
  ASSUME ChaptersInv, NEW p \in Procs, NEW v \in Assets, TM!Clear(p, v)
  PROVE  ChaptersInv'
<1>1. /\ pc[p] = "clear" /\ v \in todo[p]
      /\ todo' = [todo EXCEPT ![p] = todo[p] \ {v}]
      /\ rows' = [rows EXCEPT ![v] = [c \in Chapters |-> 0]]
      /\ UNCHANGED <<pc, file, at, left, found, insertLock, persons, alone, whole, shared>>
  BY DEF TM!Clear, TM!history
<1>2. /\ StepTyped /\ OthersStay(p)
      /\ todo'[p] = todo[p] \ {v}
      /\ \A w \in Assets, c \in Chapters : rows'[w][c] = IF w = v THEN 0 ELSE rows[w][c]
  BY <1>1, ChapterTypes DEF StepTyped, OthersStay
<1>3. \A c \in Chapters : at[p][c] = "none"
  BY <1>1 DEF ChaptersInv, GoroutineInv
<1>4. GoroutinesOf(p)' /\ (~shared => PersonsOf(p)')
  BY <1>1, <1>3 DEF ChaptersInv, PersonInv, GoroutinesOf, PersonsOf, Inserting
<1>5. \A w \in Assets, c \in Chapters : RowAccounted(p, w, c)
  BY <1>1, <1>2 DEF RowAccounted, Pending
<1>6. PersonAccounted(p)
  BY <1>1 DEF PersonAccounted, Entering
<1>7. p \in alone => RowsAreOf(p)'
  BY <1>1, <1>2 DEF ChaptersInv, AloneRunInv, RowsAreOf
<1>8. pc' = [pc EXCEPT ![p] = "clear"]
  BY <1>1, ChapterTypes
<1> QED
  BY <1>1, <1>2, <1>4, <1>5, <1>6, <1>7, <1>8, RunKeeps

\* The goroutines start.
LEMMA StartKeeps ==
  ASSUME ChaptersInv, NEW p \in Procs, TM!Start(p)
  PROVE  ChaptersInv'
<1>1. /\ pc[p] = "clear" /\ todo[p] = {} /\ pc' = [pc EXCEPT ![p] = "ingest"]
      /\ at' = [at EXCEPT ![p] = [c \in Chapters |-> IF c \in file[p] THEN "lock" ELSE "none"]]
      /\ left' = [left EXCEPT ![p] = [c \in Chapters |-> IF c \in file[p] THEN Assets ELSE {}]]
      /\ UNCHANGED <<file, todo, found, insertLock, rows, persons, alone, whole, shared>>
  BY DEF TM!Start, TM!tables, TM!history
<1>2. /\ OthersStay(p) /\ pc'[p] = "ingest"
      /\ \A c \in Chapters : /\ at'[p][c] = IF c \in file[p] THEN "lock" ELSE "none"
                             /\ left'[p][c] = IF c \in file[p] THEN Assets ELSE {}
  BY <1>1, ChapterTypes DEF OthersStay
<1>3. StepTyped
  <2>1. at' \in [Procs -> [Chapters -> TM!Steps]]
    BY <1>1, ChapterTypes DEF TM!Steps
  <2>2. left' \in [Procs -> [Chapters -> SUBSET Assets]]
    BY <1>1, ChapterTypes
  <2> QED
    BY <1>1, <2>1, <2>2, ChapterTypes DEF StepTyped
<1>4. GoroutinesOf(p)' /\ (~shared => PersonsOf(p)')
  BY <1>1, <1>2 DEF ChaptersInv, PersonInv, GoroutinesOf, PersonsOf, Inserting
<1>5. \A v \in Assets, c \in Chapters : RowAccounted(p, v, c)
  BY <1>1 DEF RowAccounted, Pending
<1>6. PersonAccounted(p)
  BY <1>1, <1>2 DEF PersonAccounted, Entering
<1>7. p \in alone => RowsAreOf(p)'
  BY <1>1, <1>2 DEF ChaptersInv, AloneRunInv, RowsAreOf
<1> QED
  BY <1>1, <1>2, <1>3, <1>4, <1>5, <1>6, <1>7, RunKeeps

\* A goroutine has the mutex.
LEMMA LockKeeps ==
  ASSUME ChaptersInv, NEW p \in Procs, NEW c \in Chapters, TM!Lock(p, c)
  PROVE  ChaptersInv'
<1>1. /\ at[p][c] = "lock" /\ insertLock[p] = NoChapter
      /\ UNCHANGED <<pc, file, todo, left, found, rows, persons, alone, whole, shared>>
      /\ \/ /\ c \in Known /\ at' = [at EXCEPT ![p] = [at[p] EXCEPT ![c] = "find"]]
            /\ insertLock' = [insertLock EXCEPT ![p] = c]
         \/ /\ c \notin Known /\ at' = [at EXCEPT ![p] = [at[p] EXCEPT ![c] = "none"]]
            /\ insertLock' = insertLock
  BY DEF TM!Lock, TM!Step, TM!tables, TM!history
<1>2. /\ OthersStay(p)
      /\ \A d \in Chapters \ {c} : at'[p][d] = at[p][d]
      /\ at'[p][c] = IF c \in Known THEN "find" ELSE "none"
      /\ c \in Known => insertLock'[p] = c
  BY <1>1, ChapterTypes DEF OthersStay
<1>3. StepTyped
  <2>1. at' \in [Procs -> [Chapters -> TM!Steps]]
    <3>1. {"none", "find", "failed"} \subseteq TM!Steps
      BY DEF TM!Steps
    <3>2. \A step \in TM!Steps :
              [at EXCEPT ![p] = [at[p] EXCEPT ![c] = step]] \in [Procs -> [Chapters -> TM!Steps]]
      BY StepsTyped
    <3>3. at \in [Procs -> [Chapters -> TM!Steps]]
      BY ChapterTypes
    <3> QED
      BY <1>1, <3>1, <3>2, <3>3
  <2>2. insertLock' \in [Procs -> Chapters \cup {NoChapter}]
    BY <1>1, ChapterTypes
  <2> QED
    BY <1>1, <2>1, <2>2, ChapterTypes DEF StepTyped
<1>4. pc[p] = "ingest" /\ c \in file[p] /\ \A d \in Chapters : at[p][d] \notin Inserting
  BY <1>1, JobsAssumption DEF ChaptersInv, GoroutineInv
<1>5. GoroutinesOf(p)' /\ (~shared => PersonsOf(p)')
  BY <1>1, <1>2, <1>4 DEF ChaptersInv, GoroutineInv, PersonInv, GoroutinesOf, PersonsOf, Inserting
<1>6. \A v \in Assets, d \in Chapters : RowAccounted(p, v, d)
  BY <1>1 DEF RowAccounted, Pending
<1>7. PersonAccounted(p)
  BY <1>1, <1>2 DEF PersonAccounted, Entering
<1>8. p \in alone => RowsAreOf(p)'
  BY <1>1, <1>2, <1>4 DEF ChaptersInv, AloneRunInv, RowsAreOf
<1>9. pc' = [pc EXCEPT ![p] = "ingest"]
  BY <1>1, <1>4, ChapterTypes
<1> QED
  BY <1>1, <1>2, <1>3, <1>4, <1>5, <1>6, <1>7, <1>8, <1>9, RunKeeps

\* It looks for the person.
LEMMA FindKeeps ==
  ASSUME ChaptersInv, NEW p \in Procs, NEW c \in Chapters, TM!Find(p, c)
  PROVE  ChaptersInv'
<1>1. /\ at[p][c] = "find"
      /\ found' = [found EXCEPT ![p] = persons > 0]
      /\ at' = [at EXCEPT ![p] = [at[p] EXCEPT ![c] = "person"]]
      /\ UNCHANGED <<pc, file, todo, left, insertLock, rows, persons, alone, whole, shared>>
  BY DEF TM!Find, TM!Step, TM!tables, TM!history
<1>2. /\ OthersStay(p)
      /\ \A d \in Chapters \ {c} : at'[p][d] = at[p][d]
      /\ at'[p][c] = "person" /\ found'[p] = (persons > 0)
  BY <1>1, ChapterTypes DEF OthersStay
<1>3. StepTyped
  BY <1>1, ChapterTypes DEF StepTyped, TM!Steps
<1>4. /\ pc[p] = "ingest" /\ c \in file[p] /\ insertLock[p] = c /\ c \in Known
      /\ \A d \in Chapters : at[p][d] \in Inserting => d = c
  BY <1>1 DEF ChaptersInv, GoroutineInv, Inserting
<1>5. GoroutinesOf(p)'
  BY <1>1, <1>2, <1>4 DEF ChaptersInv, GoroutineInv, GoroutinesOf
<1>6. ~shared => PersonsOf(p)'
  BY <1>1, <1>2, <1>4 DEF ChaptersInv, PersonInv, PersonsOf, Inserting
<1>7. \A v \in Assets, d \in Chapters : RowAccounted(p, v, d)
  BY <1>1 DEF RowAccounted, Pending
<1>8. PersonAccounted(p)
  <2>1. p \in Entering' => ~found'[p]
    BY DEF Entering
  <2>2. p \in Entering' => ~(persons > 0)
    BY <1>2, <2>1, Zenon
  <2>3. p \in Entering' => persons = 0
    BY <2>2, ChapterTypes
  <2> QED
    BY <1>1, <2>3 DEF PersonAccounted
<1>9. p \in alone => RowsAreOf(p)'
  BY <1>1, <1>2, <1>4 DEF ChaptersInv, AloneRunInv, RowsAreOf
<1>10. pc' = [pc EXCEPT ![p] = "ingest"]
  BY <1>1, <1>4, ChapterTypes
<1> QED
  BY <1>1, <1>2, <1>3, <1>4, <1>5, <1>6, <1>7, <1>8, <1>9, <1>10, RunKeeps

\* The person is inserted.
LEMMA InsertPersonKeeps ==
  ASSUME ChaptersInv, NEW p \in Procs, NEW c \in Chapters, TM!InsertPerson(p, c)
  PROVE  ChaptersInv'
<1>1. /\ at[p][c] = "person"
      /\ persons' = IF found[p] THEN persons ELSE persons + 1
      /\ at' = [at EXCEPT ![p] = [at[p] EXCEPT ![c] = "insert"]]
      /\ UNCHANGED <<pc, file, todo, left, found, insertLock, rows, alone, whole, shared>>
  BY DEF TM!InsertPerson, TM!Step, TM!history
<1>2. /\ OthersStay(p)
      /\ \A d \in Chapters \ {c} : at'[p][d] = at[p][d]
      /\ at'[p][c] = "insert"
  BY <1>1, ChapterTypes DEF OthersStay
<1>3. StepTyped
  BY <1>1, ChapterTypes DEF StepTyped, TM!Steps
<1>4. /\ pc[p] = "ingest" /\ c \in file[p] /\ insertLock[p] = c /\ c \in Known
      /\ \A d \in Chapters : at[p][d] \in Inserting => d = c
  BY <1>1 DEF ChaptersInv, GoroutineInv, Inserting
<1>5. GoroutinesOf(p)'
  BY <1>1, <1>2, <1>4 DEF ChaptersInv, GoroutineInv, GoroutinesOf
<1>6. \A d \in Chapters : at'[p][d] # "person"
  BY <1>2, <1>4 DEF Inserting
<1>7. ~shared => PersonsOf(p)'
  BY <1>1, <1>6, ChapterTypes DEF ChaptersInv, PersonInv, PersonsOf
<1>8. \A v \in Assets, d \in Chapters : RowAccounted(p, v, d)
  BY <1>1 DEF RowAccounted, Pending
<1>9. PersonAccounted(p)
  BY <1>1, <1>6 DEF PersonAccounted, Entering
<1>10. p \in alone => RowsAreOf(p)'
  BY <1>1, <1>2, <1>4 DEF ChaptersInv, AloneRunInv, RowsAreOf
<1>11. pc' = [pc EXCEPT ![p] = "ingest"]
  BY <1>1, <1>4, ChapterTypes
<1> QED
  BY <1>1, <1>2, <1>3, <1>4, <1>5, <1>7, <1>8, <1>9, <1>10, <1>11, RunKeeps

\* The chapter is inserted for one more asset.
LEMMA InsertKeeps ==
  ASSUME ChaptersInv, NEW p \in Procs, NEW c \in Chapters, NEW v \in Assets, TM!Insert(p, c, v)
  PROVE  ChaptersInv'
<1>1. /\ at[p][c] = "insert" /\ v \in left[p][c]
      /\ left' = [left EXCEPT ![p] = [left[p] EXCEPT ![c] = left[p][c] \ {v}]]
      /\ rows' = [rows EXCEPT ![v] = [rows[v] EXCEPT ![c] = rows[v][c] + 1]]
      /\ UNCHANGED <<pc, file, todo, found, persons, alone, whole, shared>>
      /\ \/ /\ left'[p][c] = {}
            /\ at' = [at EXCEPT ![p] = [at[p] EXCEPT ![c] = "none"]]
            /\ insertLock' = [insertLock EXCEPT ![p] = NoChapter]
         \/ left'[p][c] # {} /\ at' = at /\ insertLock' = insertLock
  BY DEF TM!Insert, TM!Step, TM!Unlock, TM!history
<1>2. /\ OthersStay(p)
      /\ \A d \in Chapters \ {c} : at'[p][d] = at[p][d] /\ left'[p][d] = left[p][d]
      /\ left'[p][c] = left[p][c] \ {v}
      /\ at'[p][c] = IF left'[p][c] = {} THEN "none" ELSE "insert"
      /\ left'[p][c] # {} => insertLock' = insertLock
      /\ \A w \in Assets, d \in Chapters :
             rows'[w][d] = IF w = v /\ d = c THEN rows[w][d] + 1 ELSE rows[w][d]
  BY <1>1, ChapterTypes DEF OthersStay
<1>3. StepTyped
  <2>1. at' \in [Procs -> [Chapters -> TM!Steps]]
    <3>1. {"none", "find", "failed"} \subseteq TM!Steps
      BY DEF TM!Steps
    <3>2. \A step \in TM!Steps :
              [at EXCEPT ![p] = [at[p] EXCEPT ![c] = step]] \in [Procs -> [Chapters -> TM!Steps]]
      BY StepsTyped
    <3>3. at \in [Procs -> [Chapters -> TM!Steps]]
      BY ChapterTypes
    <3> QED
      BY <1>1, <3>1, <3>2, <3>3
  <2>4. insertLock' \in [Procs -> Chapters \cup {NoChapter}]
    BY <1>1, ChapterTypes
  <2>2. left' \in [Procs -> [Chapters -> SUBSET Assets]]
    BY <1>1, ChapterTypes
  <2>3. rows' \in [Assets -> [Chapters -> Nat]]
    BY <1>1, ChapterTypes
  <2> QED
    BY <1>1, <2>1, <2>2, <2>3, <2>4, ChapterTypes DEF StepTyped
<1>4. /\ pc[p] = "ingest" /\ c \in file[p] /\ insertLock[p] = c /\ c \in Known
      /\ \A d \in Chapters : at[p][d] \in Inserting => d = c
  BY <1>1 DEF ChaptersInv, GoroutineInv, Inserting
<1>5. GoroutinesOf(p)'
  BY <1>1, <1>2, <1>4 DEF ChaptersInv, GoroutineInv, GoroutinesOf, Inserting
<1>6. \A d \in Chapters : at'[p][d] # "person"
  BY <1>2, <1>4 DEF Inserting
<1>7. ~shared => PersonsOf(p)'
  BY <1>1, <1>6 DEF ChaptersInv, PersonInv, PersonsOf
<1>8. \A w \in Assets, d \in Chapters : RowAccounted(p, w, d)
  BY <1>1, <1>2, <1>4 DEF RowAccounted, Pending
<1>9. PersonAccounted(p)
  BY <1>1, <1>6 DEF PersonAccounted, Entering
<1>10. p \in alone => RowsAreOf(p)'
  <2> SUFFICES ASSUME p \in alone PROVE RowsAreOf(p)'
    OBVIOUS
  <2>1. \A w \in Assets : rows[w][c] = IF w \notin left[p][c] THEN 1 ELSE 0
    BY <1>1, <1>4 DEF ChaptersInv, AloneRunInv, RowsAreOf
  <2>2. \A w \in Assets : rows'[w][c] = IF w \notin left'[p][c] THEN 1 ELSE 0
    BY <1>1, <1>2, <2>1
  <2> QED
    BY <1>1, <1>2, <1>4, <2>2 DEF ChaptersInv, AloneRunInv, RowsAreOf
<1>11. pc' = [pc EXCEPT ![p] = "ingest"]
  BY <1>1, <1>4, ChapterTypes
<1> QED
  BY <1>1, <1>2, <1>3, <1>4, <1>5, <1>7, <1>8, <1>9, <1>10, <1>11, RunKeeps

\* A query fails; the row may have been inserted before that.
LEMMA FailRunKeeps ==
  ASSUME ChaptersInv, NEW p \in Procs, NEW c \in Chapters, TM!Fail(p, c)
  PROVE  ChaptersInv'
<1>1. /\ at[p][c] \in Inserting
      /\ at' = [at EXCEPT ![p] = [at[p] EXCEPT ![c] = "failed"]]
      /\ left' = [left EXCEPT ![p] = [left[p] EXCEPT ![c] = {}]]
      /\ insertLock' = [insertLock EXCEPT ![p] = NoChapter]
      /\ UNCHANGED <<pc, file, todo, found, persons, alone, whole, shared>>
      /\ \/ rows' = rows
         \/ \E v \in Assets \cap left[p][c] :
                rows' = [rows EXCEPT ![v] = [rows[v] EXCEPT ![c] = rows[v][c] + 1]]
  <2>1. left[p][c] \subseteq Assets
    BY ChapterTypes
  <2> QED
    BY <2>1 DEF TM!Fail, TM!Step, TM!Unlock, TM!history, Inserting
<1>2. /\ OthersStay(p)
      /\ \A d \in Chapters \ {c} : at'[p][d] = at[p][d] /\ left'[p][d] = left[p][d]
      /\ left'[p][c] = {} /\ at'[p][c] = "failed"
  BY <1>1, ChapterTypes DEF OthersStay
<1>3. StepTyped
  <2>1. at' \in [Procs -> [Chapters -> TM!Steps]]
    <3>1. {"none", "find", "failed"} \subseteq TM!Steps
      BY DEF TM!Steps
    <3>2. \A step \in TM!Steps :
              [at EXCEPT ![p] = [at[p] EXCEPT ![c] = step]] \in [Procs -> [Chapters -> TM!Steps]]
      BY StepsTyped
    <3>3. at \in [Procs -> [Chapters -> TM!Steps]]
      BY ChapterTypes
    <3> QED
      BY <1>1, <3>1, <3>2, <3>3
  <2>2. left' \in [Procs -> [Chapters -> SUBSET Assets]]
    BY <1>1, ChapterTypes
  <2>3. rows' \in [Assets -> [Chapters -> Nat]]
    <3>1. \A v \in Assets :
              [rows EXCEPT ![v] = [rows[v] EXCEPT ![c] = rows[v][c] + 1]]
                  \in [Assets -> [Chapters -> Nat]]
      BY ChapterTypes
    <3> QED
      BY <1>1, <3>1, ChapterTypes
  <2>4. insertLock' \in [Procs -> Chapters \cup {NoChapter}]
    BY <1>1, ChapterTypes
  <2> QED
    BY <1>1, <2>1, <2>2, <2>3, <2>4, ChapterTypes DEF StepTyped
<1>4. /\ pc[p] = "ingest" /\ c \in file[p] /\ c \in Known
      /\ \A d \in Chapters : at[p][d] \in Inserting => d = c
  <2>1. GoroutineInv /\ at[p][c] \in Inserting /\ at[p][c] # "none"
    BY <1>1 DEF ChaptersInv, Inserting
  <2> QED
    BY <2>1 DEF GoroutineInv
<1>5. GoroutinesOf(p)'
  BY <1>1, <1>2, <1>4 DEF ChaptersInv, GoroutineInv, GoroutinesOf, Inserting
<1>6. \A d \in Chapters : at'[p][d] # "person"
  BY <1>2, <1>4 DEF Inserting
<1>7. ~shared => PersonsOf(p)'
  BY <1>1, <1>6 DEF ChaptersInv, PersonInv, PersonsOf
<1>8. \A w \in Assets, d \in Chapters :
          \/ rows'[w][d] = rows[w][d]
          \/ d = c /\ w \in left[p][c] /\ rows'[w][d] = rows[w][d] + 1
  <2>1. ASSUME NEW v \in Assets \cap left[p][c],
               rows' = [rows EXCEPT ![v] = [rows[v] EXCEPT ![c] = rows[v][c] + 1]]
        PROVE  \A w \in Assets, d \in Chapters :
                   rows'[w][d] = IF w = v /\ d = c THEN rows[w][d] + 1 ELSE rows[w][d]
    BY <2>1, ChapterTypes
  <2> QED
    BY <1>1, <2>1
<1>9. \A w \in Assets, d \in Chapters : RowAccounted(p, w, d)
  BY <1>1, <1>2, <1>4, <1>8 DEF RowAccounted, Pending
<1>10. PersonAccounted(p)
  BY <1>1, <1>6 DEF PersonAccounted, Entering
<1>11. p \in alone => RowsAreOf(p)'
  BY <1>1, <1>2, <1>4, <1>8 DEF ChaptersInv, AloneRunInv, RowsAreOf
<1>12. pc' = [pc EXCEPT ![p] = "ingest"]
  BY <1>1, <1>4, ChapterTypes
<1> QED
  BY <1>1, <1>2, <1>3, <1>4, <1>5, <1>7, <1>9, <1>10, <1>11, <1>12, RunKeeps

\* A run ends.  One that was alone and had no errors leaves the rows whole.
LEMMA EndRunKeeps ==
  ASSUME ChaptersInv, NEW p \in Procs, TM!Wait(p) \/ TM!Stop(p)
  PROVE  ChaptersInv'
<1>1. /\ pc[p] # "idle" /\ TM!Quiet(p) /\ alone' = {}
      /\ UNCHANGED <<rows, persons, shared>>
      /\ TM!TypeOK /\ pc \in [Procs -> TM!Labels] /\ whole = {}
      /\ \/ whole' = {}
         \/ /\ p \in alone /\ whole' = file[p] /\ pc[p] = "ingest"
            /\ \A c \in Chapters : at[p][c] = "none"
  BY DEF TM!Wait, TM!Stop, TM!tables, ChaptersInv, TM!TypeOK, WholeInv, TM!Busy
<1>2. /\ pc' = [pc EXCEPT ![p] = "idle"] /\ pc'[p] = "idle"
      /\ \A c \in Chapters : at'[p][c] = "none" /\ left'[p][c] = {}
      /\ \A q \in Procs \ {p} : pc'[q] = pc[q] /\ file'[q] = file[q]
      /\ OthersStay(p)
  BY <1>1 DEF TM!Quiet, TM!TypeOK, OthersStay
<1>3. TM!TypeOK'
  <2>1. /\ pc' \in [Procs -> TM!Labels] /\ file' \in [Procs -> SUBSET Chapters]
        /\ todo' \in [Procs -> SUBSET Assets]
        /\ at' \in [Procs -> [Chapters -> TM!Steps]]
    BY <1>1 DEF TM!Quiet, TM!TypeOK, TM!Labels, TM!Steps
  <2>2. /\ left' \in [Procs -> [Chapters -> SUBSET Assets]] /\ found' \in [Procs -> BOOLEAN]
        /\ insertLock' \in [Procs -> Chapters \cup {NoChapter}]
        /\ whole' \in SUBSET Chapters
    BY <1>1 DEF TM!Quiet, TM!TypeOK
  <2> QED
    BY <1>1, <2>1, <2>2 DEF TM!TypeOK
<1>4. GoroutineInv'
  <2>1. \A q \in Procs \ {p}, c \in Chapters :
            /\ at'[q][c] # "none" => pc'[q] = "ingest" /\ c \in file'[q]
            /\ at'[q][c] \in Inserting => insertLock'[q] = c /\ c \in Known
    BY <1>2 DEF ChaptersInv, GoroutineInv, OthersStay
  <2> QED
    BY <1>2, <2>1 DEF GoroutineInv, Inserting
<1>5. CountInv'
  <2>1. /\ PersonAccounted(p)
        /\ \A v \in Assets, c \in Chapters : RowAccounted(p, v, c)
    BY <1>1, <1>2 DEF PersonAccounted, RowAccounted, Entering, Pending
  <2>2. persons' \in Nat /\ \A v \in Assets, c \in Chapters : rows'[v][c] \in Nat
    BY <1>1, ChapterTypes
  <2>3. \A v \in Assets, c \in Chapters : RowsCounted(v, c)'
    BY <1>1, <1>2, <2>1, <2>2, RowCounted DEF ChaptersInv
  <2>4. persons' + Cardinality(Entering') <= Cardinality(Procs)
    BY <1>1, <1>2, <2>1, <2>2, PersonCounted DEF ChaptersInv
  <2> QED
    BY <2>3, <2>4 DEF CountInv
<1>6. TM!Busy' = TM!Busy \ {p}
  BY <1>1, <1>2 DEF TM!Busy
<1>7. PersonInv'
  <2>1. \A q \in Procs, c \in Chapters :
            at'[q][c] = "person" => q # p /\ at[q][c] = "person" /\ found'[q] = found[q]
    BY <1>2 DEF OthersStay
  <2> QED
    BY <1>1, <1>6, <2>1 DEF ChaptersInv, PersonInv
<1>8. WholeInv'
  <2> SUFFICES ASSUME p \in alone, whole' = file[p], pc[p] = "ingest",
                      \A c \in Chapters : at[p][c] = "none"
               PROVE  WholeInv'
    BY <1>1 DEF WholeInv
  <2>1. TM!Busy' = {}
    BY <1>6 DEF ChaptersInv, AloneRunInv
  <2>2. \A v \in Assets, c \in Chapters :
            rows[v][c] = IF c \in file[p] \cap Known THEN 1 ELSE 0
    BY DEF ChaptersInv, AloneRunInv, RowsAreOf
  <2> QED
    BY <1>1, <2>1, <2>2 DEF WholeInv
<1> QED
  BY <1>1, <1>3, <1>4, <1>5, <1>7, <1>8 DEF ChaptersInv, AloneRunInv

LEMMA ChaptersStep == ChaptersInv /\ [TM!Next]_(TM!vars) => ChaptersInv'
<1> SUFFICES ASSUME ChaptersInv, [TM!Next]_(TM!vars) PROVE ChaptersInv'
  OBVIOUS
<1>1. CASE UNCHANGED TM!vars
  BY <1>1
  DEF TM!vars, TM!routines, TM!tables, TM!history, ChaptersInv, TM!TypeOK, GoroutineInv,
      CountInv, RowsCounted, Pending, Entering, PersonInv, AloneRunInv, RowsAreOf, WholeInv,
      TM!Busy
<1>2. ASSUME NEW p \in Procs, TM!Deliver(p) \/ TM!Proceed(p) \/ TM!Stop(p)
      PROVE  ChaptersInv'
  <2>1. CASE TM!Deliver(p)
    BY <2>1, DeliverRunKeeps
  <2>2. CASE TM!Wait(p) \/ TM!Stop(p)
    BY <2>2, EndRunKeeps
  <2>3. CASE TM!Read(p) \/ TM!Start(p) \/ \E v \in Assets : TM!Clear(p, v)
    BY <2>3, ReadRunKeeps, StartKeeps, ClearRunKeeps
  <2>4. ASSUME NEW c \in Chapters,
               \/ TM!Lock(p, c) \/ TM!Find(p, c) \/ TM!InsertPerson(p, c)
               \/ (\E v \in Assets : TM!Insert(p, c, v)) \/ TM!Fail(p, c)
        PROVE  ChaptersInv'
    BY <2>4, LockKeeps, FindKeeps, InsertPersonKeeps, InsertKeeps, FailRunKeeps
  <2> QED
    BY <1>2, <2>1, <2>2, <2>3, <2>4 DEF TM!Proceed
<1> QED
  BY <1>1, <1>2 DEF TM!Next

\* In a behaviour about chapters; in another no run has been whole.
ChapterBehaviourInv == IF kind = "chapters" THEN ChaptersInv ELSE whole = {}

LEMMA ChaptersOfServer ==
  /\ Init => ChapterBehaviourInv
  /\ ChapterBehaviourInv /\ [Next]_vars => ChapterBehaviourInv'
<1>1. Init => ChapterBehaviourInv
  BY ChaptersInit DEF Init, ChapterBehaviourInv, TM!Init, TM!StateInit
<1>2. ASSUME ChapterBehaviourInv, [Next]_vars, kind # "chapters"
      PROVE  kind' # "chapters" /\ whole' = {}
  BY <1>2
  DEF ChapterBehaviourInv, Next, OfCopy, OfIndex, OfChapters, OfTranslations, vars, chapterVars
<1>3. ASSUME ChapterBehaviourInv, [Next]_vars, kind = "chapters"
      PROVE  kind' = "chapters" /\ ChaptersInv'
  <2>1. kind' = "chapters" /\ [TM!Next]_(TM!vars)
    BY <1>3
    DEF Next, OfCopy, OfIndex, OfChapters, OfTranslations, vars, chapterVars,
        TM!vars, TM!routines, TM!tables, TM!history
  <2> QED
    BY <1>3, <2>1, ChaptersStep DEF ChapterBehaviourInv
<1> QED
  BY <1>1, <1>2, <1>3 DEF ChapterBehaviourInv

\* A run that ends without an error and that no other overlapped leaves every
\* asset with the chapters of its file, each once; and nobody is entered twice
\* unless two runs overlapped.
THEOREM ChaptersAreWhole == Spec => []ChaptersAreOfTheFile
<1>1. ChapterBehaviourInv => ChaptersAreOfTheFile
  BY DEF ChapterBehaviourInv, ChaptersInv, WholeInv, PersonInv, ChaptersAreOfTheFile,
         TM!ChaptersAreOfTheFile
<1> QED
  BY <1>1, ChaptersOfServer, PTL DEF Spec
-----------------------------------------------------------------------------
(* Translations.  What is recorded as sent is what a run has made of the    *)
(* jobs that it was told of and of those it has created.  When the run is   *)
(* alone and not blind these are all the jobs there are, and when it is     *)
(* alone and blind they are the newest ones.                                *)

\* The labels of a run, and those from which it leaves a record or a failure.
RunLabels == TR!Labels \ {"idle", "get", "set", "del"}
Changing == {"create", "notify", "record"}

JobsTyped == /\ jobs \in [Languages -> Seq(Texts \cup {NoVersion})]
             /\ listed \in [Procs -> [Languages -> Nat]]

\* The event that is being handled.
EventInv == \A p \in Procs : pc[p] # "idle" => event[p] \in Events

\* What a run has read, and that it records no errors.
SendingInv == \A p \in Procs :
                  /\ p \in TR!Busy /\ pc[p] # "read" => data[p] \in Texts
                  /\ pc[p] = "record" => p \notin errs

\* What run p has made of the jobs, if it is the only one.
JobsAreOf(p) ==
    \A l \in Languages :
        /\ pc[p] \in {"update", "create"} =>
               listed[p][l] = IF p \in blind THEN 0 ELSE Len(jobs[l])
        /\ p \notin errs /\ p \notin blind /\ pc[p] \in Changing =>
               \A n \in DOMAIN jobs[l] : jobs[l][n] = data[p]
        /\ p \notin errs /\ pc[p] \in {"notify", "record"} =>
               jobs[l] # <<>> /\ TR!Newest(l) = data[p]
AloneSendInv == \A p \in alone : TR!Busy = {p} /\ JobsAreOf(p)

\* Unless runs overlap they are alone, and unless they are blind too no language
\* has a second job.
NoSecondJob == \A l \in Languages : Len(jobs[l]) <= 1
BlindInv == \A p \in blind : pc[p] \in Changing \cup {"update"}
UnsharedInv == /\ "overlap" \notin disturbed \/ ~shared => TR!Busy \subseteq alone
               /\ ~shared => NoSecondJob /\ blind = {}

\* What is recorded is sent, as long as no run is changing that.
CurrentInv == /\ disturbed \subseteq {"blind"} /\ hash # NoVersion
              /\ \A p \in Procs : pc[p] \notin Changing
              => TR!Current

TextsInv == /\ TR!TypeOK
            /\ JobsTyped /\ EventInv /\ SendingInv /\ BlindInv
            /\ AloneSendInv /\ UnsharedInv /\ CurrentInv

LEMMA TextsInit == TR!Init => TextsInv
<1> SUFFICES ASSUME TR!Init PROVE TextsInv
  OBVIOUS
<1>1. JobsTyped /\ \A l \in Languages : jobs[l] \in {<<>>, <<NoVersion>>}
  <2>1. {<<>>, <<NoVersion>>} \subseteq Seq(Texts \cup {NoVersion})
    OBVIOUS
  <2>2. jobs \in [Languages -> {<<>>, <<NoVersion>>}]
    BY DEF TR!Init, TR!StateInit
  <2>3. listed \in [Procs -> [Languages -> Nat]]
    BY DEF TR!Init, TR!StateInit
  <2> QED
    BY <2>1, <2>2, <2>3 DEF JobsTyped
<1>2. TR!TypeOK
  <2>1. \A l \in Languages : \A n \in DOMAIN jobs[l] : jobs[l][n] \in Texts \cup {NoVersion}
    BY <1>1
  <2>2. \A p \in Procs, l \in Languages : listed[p][l] \in 0..Len(jobs[l])
    BY <1>1 DEF TR!Init, TR!StateInit
  <2> QED
    BY <2>1, <2>2 DEF TR!Init, TR!StateInit, TR!TypeOK, TR!Labels
<1>3. TR!Busy = {} /\ (\A p \in Procs : pc[p] = "idle") /\ alone = {} /\ blind = {}
      /\ hash = NoVersion
  BY DEF TR!Init, TR!StateInit, TR!Busy
<1>4. NoSecondJob
  <2> SUFFICES ASSUME NEW l \in Languages PROVE Len(jobs[l]) <= 1
    BY DEF NoSecondJob
  <2>1. CASE jobs[l] = <<>>
    BY <2>1
  <2>2. CASE jobs[l] = <<NoVersion>>
    BY <2>2
  <2> QED
    BY <1>1, <2>1, <2>2
<1>5. EventInv /\ SendingInv /\ BlindInv /\ AloneSendInv /\ UnsharedInv
  BY <1>3, <1>4 DEF EventInv, SendingInv, BlindInv, AloneSendInv, UnsharedInv
<1>6. CurrentInv
  BY <1>3 DEF CurrentInv
<1> QED
  BY <1>1, <1>2, <1>5, <1>6 DEF TextsInv

\* Nothing that happens outside a run matters.
LEMMA OutsideKeeps ==
  ASSUME TextsInv, TR!TypeOK', EventInv',
         UNCHANGED <<data, hash, jobs, listed, errs, alone, blind, disturbed, shared>>,
         \A p \in Procs : \/ pc'[p] = pc[p]
                          \/ pc[p] \notin RunLabels /\ pc'[p] \notin RunLabels
  PROVE  TextsInv'
<1>1. /\ pc \in [Procs -> TR!Labels] /\ pc' \in [Procs -> TR!Labels]
  BY DEF TextsInv, TR!TypeOK
<1>2. /\ TR!Busy' = TR!Busy
      /\ \A p \in TR!Busy : pc'[p] = pc[p]
      /\ \A p \in Procs \ TR!Busy : pc'[p] \in {"idle", "get", "set", "del"}
      /\ \A p \in Procs \ TR!Busy : pc[p] \in {"idle", "get", "set", "del"}
  BY <1>1 DEF TR!Busy, RunLabels
<1>3. JobsTyped' /\ UnsharedInv'
  BY <1>2 DEF TextsInv, JobsTyped, UnsharedInv, NoSecondJob
<1>4. SendingInv'
  BY <1>2 DEF TextsInv, SendingInv, TR!Busy
<1>5. AloneSendInv'
  BY <1>2 DEF TextsInv, AloneSendInv, JobsAreOf, TR!Newest
<1>7. BlindInv'
  <2>1. \A p \in blind : pc[p] \in RunLabels /\ p \in Procs
    BY DEF TextsInv, BlindInv, RunLabels, Changing, TR!Labels, TR!TypeOK
  <2> QED
    BY <1>2, <2>1 DEF TextsInv, BlindInv, TR!Busy, RunLabels
<1>6. CurrentInv'
  <2>1. \A p \in Procs : pc'[p] \in Changing <=> pc[p] \in Changing
    BY <1>2 DEF Changing
  <2> QED
    BY <2>1 DEF TextsInv, CurrentInv, TR!Current, TR!Newest
<1> QED
  BY <1>3, <1>4, <1>5, <1>6, <1>7 DEF TextsInv

\* A run goes on: what its step has to see to.
OthersKeep(p) == /\ \A q \in Procs \ {p} : data'[q] = data[q] /\ listed'[q] = listed[q]
                 /\ errs' \ {p} = errs \ {p}

LEMMA SendKeeps ==
  ASSUME TextsInv, TR!TypeOK', JobsTyped',
         NEW p \in TR!Busy, NEW label \in RunLabels, pc' = [pc EXCEPT ![p] = label],
         UNCHANGED <<event, hash, alone, disturbed>>,
         \/ UNCHANGED <<blind, shared>>
         \/ blind' = blind \cup {p} /\ shared' = TRUE,
         p \in blind' => label \in Changing \cup {"update"},
         OthersKeep(p),
         label # "read" => data'[p] \in Texts,
         label = "record" => p \notin errs',
         p \in alone => JobsAreOf(p)',
         p \in alone /\ ~shared' => NoSecondJob',
         label \in Changing \/ (jobs' = jobs /\ pc[p] \notin Changing)
  PROVE  TextsInv'
<1>1. /\ pc \in [Procs -> TR!Labels] /\ p \in Procs
      /\ pc'[p] = label
      /\ \A q \in Procs \ {p} : pc'[q] = pc[q]
  BY DEF TextsInv, TR!TypeOK, TR!Busy
<1>2. TR!Busy' = TR!Busy
  BY <1>1 DEF TR!Busy, RunLabels
<1>7. EventInv'
  BY <1>1 DEF TextsInv, EventInv, TR!Busy
<1>3. SendingInv'
  <2>1. \A q \in Procs \ {p} : /\ q \in TR!Busy' /\ pc'[q] # "read" => data'[q] \in Texts
                               /\ pc'[q] = "record" => q \notin errs'
    BY <1>1, <1>2 DEF TextsInv, SendingInv, OthersKeep
  <2>2. /\ p \in TR!Busy' /\ pc'[p] # "read" => data'[p] \in Texts
        /\ pc'[p] = "record" => p \notin errs'
    BY <1>1
  <2> QED
    BY <2>1, <2>2 DEF SendingInv
<1>4. AloneSendInv'
  <2>1. \A q \in alone : q = p /\ TR!Busy = {q}
    BY DEF TextsInv, AloneSendInv
  <2> QED
    BY <1>2, <2>1 DEF AloneSendInv
<1>5. UnsharedInv'
  <2>1. ~shared => p \in alone /\ blind = {}
    BY DEF TextsInv, UnsharedInv
  <2>2. "overlap" \notin disturbed \/ ~shared => TR!Busy \subseteq alone
    BY DEF TextsInv, UnsharedInv
  <2>3. ~shared' => ~shared /\ blind' = blind
    OBVIOUS
  <2> QED
    BY <1>2, <2>1, <2>2, <2>3 DEF UnsharedInv
<1>6. CurrentInv'
  <2> SUFFICES ASSUME disturbed \subseteq {"blind"}, hash # NoVersion,
                      \A q \in Procs : pc'[q] \notin Changing
               PROVE  TR!Current'
    BY DEF CurrentInv
  <2>1. jobs' = jobs /\ \A q \in Procs : pc[q] \notin Changing
    BY <1>1
  <2>2. TR!Current /\ (~shared' => ~shared)
    BY <2>1 DEF TextsInv, CurrentInv
  <2> QED
    BY <2>1, <2>2 DEF TR!Current, TR!Newest
<1>8. BlindInv'
  <2> SUFFICES ASSUME NEW q \in blind' PROVE pc'[q] \in Changing \cup {"update"}
    BY DEF BlindInv
  <2>1. CASE q = p
    BY <1>1, <2>1
  <2>2. CASE q # p
    <3>1. q \in blind /\ q \in Procs
      BY <2>2 DEF TextsInv, TR!TypeOK
    <3> QED
      BY <1>1, <2>2, <3>1 DEF TextsInv, BlindInv
  <2> QED
    BY <2>1, <2>2
<1> QED
  BY <1>3, <1>4, <1>5, <1>6, <1>7, <1>8 DEF TextsInv

LEMMA JustOne ==
  ASSUME NEW n \in Nat, n # 0, n <= 1
  PROVE  n = 1
  OBVIOUS

LEMMA TheFirst ==
  ASSUME NEW m, NEW n, m = 0, n = m + 1
  PROVE  n = 1 /\ 1..m = {}
  OBVIOUS

LEMMA NotEmpty ==
  ASSUME NEW s, Len(s) = 1
  PROVE  s # <<>>
  OBVIOUS

LEMMA NewestOfSame ==
  ASSUME NEW S, NEW d, NEW s \in Seq(S), Len(s) # 0, \A n \in DOMAIN s : s[n] = d
  PROVE  s # <<>> /\ s[Len(s)] = d
<1>1. Len(s) \in Nat /\ DOMAIN s = 1..Len(s)
  OBVIOUS
<1>2. Len(s) \in DOMAIN s
  BY <1>1
<1> QED
  BY <1>2

LEMMA NewestAppended ==
  ASSUME NEW S, NEW d \in S, NEW s \in Seq(S)
  PROVE  Append(s, d) # <<>> /\ Append(s, d)[Len(Append(s, d))] = d
  OBVIOUS

\* A run is over.  It was recorded, or has come to nothing, or has failed.
LEMMA LeaveKeeps ==
  ASSUME TextsInv, NEW p \in Procs, NEW label \in {"idle", "del"}, TR!Leave(p, label),
         event' \in [Procs -> Events \cup {NoEvent}], EventInv',
         UNCHANGED <<running, content, jobs>>,
         recent' \in BOOLEAN, hash' \in {hash, data[p]},
         disturbed' \in SUBSET {"overlap", "failure", "blind"},
         \/ /\ hash' = hash /\ disturbed' = disturbed /\ pc[p] \notin Changing
         \/ hash' = hash /\ disturbed' = disturbed \cup {"failure"}
         \/ /\ pc[p] = "record" /\ hash' = data[p]
            /\ disturbed' = IF p \in alone THEN IF p \in blind THEN {"blind"} ELSE {}
                            ELSE disturbed
  PROVE  TextsInv'
<1>1. /\ TR!TypeOK /\ JobsTyped
      /\ pc' = [pc EXCEPT ![p] = label] /\ pc'[p] = label
      /\ \A q \in Procs \ {p} : pc'[q] = pc[q]
      /\ data' = [data EXCEPT ![p] = NoVersion]
      /\ listed' = [listed EXCEPT ![p] = [l \in Languages |-> 0]]
      /\ errs' = errs \ {p} /\ alone' = alone \ {p} /\ blind' = blind \ {p}
      /\ shared' = shared
  BY DEF TextsInv, TR!TypeOK, TR!Leave, TR!Goto
<1>2. \A q \in Procs \ {p} : data'[q] = data[q] /\ listed'[q] = listed[q]
  BY <1>1 DEF TR!TypeOK, JobsTyped
<1>3. TR!Busy' = TR!Busy \ {p}
  BY <1>1 DEF TR!Busy
<1>4. JobsTyped'
  BY <1>1 DEF JobsTyped
<1>5. TR!TypeOK'
  <2>1. \A q \in Procs, l \in Languages : listed'[q][l] \in 0..Len(jobs[l])
    <3>1. \A l \in Languages : listed'[p][l] = 0 /\ Len(jobs[l]) \in Nat
      BY <1>1 DEF JobsTyped
    <3> QED
      BY <1>1, <1>2, <3>1 DEF TR!TypeOK
  <2>2. /\ pc' \in [Procs -> TR!Labels] /\ data' \in [Procs -> Texts \cup {NoVersion}]
        /\ hash' \in Texts \cup {NoVersion}
    BY <1>1 DEF TR!TypeOK, TR!Labels
  <2> QED
    BY <1>1, <2>1, <2>2 DEF TR!TypeOK
<1>6. SendingInv'
  BY <1>1, <1>2, <1>3 DEF TextsInv, SendingInv
<1>7. AloneSendInv'
  <2> SUFFICES ASSUME NEW q \in alone' PROVE TR!Busy' = {q} /\ JobsAreOf(q)'
    BY DEF AloneSendInv
  <2>1. q \in alone /\ q \in Procs \ {p}
    BY <1>1 DEF TR!TypeOK
  <2>2. TR!Busy = {q} /\ JobsAreOf(q)
    BY <2>1 DEF TextsInv, AloneSendInv
  <2> QED
    BY <1>1, <1>2, <1>3, <2>1, <2>2 DEF JobsAreOf, TR!Newest
<1>10. BlindInv'
  BY <1>1 DEF TextsInv, BlindInv, TR!TypeOK
<1>8. UnsharedInv'
  <2>1. "overlap" \notin disturbed' \/ ~shared => TR!Busy \subseteq alone
    <3>1. ASSUME p \in alone PROVE TR!Busy \subseteq alone
      BY <3>1 DEF TextsInv, AloneSendInv
    <3>2. p \in alone \/ disturbed \subseteq disturbed'
      OBVIOUS
    <3> QED
      BY <3>1, <3>2 DEF TextsInv, UnsharedInv
  <2> QED
    BY <1>1, <1>3, <2>1 DEF TextsInv, UnsharedInv, NoSecondJob
<1>9. CurrentInv'
  <2> SUFFICES ASSUME disturbed' \subseteq {"blind"}, hash' # NoVersion,
                      \A q \in Procs : pc'[q] \notin Changing
               PROVE  TR!Current'
    BY DEF CurrentInv
  <2>1. CASE hash' = hash /\ disturbed' = disturbed /\ pc[p] \notin Changing
    <3>1. \A q \in Procs : pc[q] \notin Changing
      BY <1>1, <2>1
    <3> QED
      BY <1>1, <2>1, <3>1 DEF TextsInv, CurrentInv, TR!Current, TR!Newest
  <2>2. CASE pc[p] = "record" /\ hash' = data[p]
             /\ disturbed' = IF p \in alone THEN IF p \in blind THEN {"blind"} ELSE {}
                             ELSE disturbed
    <3>1. p \in alone /\ p \notin errs
      BY <2>2 DEF TextsInv, UnsharedInv, SendingInv, TR!Busy
    <3>2. \A l \in Languages :
              /\ jobs[l] # <<>> /\ TR!Newest(l) = data[p]
              /\ p \notin blind => \A n \in DOMAIN jobs[l] : jobs[l][n] = data[p]
      BY <2>2, <3>1 DEF TextsInv, AloneSendInv, JobsAreOf, Changing
    <3>4. "blind" \notin disturbed' => p \notin blind
      BY <2>2, <3>1
    <3>3. ~shared => \A l \in Languages : Len(jobs[l]) = 1
      <4>1. \A l \in Languages : Len(jobs[l]) \in Nat /\ Len(jobs[l]) # 0
        BY <1>1, <3>2 DEF JobsTyped
      <4>2. ~shared => \A l \in Languages : Len(jobs[l]) <= 1
        BY DEF TextsInv, UnsharedInv, NoSecondJob
      <4>3. ASSUME ~shared, NEW l \in Languages PROVE Len(jobs[l]) = 1
        <5>1. Len(jobs[l]) \in Nat /\ Len(jobs[l]) # 0 /\ Len(jobs[l]) <= 1
          BY <4>1, <4>2, <4>3
        <5> QED
          BY <5>1, JustOne
      <4> QED
        BY <4>3
    <3> QED
      BY <1>1, <2>2, <3>2, <3>3, <3>4 DEF TR!Current, TR!Newest
  <2> QED
    BY <2>1, <2>2
<1> QED
  BY <1>4, <1>5, <1>6, <1>7, <1>8, <1>9, <1>10 DEF TextsInv

\* The functions among the variables.
LEMMA TextTypes ==
  ASSUME TextsInv
  PROVE  /\ pc \in [Procs -> TR!Labels]
         /\ event \in [Procs -> Events \cup {NoEvent}]
         /\ data \in [Procs -> Texts \cup {NoVersion}]
         /\ jobs \in [Languages -> Seq(Texts \cup {NoVersion})]
         /\ listed \in [Procs -> [Languages -> Nat]]
         /\ \A l \in Languages : Len(jobs[l]) \in Nat
         /\ \A p \in Procs, l \in Languages : listed[p][l] <= Len(jobs[l])
  BY DEF TextsInv, TR!TypeOK, JobsTyped

\* Deliveries, keys and editors.
LEMMA OutsideStepKeeps ==
  ASSUME TextsInv,
         \/ \E p \in Procs : TR!Deliver(p) \/ TR!GetKey(p) \/ TR!DelKey(p)
         \/ \E e \in Events : TR!ExpireKey(e)
         \/ TR!Elapse \/ TR!Edit
  PROVE  TextsInv'
<1>1. ASSUME NEW p \in Procs, TR!Deliver(p) \/ TR!GetKey(p) \/ TR!DelKey(p)
      PROVE  TextsInv'
  <2>1. /\ UNCHANGED <<content, data, hash, recent, jobs, listed, errs, alone, blind, disturbed, shared>>
        /\ running' \subseteq running
        /\ pc[p] \in {"idle", "get", "del"}
        /\ \E label \in {"idle", "get", "set"} : pc' = [pc EXCEPT ![p] = label]
        /\ \/ event' = event /\ pc[p] # "idle"
           \/ \E e \in Events : event' = [event EXCEPT ![p] = e]
           \/ event' = [event EXCEPT ![p] = NoEvent] /\ pc' = [pc EXCEPT ![p] = "idle"]
    BY <1>1
    DEF TR!Deliver, TR!GetKey, TR!DelKey, TR!Goto, TR!tables, TR!history
  <2>2. /\ TR!TypeOK /\ pc \in [Procs -> TR!Labels]
        /\ \A q \in Procs : \/ pc'[q] = pc[q]
                            \/ pc[q] \notin RunLabels /\ pc'[q] \notin RunLabels
    BY <2>1, TextTypes DEF TextsInv, RunLabels
  <2>3. TR!TypeOK'
    <3>1. pc' \in [Procs -> TR!Labels] /\ event' \in [Procs -> Events \cup {NoEvent}]
      BY <2>1, TextTypes DEF TR!Labels
    <3> QED
      BY <2>1, <2>2, <3>1 DEF TR!TypeOK
  <2>4. EventInv'
    BY <2>1, TextTypes DEF TextsInv, EventInv
  <2> QED
    BY <2>1, <2>2, <2>3, <2>4, OutsideKeeps
<1>2. ASSUME \/ \E e \in Events : TR!ExpireKey(e)
             \/ TR!Elapse \/ TR!Edit
      PROVE  TextsInv'
  <2>1. /\ UNCHANGED <<pc, event, data, hash, jobs, listed, errs, alone, blind, disturbed, shared>>
        /\ running' \subseteq running /\ recent' \in BOOLEAN /\ content' \in Texts
    BY <1>2
    DEF TR!ExpireKey, TR!Elapse, TR!Edit, TR!locals, TR!tables, TR!history, TextsInv, TR!TypeOK
  <2>2. TR!TypeOK'
    BY <2>1 DEF TextsInv, TR!TypeOK
  <2>3. EventInv'
    BY <2>1 DEF TextsInv, EventInv
  <2> QED
    BY <2>1, <2>2, <2>3, OutsideKeeps
<1> QED
  BY <1>1, <1>2

\* A run begins, and overlaps those there are.
LEMMA SetKeyKeeps ==
  ASSUME TextsInv, NEW p \in Procs, TR!SetKey(p)
  PROVE  TextsInv'
<1>1. /\ pc[p] = "set" /\ pc' = [pc EXCEPT ![p] = "read"]
      /\ running' = running \cup {event[p]}
      /\ alone' = IF TR!Busy = {} THEN {p} ELSE {}
      /\ disturbed' = IF TR!Busy = {} THEN disturbed ELSE disturbed \cup {"overlap"}
      /\ shared' = (shared \/ TR!Busy # {})
      /\ UNCHANGED <<content, hash, recent, jobs, event, data, listed, errs, blind>>
      /\ TR!TypeOK /\ pc \in [Procs -> TR!Labels]
  BY DEF TR!SetKey, TR!Goto, TR!tables, TR!locals, TextsInv, TR!TypeOK
<1>2. /\ pc'[p] = "read" /\ \A q \in Procs \ {p} : pc'[q] = pc[q]
      /\ TR!Busy' = TR!Busy \cup {p} /\ p \notin TR!Busy
  BY <1>1 DEF TR!Busy
<1>3. event[p] \in Events /\ EventInv'
  BY <1>1, <1>2 DEF TextsInv, EventInv
<1>4. TR!TypeOK'
  <2>1. pc' \in [Procs -> TR!Labels]
    BY <1>1 DEF TR!Labels
  <2>2. /\ alone' \in SUBSET Procs /\ disturbed' \in SUBSET {"overlap", "failure", "blind"}
        /\ shared' \in BOOLEAN /\ running' \in SUBSET Events
    BY <1>1, <1>3 DEF TR!TypeOK
  <2> QED
    BY <1>1, <2>1, <2>2 DEF TR!TypeOK
<1>5. JobsTyped'
  BY <1>1 DEF TextsInv, JobsTyped
<1>6. SendingInv'
  BY <1>1, <1>2 DEF TextsInv, SendingInv
<1>7. AloneSendInv'
  BY <1>1, <1>2 DEF AloneSendInv, JobsAreOf, Changing
<1>8. UnsharedInv'
  BY <1>1, <1>2 DEF TextsInv, UnsharedInv, NoSecondJob
<1>10. BlindInv'
  <2>1. p \notin blind
    BY <1>1 DEF TextsInv, BlindInv, Changing
  <2> QED
    BY <1>1, <1>2, <2>1 DEF TextsInv, BlindInv, TR!TypeOK
<1>9. CurrentInv'
  <2> SUFFICES ASSUME disturbed' \subseteq {"blind"}, hash # NoVersion,
                      \A q \in Procs : pc'[q] \notin Changing
               PROVE  TR!Current'
    BY <1>1 DEF CurrentInv
  <2>1. disturbed' = disturbed /\ TR!Busy = {} /\ shared' = shared
    BY <1>1 DEF TextsInv, TR!TypeOK
  <2>2. \A q \in Procs : pc[q] \notin Changing
    BY <2>1 DEF TR!Busy, Changing
  <2> QED
    BY <1>1, <2>1, <2>2 DEF TextsInv, CurrentInv, TR!Current, TR!Newest
<1> QED
  BY <1>3, <1>4, <1>5, <1>6, <1>7, <1>8, <1>9, <1>10 DEF TextsInv

\* It reads the texts.
LEMMA ReadContentKeeps ==
  ASSUME TextsInv, NEW p \in Procs, TR!ReadContent(p)
  PROVE  TextsInv'
<1>1. /\ pc[p] = "read" /\ pc' = [pc EXCEPT ![p] = "should"]
      /\ data' = [data EXCEPT ![p] = content]
      /\ UNCHANGED <<event, running, content, hash, recent, jobs, listed, errs, alone, blind, disturbed, shared>>
      /\ TR!TypeOK /\ content \in Texts /\ p \in TR!Busy
  BY DEF TR!ReadContent, TR!Goto, TR!tables, TR!history, TextsInv, TR!TypeOK, TR!Busy
<1>2. pc'[p] = "should" /\ data'[p] \in Texts /\ OthersKeep(p)
  BY <1>1, TextTypes DEF OthersKeep
<1>3. TR!TypeOK'
  <2>1. pc' \in [Procs -> TR!Labels] /\ data' \in [Procs -> Texts \cup {NoVersion}]
    BY <1>1, TextTypes DEF TR!Labels
  <2> QED
    BY <1>1, <2>1 DEF TR!TypeOK
<1>4. JobsTyped' /\ JobsAreOf(p)'
  BY <1>1, <1>2 DEF TextsInv, JobsTyped, JobsAreOf, Changing
<1>5. ~shared => NoSecondJob'
  BY <1>1 DEF TextsInv, UnsharedInv, NoSecondJob
<1>6. "should" \in RunLabels /\ pc[p] \notin Changing /\ p \notin blind
  BY <1>1 DEF RunLabels, TR!Labels, Changing, TextsInv, BlindInv
<1> QED
  BY <1>1, <1>2, <1>3, <1>4, <1>5, <1>6, SendKeeps

\* It lists the jobs, or is told of none.
LEMMA GetJobsKeeps ==
  ASSUME TextsInv, NEW p \in Procs, TR!GetJobs(p)
  PROVE  TextsInv'
<1>1. /\ pc[p] = "list" /\ pc' = [pc EXCEPT ![p] = "update"]
      /\ \/ /\ listed' = [listed EXCEPT ![p] = [l \in Languages |-> Len(jobs[l])]]
            /\ UNCHANGED <<blind, shared>>
         \/ /\ listed' = [listed EXCEPT ![p] = [l \in Languages |-> 0]]
            /\ blind' = blind \cup {p} /\ shared' = TRUE
      /\ UNCHANGED <<event, running, content, data, hash, recent, jobs, errs, alone, disturbed>>
      /\ TR!TypeOK /\ p \in TR!Busy
  BY DEF TR!GetJobs, TR!Goto, TR!tables, TextsInv, TR!Busy
<1>2. p \notin blind
  BY <1>1 DEF TextsInv, BlindInv, Changing
<1>3. /\ pc'[p] = "update" /\ OthersKeep(p)
      /\ \A l \in Languages : listed'[p][l] = IF p \in blind' THEN 0 ELSE Len(jobs[l])
  BY <1>1, <1>2, TextTypes DEF OthersKeep
<1>4. JobsTyped'
  <2>1. /\ [l \in Languages |-> Len(jobs[l])] \in [Languages -> Nat]
        /\ [l \in Languages |-> 0] \in [Languages -> Nat]
    BY TextTypes
  <2>2. listed' \in [Procs -> [Languages -> Nat]]
    BY <1>1, <2>1, TextTypes
  <2> QED
    BY <1>1, <2>2, TextTypes DEF JobsTyped
<1>5. TR!TypeOK'
  <2>1. pc' \in [Procs -> TR!Labels] /\ blind' \in SUBSET Procs /\ shared' \in BOOLEAN
    BY <1>1, TextTypes DEF TR!Labels, TR!TypeOK
  <2>2. ASSUME NEW q \in Procs, NEW l \in Languages PROVE listed'[q][l] \in 0..Len(jobs[l])
    <3>1. Len(jobs[l]) \in Nat /\ listed[q][l] \in 0..Len(jobs[l])
      BY <1>1, TextTypes DEF TR!TypeOK
    <3>2. listed'[q][l] \in {0, Len(jobs[l]), listed[q][l]}
      BY <1>3 DEF OthersKeep
    <3> QED
      BY <3>1, <3>2
  <2> QED
    BY <1>1, <2>1, <2>2 DEF TR!TypeOK
<1>6. JobsAreOf(p)'
  BY <1>1, <1>3 DEF JobsAreOf, Changing
<1>7. data[p] \in Texts /\ (~shared' => NoSecondJob')
  BY <1>1 DEF TextsInv, UnsharedInv, NoSecondJob, SendingInv
<1>8. "update" \in RunLabels /\ pc[p] \notin Changing
  BY <1>1 DEF RunLabels, TR!Labels, Changing
<1> QED
  BY <1>1, <1>3, <1>4, <1>5, <1>6, <1>7, <1>8, SendKeeps

\* The sources are those of the run, of all jobs that it goes by, if no error
\* has come up.
LEMMA UpdateSourceKeeps ==
  ASSUME TextsInv, NEW p \in Procs, TR!UpdateSource(p)
  PROVE  TextsInv'
<1>1. /\ pc[p] = "update" /\ pc' = [pc EXCEPT ![p] = "create"]
      /\ \/ jobs' = TR!Updated(p) /\ errs' = errs
         \/ jobs' \in {jobs, TR!Updated(p)} /\ errs' = errs \cup {p}
      /\ UNCHANGED <<event, running, content, data, hash, recent, listed, alone, blind, disturbed, shared>>
      /\ TR!TypeOK /\ p \in TR!Busy /\ data[p] \in Texts
  BY DEF TR!UpdateSource, TR!Goto, TR!tables, TR!history, TextsInv, TR!Busy, SendingInv
<1>2. \A l \in Languages : /\ jobs'[l] \in Seq(Texts \cup {NoVersion})
                           /\ Len(jobs'[l]) = Len(jobs[l]) /\ DOMAIN jobs'[l] = DOMAIN jobs[l]
                           /\ p \notin errs' => \A n \in DOMAIN jobs[l] :
                                  n <= listed[p][l] => jobs'[l][n] = data[p]
  <2> SUFFICES ASSUME NEW l \in Languages
               PROVE  /\ jobs'[l] \in Seq(Texts \cup {NoVersion})
                      /\ Len(jobs'[l]) = Len(jobs[l]) /\ DOMAIN jobs'[l] = DOMAIN jobs[l]
                      /\ p \notin errs' => \A n \in DOMAIN jobs[l] :
                             n <= listed[p][l] => jobs'[l][n] = data[p]
    OBVIOUS
  <2>1. jobs[l] \in Seq(Texts \cup {NoVersion}) /\ DOMAIN jobs[l] = 1..Len(jobs[l])
    BY TextTypes
  <2> DEFINE updated == [n \in 1..Len(jobs[l]) |->
                            IF n <= listed[p][l] THEN data[p] ELSE jobs[l][n]]
  <2>2. TR!Updated(p)[l] = updated
    BY <2>1 DEF TR!Updated
  <2>3. updated \in Seq(Texts \cup {NoVersion}) /\ Len(updated) = Len(jobs[l])
    BY <1>1, <2>1
  <2>4. jobs'[l] = updated \/ (jobs'[l] = jobs[l] /\ p \in errs')
    BY <1>1, <2>2
  <2>5. CASE jobs'[l] = updated
    BY <2>1, <2>3, <2>5
  <2>6. CASE jobs'[l] = jobs[l] /\ p \in errs'
    BY <2>1, <2>6
  <2> QED
    BY <2>4, <2>5, <2>6
<1>3. jobs' \in [Languages -> Seq(Texts \cup {NoVersion})]
  <2>1. DOMAIN jobs' = Languages /\ jobs' = [l \in DOMAIN jobs' |-> jobs'[l]]
    BY <1>1, TextTypes DEF TR!Updated
  <2> QED
    BY <1>2, <2>1
<1>4. JobsTyped'
  BY <1>1, <1>3, TextTypes DEF JobsTyped
<1>5. TR!TypeOK'
  <2>1. pc' \in [Procs -> TR!Labels] /\ errs' \in SUBSET Procs
    BY <1>1, TextTypes DEF TR!Labels, TR!TypeOK
  <2>2. \A l \in Languages : \A n \in DOMAIN jobs'[l] : jobs'[l][n] \in Texts \cup {NoVersion}
    BY <1>2
  <2>3. \A q \in Procs, l \in Languages : listed'[q][l] \in 0..Len(jobs'[l])
    BY <1>1, <1>2 DEF TR!TypeOK
  <2> QED
    BY <1>1, <2>1, <2>2, <2>3 DEF TR!TypeOK
<1>6. p \in alone => JobsAreOf(p)'
  <2> SUFFICES ASSUME p \in alone, NEW l \in Languages
               PROVE  /\ listed[p][l] = IF p \in blind THEN 0 ELSE Len(jobs'[l])
                      /\ p \notin errs' /\ p \notin blind =>
                             \A n \in DOMAIN jobs'[l] : jobs'[l][n] = data[p]
    BY <1>1, TextTypes DEF JobsAreOf
  <2>1. /\ listed[p][l] = IF p \in blind THEN 0 ELSE Len(jobs[l])
        /\ DOMAIN jobs[l] = 1..Len(jobs[l])
    BY <1>1, TextTypes DEF TextsInv, AloneSendInv, JobsAreOf
  <2> QED
    BY <1>2, <2>1
<1>7. ~shared => NoSecondJob'
  BY <1>2 DEF TextsInv, UnsharedInv, NoSecondJob
<1>8. "create" \in RunLabels /\ "create" \in Changing
  BY DEF RunLabels, TR!Labels, Changing
<1>9. OthersKeep(p)
  BY <1>1 DEF OthersKeep
<1>10. /\ p \in TR!Busy /\ pc' = [pc EXCEPT ![p] = "create"]
       /\ UNCHANGED <<event, hash, alone, blind, disturbed, shared>>
       /\ data'[p] \in Texts
  BY <1>1
<1> QED
  BY <1>4, <1>5, <1>6, <1>7, <1>8, <1>9, <1>10, SendKeeps

\* Jobs are created where there were none, and so for every language.
LEMMA CreateJobKeeps ==
  ASSUME TextsInv, NEW p \in Procs, TR!CreateJob(p)
  PROVE  TextsInv'
<1> DEFINE created == [l \in Languages |->
                          IF listed[p][l] = 0 THEN Append(jobs[l], data[p]) ELSE jobs[l]]
<1>1. /\ pc[p] = "create" /\ pc' = [pc EXCEPT ![p] = "notify"]
      /\ \/ jobs' = created /\ errs' = errs
         \/ jobs' \in {jobs, created} /\ errs' = errs \cup {p}
      /\ UNCHANGED <<event, running, content, data, hash, recent, listed, alone, blind, disturbed, shared>>
      /\ TR!TypeOK /\ p \in TR!Busy /\ data[p] \in Texts
  BY DEF TR!CreateJob, TR!Goto, TR!tables, TR!history, TextsInv, TR!Busy, SendingInv
<1>2. created \in [Languages -> Seq(Texts \cup {NoVersion})]
  BY <1>1, TextTypes
<1>3. \A l \in Languages :
          \/ jobs'[l] = jobs[l] /\ (p \notin errs' => listed[p][l] # 0)
          \/ listed[p][l] = 0 /\ jobs'[l] = Append(jobs[l], data[p])
  BY <1>1, TextTypes
<1> HIDE DEF created
<1>4. JobsTyped' /\ jobs' \in [Languages -> Seq(Texts \cup {NoVersion})]
  BY <1>1, <1>2, TextTypes DEF JobsTyped
<1>5. \A l \in Languages :
          \/ jobs'[l] = jobs[l] /\ (p \notin errs' => listed[p][l] # 0)
          \/ /\ listed[p][l] = 0 /\ Len(jobs'[l]) = Len(jobs[l]) + 1
             /\ jobs'[l] # <<>> /\ jobs'[l][Len(jobs'[l])] = data[p]
             /\ \A n \in DOMAIN jobs'[l] : \/ n \in DOMAIN jobs[l] /\ jobs'[l][n] = jobs[l][n]
                                           \/ n = Len(jobs[l]) + 1 /\ jobs'[l][n] = data[p]
  <2> SUFFICES ASSUME NEW l \in Languages, jobs'[l] = Append(jobs[l], data[p])
               PROVE  /\ Len(jobs'[l]) = Len(jobs[l]) + 1
                      /\ jobs'[l] # <<>> /\ jobs'[l][Len(jobs'[l])] = data[p]
                      /\ \A n \in DOMAIN jobs'[l] :
                             \/ n \in DOMAIN jobs[l] /\ jobs'[l][n] = jobs[l][n]
                             \/ n = Len(jobs[l]) + 1 /\ jobs'[l][n] = data[p]
    BY <1>3
  <2>1. jobs[l] \in Seq(Texts \cup {NoVersion}) /\ data[p] \in Texts \cup {NoVersion}
    BY <1>1, TextTypes
  <2>2. jobs'[l] # <<>> /\ jobs'[l][Len(jobs'[l])] = data[p]
    BY <2>1, NewestAppended
  <2> QED
    BY <2>1, <2>2
<1>6. TR!TypeOK'
  <2>1. pc' \in [Procs -> TR!Labels] /\ errs' \in SUBSET Procs
    BY <1>1, TextTypes DEF TR!Labels, TR!TypeOK
  <2>2. \A l \in Languages : \A n \in DOMAIN jobs'[l] : jobs'[l][n] \in Texts \cup {NoVersion}
    BY <1>4
  <2>3. \A q \in Procs, l \in Languages : listed'[q][l] \in 0..Len(jobs'[l])
    <3> SUFFICES ASSUME NEW q \in Procs, NEW l \in Languages
                 PROVE  listed[q][l] \in 0..Len(jobs'[l])
      BY <1>1
    <3>1. listed[q][l] \in 0..Len(jobs[l]) /\ Len(jobs[l]) \in Nat
      BY <1>1, TextTypes DEF TR!TypeOK
    <3>2. Len(jobs'[l]) \in {Len(jobs[l]), Len(jobs[l]) + 1}
      BY <1>5
    <3> QED
      BY <3>1, <3>2
  <2> QED
    BY <1>1, <2>1, <2>2, <2>3 DEF TR!TypeOK
<1>7. p \in alone => /\ JobsAreOf(p)'
                     /\ ~shared => NoSecondJob'
  <2> SUFFICES ASSUME p \in alone, NEW l \in Languages
               PROVE  /\ p \notin errs' => /\ jobs'[l] # <<>>
                                           /\ jobs'[l][Len(jobs'[l])] = data[p]
                      /\ p \notin errs' /\ p \notin blind =>
                             \A n \in DOMAIN jobs'[l] : jobs'[l][n] = data[p]
                      /\ ~shared => Len(jobs'[l]) <= 1
    BY <1>1, TextTypes DEF JobsAreOf, NoSecondJob, TR!Newest
  <2>1. /\ listed[p][l] = (IF p \in blind THEN 0 ELSE Len(jobs[l])) /\ Len(jobs[l]) \in Nat
        /\ p \notin errs /\ p \notin blind => \A n \in DOMAIN jobs[l] : jobs[l][n] = data[p]
        /\ ~shared => Len(jobs[l]) <= 1 /\ p \notin blind
        /\ p \notin errs' => p \notin errs
        /\ jobs[l] \in Seq(Texts \cup {NoVersion})
    BY <1>1, TextTypes DEF TextsInv, AloneSendInv, JobsAreOf, UnsharedInv, NoSecondJob, Changing
  <2>2. CASE jobs'[l] = jobs[l] /\ (p \notin errs' => listed[p][l] # 0)
    <3>1. ASSUME p \notin errs' PROVE jobs[l] # <<>> /\ jobs[l][Len(jobs[l])] = data[p]
      <4>1. p \notin blind /\ Len(jobs[l]) # 0
        BY <2>1, <2>2, <3>1
      <4>2. \A n \in DOMAIN jobs[l] : jobs[l][n] = data[p]
        BY <2>1, <3>1, <4>1
      <4> QED
        BY <2>1, <4>1, <4>2, NewestOfSame
    <3> QED
      BY <2>1, <2>2, <3>1
  <2>3. CASE /\ listed[p][l] = 0 /\ Len(jobs'[l]) = Len(jobs[l]) + 1
             /\ jobs'[l] # <<>> /\ jobs'[l][Len(jobs'[l])] = data[p]
             /\ \A n \in DOMAIN jobs'[l] : \/ n \in DOMAIN jobs[l] /\ jobs'[l][n] = jobs[l][n]
                                           \/ n = Len(jobs[l]) + 1 /\ jobs'[l][n] = data[p]
    <3>1. ASSUME p \notin blind
          PROVE  Len(jobs'[l]) = 1 /\ \A n \in DOMAIN jobs'[l] : jobs'[l][n] = data[p]
      <4>1. Len(jobs[l]) = 0 /\ Len(jobs'[l]) = Len(jobs[l]) + 1
        BY <2>1, <2>3, <3>1
      <4>2. Len(jobs'[l]) = 1 /\ 1..Len(jobs[l]) = {}
        BY <4>1, TheFirst
      <4>3. DOMAIN jobs[l] = {}
        <5>1. DOMAIN jobs[l] = 1..Len(jobs[l])
          BY TextTypes
        <5> QED
          BY <4>2, <5>1
      <4> QED
        BY <2>3, <4>2, <4>3
    <3>2. ~shared => Len(jobs'[l]) <= 1
      <4>1. ~shared => Len(jobs'[l]) = 1
        BY <2>1, <3>1
      <4>2. ASSUME NEW n, n = 1 PROVE n <= 1
        BY <4>2
      <4> QED
        BY <4>1, <4>2
    <3> QED
      BY <2>3, <3>1, <3>2
  <2> QED
    BY <1>5, <2>2, <2>3
<1>8. "notify" \in RunLabels /\ "notify" \in Changing
  BY DEF RunLabels, TR!Labels, Changing
<1>9. OthersKeep(p)
  BY <1>1 DEF OthersKeep
<1>10. /\ p \in TR!Busy /\ pc' = [pc EXCEPT ![p] = "notify"]
       /\ UNCHANGED <<event, hash, alone, blind, disturbed, shared>>
       /\ data'[p] \in Texts
  BY <1>1
<1> QED
  BY <1>4, <1>6, <1>7, <1>8, <1>9, <1>10, SendKeeps

\* Two steps that lead to the end of a run, or on: is there anything to send,
\* and is there an error.
LEMMA GoOnKeeps ==
  ASSUME TextsInv, NEW p \in Procs,
         \/ pc[p] = "should" /\ pc' = [pc EXCEPT ![p] = "list"]
         \/ pc[p] = "notify" /\ pc' = [pc EXCEPT ![p] = "record"] /\ p \notin errs,
         UNCHANGED <<event, running, content, data, hash, recent, jobs, listed, errs, alone,
                     blind, disturbed, shared>>
  PROVE  TextsInv'
<1>1. /\ TR!TypeOK /\ p \in TR!Busy /\ data[p] \in Texts
  BY DEF TextsInv, TR!Busy, SendingInv
<1>2. PICK label \in {"list", "record"} :
          /\ pc' = [pc EXCEPT ![p] = label] /\ pc'[p] = label
          /\ label = "list" => pc[p] = "should"
          /\ label = "record" => pc[p] = "notify" /\ p \notin errs
  BY TextTypes
<1>3. TR!TypeOK'
  <2>1. pc' \in [Procs -> TR!Labels]
    BY <1>2, TextTypes DEF TR!Labels
  <2> QED
    BY <1>1, <2>1 DEF TR!TypeOK
<1>4. JobsTyped' /\ (p \in alone => JobsAreOf(p)')
  BY <1>2 DEF TextsInv, JobsTyped, AloneSendInv, JobsAreOf, TR!Newest, Changing
<1>5. ~shared => NoSecondJob'
  BY <1>1 DEF TextsInv, UnsharedInv, NoSecondJob
<1>6. /\ label \in RunLabels
      /\ label \in Changing \/ (jobs' = jobs /\ pc[p] \notin Changing)
      /\ label = "record" => p \notin errs'
      /\ p \in blind => label \in Changing
  <2>1. CASE label = "list"
    BY <1>2, <2>1 DEF RunLabels, TR!Labels, Changing, TextsInv, BlindInv
  <2>2. CASE label = "record"
    <3>1. label \in RunLabels /\ label \in Changing
      BY <2>2 DEF RunLabels, TR!Labels, Changing
    <3> QED
      BY <1>2, <3>1
  <2> QED
    BY <2>1, <2>2
<1>7. /\ pc' = [pc EXCEPT ![p] = label]
      /\ OthersKeep(p)
      /\ UNCHANGED <<event, hash, alone, blind, disturbed, shared>>
      /\ data'[p] \in Texts
      /\ ~shared' => NoSecondJob'
      /\ p \in blind' => label \in Changing \cup {"update"}
  BY <1>1, <1>2, <1>5, <1>6 DEF OthersKeep
<1> QED
  BY <1>1, <1>3, <1>4, <1>6, <1>7, SendKeeps

\* A run leaves, one way or another.
LEMMA LeaveStepKeeps ==
  ASSUME TextsInv, NEW p \in Procs, NEW label \in {"idle", "del"}, TR!Leave(p, label),
         \/ pc[p] = "should" /\ label = "del" /\ UNCHANGED <<event, hash, recent, disturbed>>
         \/ TR!UpdateHash(p) /\ label = "del"
         \/ /\ TR!Failed(p) /\ UNCHANGED <<hash, recent>>
            /\ \/ label = "del" /\ UNCHANGED event /\ pc[p] # "idle"
               \/ label = "idle" /\ event' = [event EXCEPT ![p] = NoEvent],
         UNCHANGED <<running, content, jobs>>
  PROVE  TextsInv'
<1>1. /\ TR!TypeOK /\ pc' = [pc EXCEPT ![p] = label] /\ pc'[p] = label
      /\ \A q \in Procs \ {p} : pc'[q] = pc[q]
  BY TextTypes DEF TextsInv, TR!Leave, TR!Goto
<1>2. \/ event' = event /\ label = "del" /\ pc[p] # "idle"
      \/ label = "idle" /\ event' = [event EXCEPT ![p] = NoEvent]
  <2>1. ASSUME TR!UpdateHash(p) PROVE event' = event /\ pc[p] = "record"
    BY <2>1 DEF TR!UpdateHash
  <2> QED
    BY <2>1
<1>3. /\ event' \in [Procs -> Events \cup {NoEvent}]
      /\ \A q \in Procs \ {p} : event'[q] = event[q]
  BY <1>2, TextTypes
<1>4. EventInv'
  <2>1. \A q \in Procs \ {p} : pc'[q] # "idle" => event'[q] \in Events
    BY <1>1, <1>3 DEF TextsInv, EventInv
  <2>2. pc'[p] # "idle" => event'[p] \in Events
    BY <1>1, <1>2 DEF TextsInv, EventInv
  <2> QED
    BY <2>1, <2>2 DEF EventInv
<1>5. recent' \in BOOLEAN /\ disturbed' \in SUBSET {"overlap", "failure", "blind"}
  BY <1>1 DEF TR!UpdateHash, TR!Failed, TR!TypeOK
<1>6. \/ /\ hash' = hash /\ disturbed' = disturbed /\ pc[p] \notin Changing
      \/ hash' = hash /\ disturbed' = disturbed \cup {"failure"}
      \/ /\ pc[p] = "record" /\ hash' = data[p]
         /\ disturbed' = IF p \in alone THEN IF p \in blind THEN {"blind"} ELSE {}
                         ELSE disturbed
  <2>1. CASE TR!Failed(p) /\ UNCHANGED <<hash, recent>>
    <3>1. p \notin TR!Busy => pc[p] \notin Changing
      BY DEF TR!Busy, Changing
    <3> QED
      BY <2>1, <3>1 DEF TR!Failed
  <2>2. CASE TR!UpdateHash(p)
    BY <2>2 DEF TR!UpdateHash
  <2>3. CASE pc[p] = "should" /\ UNCHANGED <<event, hash, recent, disturbed>>
    BY <2>3 DEF Changing
  <2> QED
    BY <2>1, <2>2, <2>3
<1>7. hash' \in {hash, data[p]}
  BY <1>6
<1> QED
  BY <1>3, <1>4, <1>5, <1>6, <1>7, LeaveKeeps

LEMMA TextsStep == TextsInv /\ [TR!Next]_(TR!vars) => TextsInv'
<1> SUFFICES ASSUME TextsInv, [TR!Next]_(TR!vars) PROVE TextsInv'
  OBVIOUS
<1>1. CASE UNCHANGED TR!vars
  <2>1. TR!TypeOK' /\ EventInv'
    BY <1>1 DEF TR!vars, TR!locals, TR!tables, TR!history, TextsInv, TR!TypeOK, EventInv
  <2> QED
    BY <1>1, <2>1, OutsideKeeps DEF TR!vars, TR!locals, TR!tables, TR!history
<1>2. ASSUME NEW p \in Procs, TR!Proceed(p) \/ TR!Crash(p)
      PROVE  TextsInv'
  <2>1. CASE TR!GetKey(p) \/ TR!DelKey(p)
    BY <2>1, OutsideStepKeeps
  <2>2. CASE TR!SetKey(p) \/ TR!ReadContent(p) \/ TR!GetJobs(p) \/ TR!UpdateSource(p) \/ TR!CreateJob(p)
    BY <2>2, SetKeyKeeps, ReadContentKeeps, GetJobsKeeps, UpdateSourceKeeps, CreateJobKeeps
  <2>3. CASE TR!ShouldSend(p)
    <3>1. CASE hash = data[p] \/ recent
      BY <2>3, <3>1, LeaveStepKeeps DEF TR!ShouldSend, TR!tables
    <3>2. CASE ~(hash = data[p] \/ recent)
      BY <2>3, <3>2, GoOnKeeps
      DEF TR!ShouldSend, TR!Goto, TR!locals, TR!tables, TR!history
    <3> QED
      BY <3>1, <3>2
  <2>4. CASE TR!Notify(p)
    <3>1. CASE TR!Leave(p, "del") /\ TR!Failed(p) /\ UNCHANGED event
      BY <2>4, <3>1, LeaveStepKeeps DEF TR!Notify, TR!tables
    <3>2. CASE ~(TR!Leave(p, "del") /\ TR!Failed(p) /\ UNCHANGED event)
      BY <2>4, <3>2, GoOnKeeps
      DEF TR!Notify, TR!Goto, TR!locals, TR!tables, TR!history
    <3> QED
      BY <3>1, <3>2
  <2>5. CASE TR!UpdateHash(p)
    BY <2>5, LeaveStepKeeps DEF TR!UpdateHash
  <2>6. CASE TR!Fail(p)
    BY <2>6, LeaveStepKeeps DEF TR!Fail, TR!tables
  <2>7. CASE TR!Crash(p)
    BY <2>7, LeaveStepKeeps DEF TR!Crash, TR!tables
  <2> QED
    BY <1>2, <2>1, <2>2, <2>3, <2>4, <2>5, <2>6, <2>7 DEF TR!Proceed
<1>3. CASE (\E p \in Procs : TR!Deliver(p)) \/ (\E e \in Events : TR!ExpireKey(e))
           \/ TR!Elapse \/ TR!Edit
  BY <1>3, OutsideStepKeeps
<1> QED
  BY <1>1, <1>2, <1>3 DEF TR!Next

TextBehaviourInv == kind = "translations" => TextsInv

LEMMA TextsOfServer ==
  /\ Init => TextBehaviourInv
  /\ TextBehaviourInv /\ [Next]_vars => TextBehaviourInv'
<1>1. Init => TextBehaviourInv
  BY TextsInit DEF Init, TextBehaviourInv
<1>2. ASSUME TextBehaviourInv, [Next]_vars, kind' = "translations" PROVE TextsInv'
  <2>1. kind = "translations" /\ [TR!Next]_(TR!vars)
    BY <1>2
    DEF Next, OfCopy, OfIndex, OfChapters, OfTranslations, vars, textVars,
        TR!vars, TR!locals, TR!tables, TR!history
  <2> QED
    BY <1>2, <2>1, TextsStep DEF TextBehaviourInv
<1> QED
  BY <1>1, <1>2 DEF TextBehaviourInv

\* What is recorded as sent is what the newest job of every language has, and
\* what every job has unless the run was told of none, also where GetJobs hides
\* that it had no answer; except when runs overlapped or failed since a send that
\* nothing overlapped and that succeeded.  A language has two jobs only if runs
\* overlapped or were told of none.
THEOREM RecordedIsWhatJobsHave == Spec => []RecordedIsSent
<1>1. TextBehaviourInv => RecordedIsSent
  <2>1. ASSUME TextsInv, TR!Busy = {} PROVE \A p \in Procs : pc[p] \notin Changing
    BY <2>1 DEF TR!Busy, Changing
  <2> QED
    BY <2>1 DEF TextBehaviourInv, TextsInv, CurrentInv, RecordedIsSent, TR!RecordedIsSent
<1> QED
  BY <1>1, TextsOfServer, PTL DEF Spec
-----------------------------------------------------------------------------
\* The types of whatever component the behaviour is about.
THEOREM JobsTypeCorrect == Spec => []TypeOK
<1> DEFINE KindInv == kind \in Kinds
<1>1. Init => KindInv
  BY DEF Init
<1>2. KindInv /\ [Next]_vars => KindInv'
  BY DEF Next, OfCopy, OfIndex, OfChapters, OfTranslations, vars
<1>3. KindInv /\ CopyInv /\ IndexBehaviourInv /\ ChapterBehaviourInv /\ TextBehaviourInv => TypeOK
  <2> SUFFICES ASSUME KindInv, CopyInv, IndexBehaviourInv, ChapterBehaviourInv, TextBehaviourInv
               PROVE  TypeOK
    OBVIOUS
  <2>1. kind \in {"copy", "index", "chapters", "translations"}
    BY JobsAssumption
  <2>2. MPC!TypeOK
    BY DEF CopyInv
  <2>3. kind = "index" => SI!TypeOK
    BY DEF IndexBehaviourInv, IndexInv
  <2>4. kind = "chapters" => TM!TypeOK
    BY DEF ChapterBehaviourInv, ChaptersInv
  <2>5. kind = "translations" => TR!TypeOK
    BY DEF TextBehaviourInv, TextsInv
  <2> QED
    BY <2>1, <2>2, <2>3, <2>4, <2>5 DEF TypeOK
<1> HIDE DEF KindInv
<1> QED
  BY <1>1, <1>2, <1>3, Inductive, IndexOfServer, ChaptersOfServer, TextsOfServer, PTL DEF Spec
=============================================================================
