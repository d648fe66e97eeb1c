-------------------------- MODULE AssetIngestProofs --------------------------
(***************************************************************************)
(* What an ingest keeps safe, for every number of attempts that overlap,   *)
(* of streams, files and endpoints.                                        *)
(*                                                                         *)
(* Each attempt carries its own evidence (AttemptInv): while it copies,    *)
(* what it has not copied is still to do unless it has failed, so when it  *)
(* goes on from copying its folder is whole and stays so.  Files leave the *)
(* ingest bucket through an attempt in that state only (DeletedInv).       *)
(***************************************************************************)
EXTENDS AssetIngest, TLAPS

\* The asset of a is there, and its folder holds the whole delivery.
Whole(a) == status[a] # "none" /\ storage[a] = Copied

\* The streams of a are all recorded.
StreamsIn(a) == HasStreams => a \in arn /\ endpoints[a] = Endpoints

AttemptInv(a) ==
    /\ pc[a] \in {"undelivered", "read", "insert", "smil"} => a \notin failed
    /\ pc[a] \in {"smil", "copy"} => status[a] # "none"
    /\ pc[a] = "copy" /\ a \notin failed => Copied \subseteq storage[a] \cup todo[a]
    /\ pc[a] \in {"package", "arn", "endpoints", "files", "delete"} => Whole(a)
    /\ a \in arn \/ endpoints[a] # {} \/ files[a] # {} \/ status[a] = "published"
         => Whole(a)
    /\ pc[a] = "endpoints" => a \in arn /\ Endpoints \subseteq endpoints[a] \cup todo[a]
    /\ pc[a] \in {"files", "delete"} => StreamsIn(a)

\* Whatever is missing from the ingest bucket, some whole asset has.
DeletedInv ==
    ingest # Copied \cup {Meta} => \E a \in Attempts : Whole(a) /\ StreamsIn(a)

IInv == TypeOK /\ (\A a \in Attempts : AttemptInv(a)) /\ DeletedInv

LEMMA InitIInv == Init => IInv
  <1> SUFFICES ASSUME Init PROVE IInv
    OBVIOUS
  <1>1. TypeOK
    BY DEF Init, TypeOK
  <1>2. \A a \in Attempts : AttemptInv(a)
    BY DEF Init, AttemptInv, Whole, StreamsIn
  <1>3. DeletedInv
    BY DEF Init, DeletedInv
  <1> QED BY <1>1, <1>2, <1>3 DEF IInv

\* A step of attempt a keeps the types, the evidence of every attempt and the
\* account of what is missing.
LEMMA NextIInv == IInv /\ [Next]_vars => IInv'
  <1> SUFFICES ASSUME IInv, [Next]_vars PROVE IInv'
    OBVIOUS
  <1>a. TypeOK /\ DeletedInv /\ \A b \in Attempts : AttemptInv(b)
    BY DEF IInv
  <1>b. /\ Deletable \subseteq Copied \cup {Meta}
        /\ Files \subseteq Copied
    BY DEF Deletable, ToDelete, Copied, StreamFiles, HasStreams
  <1> USE DEF Goto, Loop, Step, Fail, databaseVars, bucketVars, attemptVars
  <1> DEFINE Kept == \A c \in Attempts : Whole(c) /\ StreamsIn(c) => Whole(c)' /\ StreamsIn(c)'
  <1>1. ASSUME NEW a \in Attempts, Deliver(a) PROVE IInv'
    <2>1. TypeOK'
      BY <1>1, <1>a, <1>b DEF Deliver, TypeOK, AttemptInv, Whole
    <2>2. ASSUME NEW b \in Attempts PROVE AttemptInv(b)'
      <3>1. AttemptInv(a) /\ AttemptInv(b)
        BY <1>a
      <3> QED BY <1>1, <1>a, <1>b, <3>1 DEF Deliver, TypeOK, AttemptInv, Whole, StreamsIn
    <2>3. Kept /\ ingest' = ingest
      BY <1>1, <1>a DEF Deliver, TypeOK, AttemptInv, Whole, StreamsIn
    <2>4. DeletedInv'
      BY <1>a, <2>3 DEF DeletedInv
    <2> QED BY <2>1, <2>2, <2>4 DEF IInv
  <1>2. ASSUME NEW a \in Attempts, ReadMeta(a) PROVE IInv'
    <2>1. TypeOK'
      BY <1>2, <1>a, <1>b DEF ReadMeta, TypeOK, AttemptInv, Whole
    <2>2. ASSUME NEW b \in Attempts PROVE AttemptInv(b)'
      <3>1. AttemptInv(a) /\ AttemptInv(b)
        BY <1>a
      <3> QED BY <1>2, <1>a, <1>b, <3>1 DEF ReadMeta, TypeOK, AttemptInv, Whole, StreamsIn
    <2>3. Kept /\ ingest' = ingest
      BY <1>2, <1>a DEF ReadMeta, TypeOK, AttemptInv, Whole, StreamsIn
    <2>4. DeletedInv'
      BY <1>a, <2>3 DEF DeletedInv
    <2> QED BY <2>1, <2>2, <2>4 DEF IInv
  <1>3. ASSUME NEW a \in Attempts, InsertAsset(a) PROVE IInv'
    <2>1. TypeOK'
      BY <1>3, <1>a, <1>b DEF InsertAsset, TypeOK, AttemptInv, Whole
    <2>2. ASSUME NEW b \in Attempts PROVE AttemptInv(b)'
      <3>1. AttemptInv(a) /\ AttemptInv(b)
        BY <1>a
      <3> QED BY <1>3, <1>a, <1>b, <3>1 DEF InsertAsset, TypeOK, AttemptInv, Whole, StreamsIn
    <2>3. Kept /\ ingest' = ingest
      BY <1>3, <1>a DEF InsertAsset, TypeOK, AttemptInv, Whole, StreamsIn
    <2>4. DeletedInv'
      BY <1>a, <2>3 DEF DeletedInv
    <2> QED BY <2>1, <2>2, <2>4 DEF IInv
  <1>4. ASSUME NEW a \in Attempts, ReadSmil(a) PROVE IInv'
    <2>1. TypeOK'
      BY <1>4, <1>a, <1>b DEF ReadSmil, TypeOK, AttemptInv, Whole
    <2>2. ASSUME NEW b \in Attempts PROVE AttemptInv(b)'
      <3>1. AttemptInv(a) /\ AttemptInv(b)
        BY <1>a
      <3> QED BY <1>4, <1>a, <1>b, <3>1 DEF ReadSmil, TypeOK, AttemptInv, Whole, StreamsIn
    <2>3. Kept /\ ingest' = ingest
      BY <1>4, <1>a DEF ReadSmil, TypeOK, AttemptInv, Whole, StreamsIn
    <2>4. DeletedInv'
      BY <1>a, <2>3 DEF DeletedInv
    <2> QED BY <2>1, <2>2, <2>4 DEF IInv
  <1>5. ASSUME NEW a \in Attempts, NEW f \in Copied, Copy(a, f) PROVE IInv'
    <2>0. \A c \in Attempts : Whole(c) => Whole(c)'
      <3> SUFFICES ASSUME NEW c \in Attempts, Whole(c) PROVE Whole(c)'
        OBVIOUS
      <3>1. storage'[c] = storage[c] \/ storage'[c] = storage[c] \cup {f}
        BY <1>5, <1>a DEF Copy, TypeOK
      <3>2. storage'[c] = Copied
        BY <1>5, <3>1 DEF Whole
      <3> QED BY <1>5, <3>2 DEF Copy, Whole
    <2>1. TypeOK'
      BY <1>5, <1>a, <1>b DEF Copy, TypeOK, AttemptInv, Whole
    <2>2. ASSUME NEW b \in Attempts PROVE AttemptInv(b)'
      <3>1. AttemptInv(a) /\ AttemptInv(b)
        BY <1>a
      <3>2. Whole(b) => Whole(b)'
        BY <2>0
      <3>3. CASE b = a
        <4>1. pc[a] = "copy" /\ pc' = pc /\ UNCHANGED <<status, arn, endpoints, files>>
          BY <1>5 DEF Copy
        <4>2. a \notin failed' => Copied \subseteq storage'[a] \cup todo'[a]
          BY <1>5, <1>a, <3>1 DEF Copy, TypeOK, AttemptInv
        <4> QED BY <4>1, <4>2, <3>1, <3>2, <3>3 DEF AttemptInv
      <3>4. CASE b # a
        <4>1. /\ pc' = pc /\ UNCHANGED <<status, arn, endpoints, files>>
              /\ storage'[b] = storage[b] /\ todo'[b] = todo[b]
              /\ b \in failed' <=> b \in failed
          BY <1>5, <1>a, <3>4 DEF Copy, TypeOK
        <4> QED BY <4>1, <3>1, <3>2 DEF AttemptInv, StreamsIn
      <3> QED BY <3>3, <3>4
    <2>3. Kept /\ ingest' = ingest
      BY <1>5, <2>0 DEF Copy, StreamsIn
    <2>4. DeletedInv'
      BY <1>a, <2>3 DEF DeletedInv
    <2> QED BY <2>1, <2>2, <2>4 DEF IInv
  <1>6. ASSUME NEW a \in Attempts, CopyDone(a) PROVE IInv'
    <2>1. TypeOK'
      BY <1>6, <1>a, <1>b DEF CopyDone, AfterCopy, TypeOK, AttemptInv, Whole
    <2>2. ASSUME NEW b \in Attempts PROVE AttemptInv(b)'
      <3>1. AttemptInv(a) /\ AttemptInv(b)
        BY <1>a
      <3>2. ASSUME a \notin failed PROVE Whole(a)
        <4>1. Copied \subseteq storage[a] \cup todo[a] /\ todo[a] = {} /\ status[a] # "none"
          BY <1>6, <3>1, <3>2 DEF CopyDone, AttemptInv
        <4>2. storage[a] \subseteq Copied
          BY <1>a DEF TypeOK
        <4> QED BY <4>1, <4>2 DEF Whole
      <3>3. UNCHANGED <<storage, status, arn, endpoints, files>> /\ (Whole(b) <=> Whole(b)')
        BY <1>6 DEF CopyDone, Whole
      <3>4. CASE b = a
        <4>1. CASE a \notin failed
          BY <1>6, <1>a, <3>1, <3>2, <3>3, <3>4, <4>1
             DEF CopyDone, AfterCopy, TypeOK, AttemptInv, StreamsIn
        <4>2. CASE a \in failed
          BY <1>6, <1>a, <3>1, <3>3, <3>4, <4>2 DEF CopyDone, TypeOK, AttemptInv, StreamsIn
        <4> QED BY <4>1, <4>2
      <3>5. CASE b # a
        <4>1. pc'[b] = pc[b] /\ todo'[b] = todo[b] /\ (b \in failed' <=> b \in failed)
          BY <1>6, <1>a, <3>5 DEF CopyDone, AfterCopy, TypeOK
        <4> QED BY <4>1, <3>1, <3>3 DEF AttemptInv, StreamsIn
      <3> QED BY <3>4, <3>5
    <2>3. Kept /\ ingest' = ingest
      BY <1>6, <1>a DEF CopyDone, AfterCopy, TypeOK, AttemptInv, Whole, StreamsIn
    <2>4. DeletedInv'
      BY <1>a, <2>3 DEF DeletedInv
    <2> QED BY <2>1, <2>2, <2>4 DEF IInv
  <1>7. ASSUME NEW a \in Attempts, CreateAsset(a) PROVE IInv'
    <2>1. TypeOK'
      BY <1>7, <1>a, <1>b DEF CreateAsset, TypeOK, AttemptInv, Whole
    <2>2. ASSUME NEW b \in Attempts PROVE AttemptInv(b)'
      <3>1. AttemptInv(a) /\ AttemptInv(b)
        BY <1>a
      <3> QED BY <1>7, <1>a, <1>b, <3>1 DEF CreateAsset, TypeOK, AttemptInv, Whole, StreamsIn
    <2>3. Kept /\ ingest' = ingest
      BY <1>7, <1>a DEF CreateAsset, TypeOK, AttemptInv, Whole, StreamsIn
    <2>4. DeletedInv'
      BY <1>a, <2>3 DEF DeletedInv
    <2> QED BY <2>1, <2>2, <2>4 DEF IInv
  <1>8. ASSUME NEW a \in Attempts, UpdateAssetArn(a) PROVE IInv'
    <2>1. TypeOK'
      BY <1>8, <1>a, <1>b DEF UpdateAssetArn, TypeOK, AttemptInv, Whole
    <2>2. ASSUME NEW b \in Attempts PROVE AttemptInv(b)'
      <3>1. AttemptInv(a) /\ AttemptInv(b)
        BY <1>a
      <3> QED BY <1>8, <1>a, <1>b, <3>1 DEF UpdateAssetArn, TypeOK, AttemptInv, Whole, StreamsIn
    <2>3. Kept /\ ingest' = ingest
      BY <1>8, <1>a DEF UpdateAssetArn, TypeOK, AttemptInv, Whole, StreamsIn
    <2>4. DeletedInv'
      BY <1>a, <2>3 DEF DeletedInv
    <2> QED BY <2>1, <2>2, <2>4 DEF IInv
  <1>9. ASSUME NEW a \in Attempts, NEW e \in Endpoints, InsertAssetStream(a, e) PROVE IInv'
    <2>1. TypeOK'
      BY <1>9, <1>a, <1>b DEF InsertAssetStream, TypeOK, AttemptInv, Whole
    <2>2. ASSUME NEW b \in Attempts PROVE AttemptInv(b)'
      <3>1. AttemptInv(a) /\ AttemptInv(b)
        BY <1>a
      <3> QED BY <1>9, <1>a, <1>b, <3>1 DEF InsertAssetStream, TypeOK, AttemptInv, Whole, StreamsIn
    <2>3. Kept /\ ingest' = ingest
      <3>1. UNCHANGED <<ingest, storage, status, arn>>
        BY <1>9 DEF InsertAssetStream
      <3>2. ASSUME NEW c \in Attempts, endpoints[c] = Endpoints PROVE endpoints'[c] = Endpoints
        <4>1. endpoints'[c] = endpoints[c] \/ endpoints'[c] = endpoints[c] \cup {e}
          BY <1>9, <1>a DEF InsertAssetStream, TypeOK
        <4> QED BY <4>1, <3>2, <1>9
      <3> QED BY <3>1, <3>2 DEF Whole, StreamsIn
    <2>4. DeletedInv'
      BY <1>a, <2>3 DEF DeletedInv
    <2> QED BY <2>1, <2>2, <2>4 DEF IInv
  <1>10. ASSUME NEW a \in Attempts, StreamsDone(a) PROVE IInv'
    <2>1. TypeOK'
      BY <1>10, <1>a, <1>b DEF StreamsDone, TypeOK, AttemptInv, Whole
    <2>2. ASSUME NEW b \in Attempts PROVE AttemptInv(b)'
      <3>1. AttemptInv(a) /\ AttemptInv(b)
        BY <1>a
      <3> QED BY <1>10, <1>a, <1>b, <3>1 DEF StreamsDone, TypeOK, AttemptInv, Whole, StreamsIn
    <2>3. Kept /\ ingest' = ingest
      BY <1>10, <1>a DEF StreamsDone, TypeOK, AttemptInv, Whole, StreamsIn
    <2>4. DeletedInv'
      BY <1>a, <2>3 DEF DeletedInv
    <2> QED BY <2>1, <2>2, <2>4 DEF IInv
  <1>11. ASSUME NEW a \in Attempts, NEW f \in Files, InsertAssetFile(a, f) PROVE IInv'
    <2>1. TypeOK'
      BY <1>11, <1>a, <1>b DEF InsertAssetFile, TypeOK, AttemptInv, Whole
    <2>2. ASSUME NEW b \in Attempts PROVE AttemptInv(b)'
      <3>1. AttemptInv(a) /\ AttemptInv(b)
        BY <1>a
      <3> QED BY <1>11, <1>a, <1>b, <3>1 DEF InsertAssetFile, TypeOK, AttemptInv, Whole, StreamsIn
    <2>3. Kept /\ ingest' = ingest
      BY <1>11, <1>a DEF InsertAssetFile, TypeOK, AttemptInv, Whole, StreamsIn
    <2>4. DeletedInv'
      BY <1>a, <2>3 DEF DeletedInv
    <2> QED BY <2>1, <2>2, <2>4 DEF IInv
  <1>12. ASSUME NEW a \in Attempts, FilesDone(a) PROVE IInv'
    <2>1. TypeOK'
      BY <1>12, <1>a, <1>b DEF FilesDone, TypeOK, AttemptInv, Whole
    <2>2. ASSUME NEW b \in Attempts PROVE AttemptInv(b)'
      <3>1. AttemptInv(a) /\ AttemptInv(b)
        BY <1>a
      <3> QED BY <1>12, <1>a, <1>b, <3>1 DEF FilesDone, TypeOK, AttemptInv, Whole, StreamsIn
    <2>3. Kept /\ ingest' = ingest
      BY <1>12, <1>a DEF FilesDone, TypeOK, AttemptInv, Whole, StreamsIn
    <2>4. DeletedInv'
      BY <1>a, <2>3 DEF DeletedInv
    <2> QED BY <2>1, <2>2, <2>4 DEF IInv
  <1>13. ASSUME NEW a \in Attempts, DeleteObjects(a) PROVE IInv'
    <2>1. TypeOK'
      BY <1>13, <1>a, <1>b DEF DeleteObjects, TypeOK, AttemptInv, Whole
    <2>2. ASSUME NEW b \in Attempts PROVE AttemptInv(b)'
      <3>1. AttemptInv(a) /\ AttemptInv(b)
        BY <1>a
      <3> QED BY <1>13, <1>a, <1>b, <3>1 DEF DeleteObjects, TypeOK, AttemptInv, Whole, StreamsIn
    <2>3. DeletedInv'
      <3>1. Whole(a) /\ StreamsIn(a)
        BY <1>13, <1>a DEF DeleteObjects, AttemptInv
      <3>2. Whole(a)' /\ StreamsIn(a)'
        BY <1>13, <3>1 DEF DeleteObjects, Whole, StreamsIn
      <3> QED BY <3>2 DEF DeletedInv
    <2> QED BY <2>1, <2>2, <2>3 DEF IInv
  <1>14. ASSUME NEW a \in Attempts, Respond(a) PROVE IInv'
    <2>1. TypeOK'
      BY <1>14, <1>a, <1>b DEF Respond, TypeOK, AttemptInv, Whole
    <2>2. ASSUME NEW b \in Attempts PROVE AttemptInv(b)'
      <3>1. AttemptInv(a) /\ AttemptInv(b)
        BY <1>a
      <3> QED BY <1>14, <1>a, <1>b, <3>1 DEF Respond, TypeOK, AttemptInv, Whole, StreamsIn
    <2>3. Kept /\ ingest' = ingest
      BY <1>14, <1>a DEF Respond, TypeOK, AttemptInv, Whole, StreamsIn
    <2>4. DeletedInv'
      BY <1>a, <2>3 DEF DeletedInv
    <2> QED BY <2>1, <2>2, <2>4 DEF IInv
  <1>15. ASSUME NEW a \in Attempts, Crash(a) PROVE IInv'
    <2>1. TypeOK'
      BY <1>15, <1>a, <1>b DEF Crash, TypeOK, AttemptInv, Whole
    <2>2. ASSUME NEW b \in Attempts PROVE AttemptInv(b)'
      <3>1. AttemptInv(a) /\ AttemptInv(b)
        BY <1>a
      <3> QED BY <1>15, <1>a, <1>b, <3>1 DEF Crash, TypeOK, AttemptInv, Whole, StreamsIn
    <2>3. Kept /\ ingest' = ingest
      BY <1>15, <1>a DEF Crash, TypeOK, AttemptInv, Whole, StreamsIn
    <2>4. DeletedInv'
      BY <1>a, <2>3 DEF DeletedInv
    <2> QED BY <2>1, <2>2, <2>4 DEF IInv
  <1>16. ASSUME NEW a \in Attempts, Complete(a) PROVE IInv'
    <2>1. TypeOK'
      BY <1>16, <1>a, <1>b DEF Complete, TypeOK, AttemptInv, Whole
    <2>2. ASSUME NEW b \in Attempts PROVE AttemptInv(b)'
      <3>1. AttemptInv(a) /\ AttemptInv(b)
        BY <1>a
      <3> QED BY <1>16, <1>a, <1>b, <3>1 DEF Complete, TypeOK, AttemptInv, Whole, StreamsIn
    <2>3. Kept /\ ingest' = ingest
      BY <1>16, <1>a DEF Complete, TypeOK, AttemptInv, Whole, StreamsIn
    <2>4. DeletedInv'
      BY <1>a, <2>3 DEF DeletedInv
    <2> QED BY <2>1, <2>2, <2>4 DEF IInv
  <1>17. ASSUME NEW a \in Attempts, Publish(a) PROVE IInv'
    <2>1. TypeOK'
      BY <1>17, <1>a, <1>b DEF Publish, TypeOK, AttemptInv, Whole
    <2>2. ASSUME NEW b \in Attempts PROVE AttemptInv(b)'
      <3>1. AttemptInv(a) /\ AttemptInv(b)
        BY <1>a
      <3> QED BY <1>17, <1>a, <1>b, <3>1 DEF Publish, TypeOK, AttemptInv, Whole, StreamsIn
    <2>3. Kept /\ ingest' = ingest
      BY <1>17, <1>a DEF Publish, TypeOK, AttemptInv, Whole, StreamsIn
    <2>4. DeletedInv'
      BY <1>a, <2>3 DEF DeletedInv
    <2> QED BY <2>1, <2>2, <2>4 DEF IInv
  <1>18. ASSUME NEW a \in Attempts, Refuse(a) PROVE IInv'
    <2>1. TypeOK'
      BY <1>18, <1>a, <1>b DEF Refuse, TypeOK, AttemptInv, Whole
    <2>2. ASSUME NEW b \in Attempts PROVE AttemptInv(b)'
      <3>1. AttemptInv(a) /\ AttemptInv(b)
        BY <1>a
      <3> QED BY <1>18, <1>a, <1>b, <3>1 DEF Refuse, TypeOK, AttemptInv, Whole, StreamsIn
    <2>3. Kept /\ ingest' = ingest
      BY <1>18, <1>a DEF Refuse, TypeOK, AttemptInv, Whole, StreamsIn
    <2>4. DeletedInv'
      BY <1>a, <2>3 DEF DeletedInv
    <2> QED BY <2>1, <2>2, <2>4 DEF IInv
  <1>19. CASE UNCHANGED vars
    BY <1>19, <1>a DEF vars, IInv, TypeOK, AttemptInv, Whole, StreamsIn, DeletedInv
  <1> QED BY <1>1, <1>2, <1>3, <1>4, <1>5, <1>6, <1>7, <1>8, <1>9, <1>10, <1>11, <1>12, <1>13, <1>14, <1>15, <1>16, <1>17, <1>18, <1>19 DEF Next, Proceed

LEMMA Inductive == Spec => []IInv
  BY InitIInv, NextIInv, PTL DEF Spec

\* Types of the buckets, the rows and the attempts.
THEOREM TypeCorrect == Spec => []TypeOK
  <1>1. IInv => TypeOK
    BY DEF IInv
  <1> QED BY <1>1, Inductive, PTL

\* A delivered file is in the ingest bucket or in an asset's folder, however
\* many attempts handle the delivery at once and wherever they fail or die.
THEOREM NothingDeliveredIsLost == Spec => []NothingLost
  <1>1. IInv => NothingLost
    <2> SUFFICES ASSUME IInv, NEW f \in Copied, f \notin ingest
                 PROVE  \E a \in Attempts : status[a] # "none" /\ f \in storage[a]
      BY DEF NothingLost
    <2> QED BY DEF IInv, DeletedInv, Whole
  <1> QED BY <1>1, Inductive, PTL

\* The rows of an asset, and its publication, come after its copies.
THEOREM RowsComeAfterCopies == Spec => []RowsHaveObjects
  <1>1. IInv => RowsHaveObjects
    <2> SUFFICES ASSUME IInv, NEW a \in Attempts
                 PROVE  /\ files[a] \subseteq storage[a]
                        /\ endpoints[a] # {} \/ status[a] = "published"
                             => StreamFiles \subseteq storage[a]
      BY DEF RowsHaveObjects
    <2>1. AttemptInv(a) /\ files[a] \subseteq Files
      BY DEF IInv, TypeOK
    <2> QED BY <2>1 DEF AttemptInv, Whole, Copied
  <1> QED BY <1>1, Inductive, PTL

\* Only an attempt whose asset has its streams deletes from the ingest bucket.
THEOREM DeletionComesLast == Spec => []DeletedOnlyAfterStreams
  <1>1. IInv => DeletedOnlyAfterStreams
    BY DEF IInv, DeletedInv, Whole, StreamsIn, DeletedOnlyAfterStreams
  <1> QED BY <1>1, Inductive, PTL
=============================================================================
