----------------------------- MODULE AssetIngest -----------------------------
(***************************************************************************)
(* Ingesting one delivered asset: asset.Ingest of backend/asset/ingest.go, *)
(* its parallel copies (copy-objects.go), and UpdateIngestStatus, which    *)
(* the event of AWS MediaPackage triggers.                                 *)
(*                                                                         *)
(* A delivery is a meta file and the files it names, in the ingest bucket. *)
(* Its message is handled by one attempt, or by several when a worker dies *)
(* or a delivery is taken for lost: nothing recognises a message that was  *)
(* handled before.  Each attempt inserts an asset of its own, copies into  *)
(* a folder of its own (storagePrefix holds a fresh UUID), registers the   *)
(* streams with MediaPackage, writes rows, and deletes what it ingested.   *)
(* Every error ends the attempt and is answered with HTTP 200.             *)
(*                                                                         *)
(* File names are unique within a delivery.  Timed metadata of a chapters  *)
(* file, whose errors are only logged, are left out.                       *)
(*                                                                         *)
(* External: Pub/Sub, S3, the database, MediaPackage and SNS, which send   *)
(* the event of a completed ingest at any time after CreateAsset.          *)
(***************************************************************************)
EXTENDS FiniteSets

CONSTANTS Attempts,     \* bound: deliveries of the message
          Smil,         \* the SMIL file
          Streams,      \* the videos and subtitles it names, none without one
          Files,        \* the files of assetMeta.Files
          Meta,         \* the meta file
          Endpoints,    \* egress endpoints of a MediaPackage asset
          DeleteIngestFiles  \* config.GetDeleteIngestFilesFlag()

ASSUME IngestAssumption == /\ Streams \cap Files = {}
                           /\ {Smil, Meta} \cap (Streams \cup Files) = {}
                           /\ Smil # Meta
                           /\ DeleteIngestFiles \in BOOLEAN

VARIABLES unacked,   \* the message is not acknowledged
          ingest,    \* the delivery's files in the ingest bucket
          storage,   \* storage[a]: what attempt a has copied
          status,    \* status[a]: the asset row of a, "none" without one
          arn,       \* the attempts whose row has its ARN
          endpoints, \* endpoints[a]: assetstream rows
          files,     \* files[a]: assetfile rows
          event,     \* event[a]: MediaPackage's asset, and its event
          pc,        \* pc[a]: where a is in Ingest
          todo,      \* todo[a]: what the loop that a is in has left
          failed     \* the attempts that met an error (history)

databaseVars == <<status, arn, endpoints, files>>
bucketVars == <<ingest, storage>>
attemptVars == <<pc, todo, failed>>
vars == <<unacked, bucketVars, databaseVars, event, attemptVars>>

HasStreams == Streams # {}
StreamFiles == IF HasStreams THEN Streams \cup {Smil} ELSE {}
Copied == StreamFiles \cup Files

TypeOK == /\ unacked \in BOOLEAN
          /\ ingest \in SUBSET (Copied \cup {Meta})
          /\ storage \in [Attempts -> SUBSET Copied]
          /\ status \in [Attempts -> {"none", "draft", "published"}]
          /\ arn \in SUBSET {a \in Attempts : status[a] # "none"}
          /\ endpoints \in [Attempts -> SUBSET Endpoints]
          /\ files \in [Attempts -> SUBSET Files]
          /\ event \in [Attempts -> {"none", "created", "sent", "handled", "dropped"}]
          /\ pc \in [Attempts -> {"undelivered", "read", "insert", "smil", "copy",
                                  "package", "arn", "endpoints", "files", "delete",
                                  "respond", "done", "crashed"}]
          /\ todo \in [Attempts -> SUBSET (Copied \cup Endpoints)]
          /\ failed \in SUBSET Attempts

Init == /\ unacked = TRUE
        /\ ingest = Copied \cup {Meta}
        /\ storage = [a \in Attempts |-> {}]
        /\ status = [a \in Attempts |-> "none"]
        /\ arn = {}
        /\ endpoints = [a \in Attempts |-> {}]
        /\ files = [a \in Attempts |-> {}]
        /\ event = [a \in Attempts |-> "none"]
        /\ pc = [a \in Attempts |-> "undelivered"]
        /\ todo = [a \in Attempts |-> {}]
        /\ failed = {}

Goto(a, label) == pc' = [pc EXCEPT ![a] = label] /\ UNCHANGED failed

\* On to a loop over the elements of s.
Loop(a, label, s) == Goto(a, label) /\ todo' = [todo EXCEPT ![a] = s]

\* One element of the loop that a is in is dealt with.
Step(a, x) == /\ x \in todo[a]
              /\ todo' = [todo EXCEPT ![a] = @ \ {x}]

\* return merry.Wrap(err)
Fail(a) == /\ pc' = [pc EXCEPT ![a] = "respond"]
           /\ failed' = failed \cup {a}
-----------------------------------------------------------------------------
\* The message is delivered, the first time or once more.
Deliver(a) ==
    /\ unacked
    /\ pc[a] = "undelivered"
    /\ Goto(a, "read")
    /\ UNCHANGED <<unacked, bucketVars, databaseVars, event, todo>>

\* readJSONFromS3 of the meta file.
ReadMeta(a) ==
    /\ pc[a] = "read"
    /\ (Meta \in ingest /\ Goto(a, "insert")) \/ Fail(a)
    /\ UNCHANGED <<unacked, bucketVars, databaseVars, event, todo>>

\* InsertAsset, as a draft.
InsertAsset(a) ==
    /\ pc[a] = "insert"
    /\ \/ /\ status' = [status EXCEPT ![a] = "draft"]
          /\ IF HasStreams THEN Goto(a, "smil") /\ UNCHANGED todo
                           ELSE Loop(a, "copy", Copied)
       \/ Fail(a) /\ UNCHANGED <<status, todo>>
    /\ UNCHANGED <<unacked, bucketVars, arn, endpoints, files, event>>

\* Mutant: the meta file is copied as well.
ReadSmilAndMeta(a) ==
    /\ pc[a] = "smil"
    /\ Loop(a, "copy", Copied \cup {Meta})
    /\ UNCHANGED <<unacked, bucketVars, databaseVars, event>>

\* readSmilFroms3: what it names is added to the files to copy.  The SMIL file
\* itself is never deleted.
ReadSmil(a) ==
    /\ pc[a] = "smil"
    /\ Loop(a, "copy", Copied) \/ (Fail(a) /\ UNCHANGED todo)
    /\ UNCHANGED <<unacked, bucketVars, databaseVars, event>>

\* copyObjects: one of its goroutines has copied f, or met an error.
Copy(a, f) ==
    /\ pc[a] = "copy"
    /\ Step(a, f)
    /\ \/ /\ f \in ingest
          /\ storage' = [storage EXCEPT ![a] = @ \cup {f}]
          /\ UNCHANGED failed
       \/ failed' = failed \cup {a} /\ UNCHANGED storage
    /\ UNCHANGED <<unacked, ingest, databaseVars, event, pc>>

AfterCopy(a) == IF HasStreams THEN Goto(a, "package") /\ UNCHANGED todo
                              ELSE Loop(a, "files", Files)

\* Mutant: an error of a copy is lost.
CopyDoneAnyway(a) ==
    /\ pc[a] = "copy"
    /\ todo[a] = {}
    /\ AfterCopy(a)
    /\ UNCHANGED <<unacked, bucketVars, databaseVars, event>>

\* Mutant: the goroutines are not waited for.
CopyDoneEarly(a) ==
    /\ pc[a] = "copy"
    /\ AfterCopy(a)
    /\ UNCHANGED <<unacked, bucketVars, databaseVars, event>>

\* copyObjects returns: wg.Wait(), and what became of copyErrors.
CopyDone(a) ==
    /\ pc[a] = "copy"
    /\ todo[a] = {}
    /\ \/ a \notin failed /\ AfterCopy(a)
       \/ a \in failed /\ Fail(a) /\ UNCHANGED todo
    /\ UNCHANGED <<unacked, bucketVars, databaseVars, event>>

\* mpc.CreateAsset.  The asset may be there though the call fails.
CreateAsset(a) ==
    /\ pc[a] = "package"
    /\ \/ event' = [event EXCEPT ![a] = "created"] /\ (Goto(a, "arn") \/ Fail(a))
       \/ Fail(a) /\ UNCHANGED event
    /\ UNCHANGED <<unacked, bucketVars, databaseVars, todo>>

\* UpdateAssetArn (MediaPackage gives every asset that it creates an ARN).
UpdateAssetArn(a) ==
    /\ pc[a] = "arn"
    /\ \/ arn' = arn \cup {a} /\ Loop(a, "endpoints", Endpoints)
       \/ Fail(a) /\ UNCHANGED <<arn, todo>>
    /\ UNCHANGED <<unacked, bucketVars, status, endpoints, files, event>>

\* Mutant: an error is logged, and that is all.
InsertAssetStreamLogged(a, e) ==
    /\ pc[a] = "endpoints"
    /\ Step(a, e)
    /\ \/ endpoints' = [endpoints EXCEPT ![a] = @ \cup {e}] /\ UNCHANGED failed
       \/ failed' = failed \cup {a} /\ UNCHANGED endpoints
    /\ UNCHANGED <<unacked, bucketVars, status, arn, files, event, pc>>

\* InsertAssetStream and its languages, for one endpoint.  The row of the
\* endpoint stays when one of its languages is refused.
InsertAssetStream(a, e) ==
    /\ pc[a] = "endpoints"
    /\ Step(a, e)
    /\ \/ /\ endpoints' = [endpoints EXCEPT ![a] = @ \cup {e}]
          /\ (UNCHANGED <<pc, failed>> \/ Fail(a))
       \/ Fail(a) /\ UNCHANGED endpoints
    /\ UNCHANGED <<unacked, bucketVars, status, arn, files, event>>

StreamsDone(a) ==
    /\ pc[a] = "endpoints"
    /\ todo[a] = {}
    /\ Loop(a, "files", Files)
    /\ UNCHANGED <<unacked, bucketVars, databaseVars, event>>

\* InsertAssetFile: an error is logged, and that is all.
InsertAssetFile(a, f) ==
    /\ pc[a] = "files"
    /\ Step(a, f)
    /\ \/ files' = [files EXCEPT ![a] = @ \cup {f}] /\ UNCHANGED failed
       \/ failed' = failed \cup {a} /\ UNCHANGED files
    /\ UNCHANGED <<unacked, bucketVars, status, arn, endpoints, event, pc>>

FilesDone(a) ==
    /\ pc[a] = "files"
    /\ todo[a] = {}
    /\ Goto(a, IF DeleteIngestFiles THEN "delete" ELSE "respond")
    /\ UNCHANGED <<unacked, bucketVars, databaseVars, event, todo>>

\* The keys in objectsToDelete, and what is found under them: those of the
\* streams begin with the name of the bucket, where the bucket has nothing.
ToDelete == {Meta} \cup Files \cup Streams
Deletable == {f \in ToDelete : f \notin Streams}

\* s3client.DeleteObjects.
DeleteObjects(a) ==
    /\ pc[a] = "delete"
    /\ \/ ingest' = ingest \ Deletable /\ Goto(a, "respond")
       \/ Fail(a) /\ UNCHANGED ingest
    /\ UNCHANGED <<unacked, storage, databaseVars, event, todo>>

\* ProcessMessage answers with HTTP 200, after an error too.
Respond(a) ==
    /\ pc[a] = "respond"
    /\ unacked' = FALSE
    /\ Goto(a, "done")
    /\ UNCHANGED <<bucketVars, databaseVars, event, todo>>

\* The worker is killed, and the goroutines that copy with it.
Crash(a) ==
    /\ pc[a] \notin {"undelivered", "done", "crashed"}
    /\ pc' = [pc EXCEPT ![a] = "crashed"]
    /\ failed' = failed \cup {a}
    /\ UNCHANGED <<unacked, bucketVars, databaseVars, event, todo>>
-----------------------------------------------------------------------------
\* MediaPackage has ingested the streams and says so.
Complete(a) ==
    /\ event[a] = "created"
    /\ event' = [event EXCEPT ![a] = "sent"]
    /\ UNCHANGED <<unacked, bucketVars, databaseVars, attemptVars>>

\* UpdateIngestStatus: AssetIDByARN finds the row.
Publish(a) ==
    /\ event[a] = "sent"
    /\ a \in arn
    /\ status' = [status EXCEPT ![a] = "published"]
    /\ event' = [event EXCEPT ![a] = "handled"]
    /\ UNCHANGED <<unacked, bucketVars, arn, endpoints, files, attemptVars>>

\* Mutant: an asset that is not found is not an error.
RefuseSilently(a) ==
    /\ event[a] = "sent"
    /\ a \notin arn
    /\ event' = [event EXCEPT ![a] = "handled"]
    /\ UNCHANGED <<unacked, bucketVars, databaseVars, attemptVars>>

\* UpdateIngestStatus fails, for one because no row has the ARN yet.  The
\* answer is HTTP 400: SNS sends the event again, or gives up.
Refuse(a) ==
    /\ event[a] = "sent"
    /\ event' = [event EXCEPT ![a] = "dropped"]
    /\ UNCHANGED <<unacked, bucketVars, databaseVars, attemptVars>>
-----------------------------------------------------------------------------
Proceed(a) == \/ ReadMeta(a)
              \/ InsertAsset(a)
              \/ ReadSmil(a)
              \/ \E f \in Copied : Copy(a, f)
              \/ CopyDone(a)
              \/ CreateAsset(a)
              \/ UpdateAssetArn(a)
              \/ \E e \in Endpoints : InsertAssetStream(a, e)
              \/ StreamsDone(a)
              \/ \E f \in Files : InsertAssetFile(a, f)
              \/ FilesDone(a)
              \/ DeleteObjects(a)
              \/ Respond(a)

Next == \E a \in Attempts : \/ Deliver(a)
                            \/ Proceed(a)
                            \/ Crash(a)
                            \/ Complete(a)
                            \/ Publish(a)
                            \/ Refuse(a)

Spec == Init /\ [][Next]_vars

\* Calls return or time out, MediaPackage ingests what it was given, and an
\* event that SNS does not give up is delivered.
FairSpec == Spec /\ \A a \in Attempts : /\ WF_vars(Proceed(a))
                                        /\ WF_vars(Complete(a))
                                        /\ WF_vars(Publish(a))
-----------------------------------------------------------------------------
\* Nothing that was delivered is lost: it is in the ingest bucket, or in the
\* folder of an asset.  Attempts that overlap delete each other's sources, and
\* still one of them has copied everything.
NothingLost ==
    \A f \in Copied :
        f \in ingest \/ \E a \in Attempts : status[a] # "none" /\ f \in storage[a]

\* Rows point at objects: a file row at the copied file, a stream row (and a
\* published asset) at streams that have been copied.
RowsHaveObjects ==
    \A a \in Attempts :
        /\ files[a] \subseteq storage[a]
        /\ endpoints[a] # {} \/ status[a] = "published" => StreamFiles \subseteq storage[a]

\* The delivery is deleted only by an attempt whose asset has all its streams;
\* one that failed before that leaves everything in place to be delivered anew.
DeletedOnlyAfterStreams ==
    ingest # Copied \cup {Meta} =>
        \E a \in Attempts : /\ storage[a] = Copied
                            /\ HasStreams => a \in arn /\ endpoints[a] = Endpoints

\* "S3 files added here will be deleted if everything else is successful": when
\* an attempt has met no error they are no longer in the ingest bucket.
SuccessDeletes ==
    \A a \in Attempts :
        DeleteIngestFiles /\ pc[a] = "done" /\ a \notin failed => ingest \cap ToDelete = {}

\* An asset whose ingest went through is published in the end, whether the
\* event comes before its ARN is stored or after, unless SNS gave up the event.
IngestedIsPublished ==
    \A a \in Attempts :
        (pc[a] = "done" /\ a \notin failed)
            ~> (status[a] = "published" \/ event[a] \in {"none", "dropped"})
=============================================================================
