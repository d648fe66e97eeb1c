---------------------------- MODULE MultiPartCopy ----------------------------
(***************************************************************************)
(* Copying one object part by part: multiPartCopy and buildCopySourceRange *)
(* of backend/asset/copy-objects.go.                                       *)
(*                                                                         *)
(* S3 is external: it refuses a part whose range ends after the object's   *)
(* last byte, it may fail any call, before or after it has done what was   *)
(* asked, and the copy appears at the destination only when the upload is  *)
(* completed, as the parts in order.                                       *)
(*                                                                         *)
(* All calls are made with one context, which ends 10 minutes after        *)
(* multiPartCopy began: the call that is running then fails, though S3 may *)
(* do it, and every call after it fails without reaching S3.               *)
(***************************************************************************)
EXTENDS Integers, Sequences

CONSTANTS MaxPartSize,  \* maxPartSize
          MaxFileSize   \* bound: the largest file

SizesAssumption == MaxPartSize \in Nat \ {0} /\ MaxFileSize \in Nat

VARIABLES fileSize,  \* what HeadObject says
          pc,        \* where multiPartCopy is
          i,         \* the offset of the next part
          parts,     \* parts[n]: the range of part n
          upload,    \* the multipart upload in S3
          expired,   \* the context has ended
          faults     \* the calls that S3 failed of its own (history)

vars == <<fileSize, pc, i, parts, upload, expired, faults>>

Ranges == (0..MaxFileSize) \X (0..MaxFileSize)

TypeOK == /\ fileSize \in 1..MaxFileSize
          /\ pc \in {"start", "parts", "abort", "copied", "error"}
          /\ i \in 0..(MaxFileSize + MaxPartSize)
          /\ parts \in Seq(Ranges)
          /\ upload \in {"none", "open", "completed", "aborted"}
          /\ expired \in BOOLEAN
          /\ faults \in SUBSET {"create", "part", "abort", "complete"}

\* An object of no bytes has no parts, and S3 completes no upload without any:
\* the files of a delivery have bytes.
Init == /\ fileSize \in 1..MaxFileSize
        /\ pc = "start"
        /\ i = 0
        /\ parts = <<>>
        /\ upload = "none"
        /\ expired = FALSE
        /\ faults = {}

\* Mutant: the end of the range is where the next one begins.
RangeOverlapping(start, objectSize) ==
    LET end == start + MaxPartSize
    IN  <<start, IF end >= objectSize THEN objectSize - 1 ELSE end>>

\* buildCopySourceRange: the first and the last byte of a part.
CopySourceRange(start, objectSize) ==
    LET end == start + MaxPartSize - 1
    IN  <<start, IF end > objectSize THEN objectSize - 1 ELSE end>>

\* An error of a call there is nothing wrong with: S3 fails it, or the context
\* ends before it is answered.
Fails(call, label) ==
    /\ pc' = label
    /\ \/ faults' = faults \cup {call} /\ UNCHANGED expired
       \/ expired' = TRUE /\ UNCHANGED faults
-----------------------------------------------------------------------------
\* HeadObject and CreateMultipartUpload.
Start ==
    /\ pc = "start"
    /\ \/ upload' = "open" /\ pc' = "parts" /\ UNCHANGED <<expired, faults>>
       \/ upload' \in {"none", "open"} /\ Fails("create", "error")
    /\ UNCHANGED <<fileSize, i, parts>>

\* Mutant: the loop has no end.
UploadPartPast ==
    /\ pc = "parts"
    /\ parts' = Append(parts, CopySourceRange(i, fileSize))
    /\ i' = i + MaxPartSize
    /\ UNCHANGED <<fileSize, pc, upload, expired, faults>>

\* UploadPartCopy of the next part.
UploadPart ==
    /\ pc = "parts"
    /\ i < fileSize
    /\ LET range == CopySourceRange(i, fileSize)
       IN  \/ /\ range[2] < fileSize
              /\ parts' = Append(parts, range)
              /\ i' = i + MaxPartSize
              /\ UNCHANGED <<pc, expired, faults>>
           \/ /\ range[2] >= fileSize
              /\ pc' = "abort"
              /\ UNCHANGED <<i, parts, expired, faults>>
           \/ Fails("part", "abort") /\ UNCHANGED <<i, parts>>
    /\ UNCHANGED <<fileSize, upload>>

\* Mutant: AbortMultipartUpload is not called.
AbortNot ==
    /\ pc = "abort"
    /\ pc' = "error"
    /\ UNCHANGED <<fileSize, i, parts, upload, expired, faults>>

\* AbortMultipartUpload, with the same context; the error that led here is
\* returned.
Abort ==
    /\ pc = "abort"
    /\ \/ /\ ~expired
          /\ upload' = "aborted" /\ pc' = "error"
          /\ UNCHANGED <<expired, faults>>
       \/ /\ ~expired
          /\ upload' \in {"open", "aborted"} /\ Fails("abort", "error")
       \/ /\ expired
          /\ pc' = "error"
          /\ UNCHANGED <<upload, expired, faults>>
    /\ UNCHANGED <<fileSize, i, parts>>

\* CompleteMultipartUpload; if it fails nothing is aborted.
Complete ==
    /\ pc = "parts"
    /\ i >= fileSize
    /\ \/ upload' = "completed" /\ pc' = "copied" /\ UNCHANGED <<expired, faults>>
       \/ upload' \in {"open", "completed"} /\ Fails("complete", "error")
    /\ UNCHANGED <<fileSize, i, parts>>

Next == \/ Start
        \/ UploadPart
        \/ Abort
        \/ Complete

Spec == Init /\ [][Next]_vars
-----------------------------------------------------------------------------
\* A completed upload is the object: its parts, in order, are all its bytes,
\* each of them once.
CompletedIsWhole ==
    upload = "completed" =>
        /\ parts # <<>>
        /\ parts[1][1] = 0
        /\ parts[Len(parts)][2] = fileSize - 1
        /\ \A n \in 1..Len(parts) : parts[n][1] <= parts[n][2]
        /\ \A n \in 1..Len(parts) - 1 : parts[n][2] + 1 = parts[n + 1][1]

\* A part that fails, be it S3 that fails it, however often, or a range that is
\* none, does not leave the upload "dangling, holding storage until a lifecycle
\* rule reaps it": for that the context has ended, which the abort does not
\* survive either, or S3 has failed one of the calls that begin and end uploads.
NoneLeftOpen ==
    pc = "error" /\ upload = "open" =>
        expired \/ faults \cap {"create", "abort", "complete"} # {}

\* "multiPartCopy copies a file from one bucket to another": it fails only when
\* S3 fails or the 10 minutes are not enough.
FailsOnlyWithS3 == pc = "error" => expired \/ faults # {}
=============================================================================
