------------------------------ MODULE JobServer ------------------------------
(***************************************************************************)
(* The job server: what it does about saved rows, delivered chapters and   *)
(* texts to be translated, and how it copies the files of a delivery, each *)
(* a module of its own.  (Notifications and AssetIngest are looked at by   *)
(* themselves.)                                                            *)
(*                                                                         *)
(* As in ApiServer they have no state in common, so a behaviour is about   *)
(* one of them, kind, with all the messages that race for it.              *)
(***************************************************************************)
EXTENDS Integers, Sequences, FiniteSets

CONSTANTS Kinds,     \* the components to look at
          Procs,     \* messages that are being handled
          Pods, Collection, MaxSaves,                    \* of SearchIndex
          Assets, Chapters, Known, NoChapter,            \* of TimedMetadata
          Events, NoEvent, Texts, NoVersion, Languages, MaxJobs,  \* of Translations
          MaxPartSize, MaxFileSize                       \* of MultiPartCopy

VARIABLES kind,  \* the component that the behaviour is about
          pc, alone, shared,
          fileSize, copyPc, i, parts, upload, expired, faults,
          pod, row, saves, events, index, doc, loaded, obj, perms, overlapped,
          file, todo, at, left, found, insertLock, rows, persons, whole,
          event, running, content, data, hash, recent, jobs, listed, errs, blind, disturbed

copyVars == <<fileSize, copyPc, i, parts, upload, expired, faults>>
indexVars == <<pod, row, saves, events, index, doc, loaded, obj, perms, overlapped>>
chapterVars == <<file, todo, at, left, found, insertLock, rows, persons, whole>>
textVars == <<event, running, content, data, hash, recent, jobs, listed, errs, blind, disturbed>>
vars == <<kind, pc, alone, shared, copyVars, indexVars, chapterVars, textVars>>

MPC == INSTANCE MultiPartCopy WITH pc <- copyPc
SI == INSTANCE SearchIndex WITH disturbed <- overlapped
TM == INSTANCE TimedMetadata
TR == INSTANCE Translations

ASSUME JobsAssumption ==
    /\ Kinds \subseteq {"copy", "index", "chapters", "translations"}
    /\ IsFiniteSet(Procs)
    /\ MaxSaves \in Nat
    /\ NoChapter \notin Chapters
    /\ MPC!SizesAssumption

TypeOK == CASE kind = "copy" -> MPC!TypeOK
            [] kind = "index" -> SI!TypeOK
            [] kind = "chapters" -> TM!TypeOK
            [] kind = "translations" -> TR!TypeOK
            [] OTHER -> FALSE

Init == /\ kind \in Kinds
        /\ SI!Init /\ TM!Init
        /\ MPC!Init
        /\ kind # "copy" => fileSize = MaxFileSize
        /\ IF kind = "translations"
           THEN TR!Init
           ELSE /\ TR!StateInit
                /\ content = CHOOSE v \in Texts : TRUE
                /\ jobs = [l \in Languages |-> <<>>]
-----------------------------------------------------------------------------
\* A step of the component that the behaviour is about.
OfCopy(Step) ==
    /\ kind = "copy" /\ Step
    /\ UNCHANGED <<kind, pc, alone, shared, indexVars, chapterVars, textVars>>

OfIndex(Step) ==
    /\ kind = "index" /\ Step
    /\ UNCHANGED <<kind, shared, copyVars, chapterVars, textVars>>

OfChapters(Step) ==
    /\ kind = "chapters" /\ Step
    /\ UNCHANGED <<kind, copyVars, indexVars, textVars>>

OfTranslations(Step) ==
    /\ kind = "translations" /\ Step
    /\ UNCHANGED <<kind, copyVars, indexVars, chapterVars>>

Next == \/ OfCopy(MPC!Next)
        \/ OfIndex(SI!Next)
        \/ OfChapters(TM!Next)
        \/ OfTranslations(TR!Next)

Spec == Init /\ [][Next]_vars
-----------------------------------------------------------------------------
\* What the components promise; see there.
CompletedIsWhole == MPC!CompletedIsWhole
NoneLeftOpen == MPC!NoneLeftOpen
IndexFollowsRow == kind = "index" => SI!IndexFollowsRow
ChaptersAreOfTheFile == TM!ChaptersAreOfTheFile
RecordedIsSent == kind = "translations" => TR!RecordedIsSent
=============================================================================
