------------------------- MODULE FileTransactionInv -------------------------
(***************************************************************************)
(* The inductive invariant of FileTransaction, in named parts.  The model  *)
(* runs check it, FileTransaction_proofs proves it.                        *)
(***************************************************************************)
EXTENDS FileTransaction

StagingSteps   == {"mkstaging", "stage", "copy", "mark", "fail"}
PublishSteps   == {"precheck", "rename", "mkdir", "pubcopy", "marker", "rmstaging",
                   "remarker", "announce"}
RecordSteps    == {"record", "consume", "backout", "committed"}
ArchiveSteps   == {"snapshot", "archive", "resnap", "clash", "archived"}
RemovalSteps   == {"checksources", "remove"}
BeforePublish  == {"none", "staging", "verifying", "verified"}
AfterRecord    == {"library_committed", "source_archiving", "source_archived",
                   "source_files_removing", "source_files_removed", "cleanup_required"}

\* The persisted state a worker at each step has left behind: a crash at that
\* step hands exactly this state to recovery.
StepMatchesState ==
    /\ pc \in StagingSteps => txState = "staging"
    /\ pc = "verify" => txState = "verifying"
    /\ pc = "reverify" => txState \in {"verifying", "verified"}
    /\ pc \in {"manifest", "savehash", "topublish"} => txState = "verified"
    /\ pc \in PublishSteps => txState = "publishing"
    /\ pc \in {"evidence", "begincommit"} => txState \in {"published", "db_committing"}
    /\ pc \in RecordSteps => txState = "db_committing"
    /\ pc = "dispose" => txState \in {"library_committed", "source_archiving", "source_files_removing"}
    /\ pc = "dispose" /\ worker = "commit" => txState = "library_committed"
    /\ pc \in ArchiveSteps => txState = "source_archiving"
    /\ pc \in RemovalSteps => txState = "source_files_removing"
    /\ pc = "cleanup" => txState = Terminal
    /\ pc = "recleanup" => txState = "cleanup_required"

\* The two modes never take each other's way out.
ModeOfStep ==
    /\ pc \in ArchiveSteps => Mode = "copy"
    /\ pc \in RemovalSteps => Mode = "move"
    /\ txState \in {"source_archiving", "source_archived"} => Mode = "copy"
    /\ txState \in {"source_files_removing", "source_files_removed"} => Mode = "move"
    /\ (pc = "idle") <=> (worker = "none")
    /\ pc \in {"reverify", "remarker", "evidence", "recleanup"} => worker = "recover"

\* The journal: images done in the staging loop are verified.
JournalInv ==
    /\ OperationsVerified
    /\ pc \in {"stage", "copy", "mark"} =>
           \A img \in Images \ todo : opState[img] = "verified"
    /\ cur \subseteq todo
    /\ pc \notin {"copy", "mark", "fail"} => cur = {}

\* What the program owns in the target directory appears in the order files,
\* manifest, marker, and only once the transaction is publishing.
TargetInv ==
    /\ targetDir = "absent" => targetManifest = "absent" /\ targetMarker = "absent"
    /\ txState \in BeforePublish => targetManifest = "absent" /\ targetMarker = "absent"
    /\ pc \in {"precheck", "rename", "mkdir"} => targetManifest = "absent"
    /\ pc \in {"precheck", "rename", "mkdir", "pubcopy"} => targetMarker = "absent"
    /\ pc = "pubcopy" => targetDir = "present" /\ \A img \in Images \ todo : target[img] = "good"
    /\ pc \in {"marker", "remarker", "rmstaging", "announce"} => targetDir = "present"
    /\ pc \in {"rmstaging", "announce"} => targetMarker = "present"
    /\ txState \in AfterRecord \cup {"published", "db_committing"} =>
           (targetManifest = "present" => targetMarker = "present")

\* The commit pipeline does not verify what it published: it relies on nothing
\* having changed since it verified the staging set.
CommitPathInv ==
    worker = "commit" =>
        /\ pc \in {"manifest", "savehash", "topublish", "precheck", "rename", "mkdir", "pubcopy"}
               => AllGood(staged)
        /\ pc \in {"savehash", "topublish", "precheck", "rename", "mkdir", "pubcopy"}
               => stagedManifest = "present"
        /\ pc \in {"marker", "rmstaging", "announce"}
               => targetManifest = "present" /\ AllGood(target)

\* What the library rows and the disposal of the source rest on.
RecordInv ==
    /\ pc \in {"begincommit"} \cup RecordSteps \cup RemovalSteps => CompleteAlbum
    /\ pc \in {"consume", "committed"} => record = "present"
    /\ pc = "committed" => plan = "consumed"
    /\ txState \in AfterRecord => record = "present" /\ plan = "consumed"
    /\ NoRestageAfterRecord

\* The source album: in its place, in the archive, or emptied file by file.
SourceInv ==
    /\ archiveDir = "present" =>
           txState \in {"source_archiving", "source_archived", "cleanup_required", "conflict"}
    /\ Mode = "move" => archiveDir = "absent"
    /\ Mode = "copy" => \A img \in Images : source[img] # "removed"
    /\ pc \in {"snapshot", "archive"} => archiveDir = "absent"
    /\ pc \in {"resnap", "archived"} => archiveDir = "present"
    /\ pc = "archived" => AllGood(archive)
    /\ pc = "remove" => \A img \in Images \ todo : source[img] = "removed"
    /\ TerminalMeansDone

IInv ==
    /\ TypeOK
    /\ StepMatchesState
    /\ ModeOfStep
    /\ JournalInv
    /\ TargetInv
    /\ CommitPathInv
    /\ RecordInv
    /\ SourceInv
=============================================================================
