--------------------------- MODULE FileTransaction ---------------------------
(***************************************************************************)
(* One album of a frozen import plan on its way into the library: the      *)
(* commit pipeline (commit_single_album), the recovery driver              *)
(* (recover_active_transaction and its resume_* functions), the rows they  *)
(* keep in PostgreSQL and the files they keep in the library root and in   *)
(* the source album.                                                       *)
(*                                                                         *)
(* The library-root lease admits one worker at a time; what happens when   *)
(* it does not is the subject of RecoveryRace.  A worker performs one      *)
(* database statement or one file-system call per step, so that a crash, a *)
(* cancellation or an I/O error (Interrupt) may fall between any two.      *)
(*                                                                         *)
(* File contents are abstracted to what the BLAKE3 comparison tells apart: *)
(* "good" is the content whose hash the plan froze, "bad" any other.       *)
(***************************************************************************)
EXTENDS Naturals

CONSTANTS
    Images,        \* the images the plan selected from this album
    Mode,          \* frozen source_file_mode: "copy" or "move"
    Strategies,    \* the publish strategies the storage probe may report
    Meddling,      \* what the outside world may touch: see the last section
    MaxFaults,     \* bound: crashes, cancellations and failed statements
    MaxMeddles     \* bound: actions of the outside world

ASSUME ConstantsAssumption ==
    /\ Images # {}
    /\ Mode \in {"copy", "move"}
    /\ Strategies # {}
    /\ Strategies \subseteq {"strong", "conservative"}
    /\ Meddling \subseteq {"source", "foreign", "staging", "target"}
    /\ MaxFaults \in Nat
    /\ MaxMeddles \in Nat

VARIABLES
    \* file_transactions and file_operations rows
    txState,         \* TransactionState, or "none" before the prewrite
    opState,         \* FileOpState of each image's row
    manifestHash,    \* is file_transactions.manifest_hash set?
    \* library_albums / library_images and import_plans rows
    record,          \* are the library rows of this transaction present?
    plan,            \* PlanState
    \* <root>/.imagedb/staging/<tx>/<album>
    staging,         \* "absent", "base" (only <tx> is left) or "album"
    staged,          \* content of each staged file
    stagedManifest,  \* is the manifest in the staging directory?
    \* <root>/Albums/<album>
    targetDir,       \* does the directory exist?
    target,          \* content of each published file
    targetManifest,  \* is our manifest there?
    targetMarker,    \* is our commit marker there?
    targetExtra,     \* are there files the plan does not list?
    \* the source album and its archive
    sourceDir, source, archiveDir, archive,
    \* the worker
    pc, worker, todo, cur,
    \* bounds
    faults, meddles

txVars      == <<txState, opState, manifestHash>>
libVars     == <<record, plan>>
stagingVars == <<staging, staged, stagedManifest>>
targetVars  == <<targetDir, target, targetManifest, targetMarker, targetExtra>>
sourceVars  == <<sourceDir, source, archiveDir, archive>>
workVars    == <<pc, worker, todo, cur>>
boundVars   == <<faults, meddles>>
vars == <<txVars, libVars, stagingVars, targetVars, sourceVars, workVars, boundVars>>

Content  == {"absent", "good", "bad"}
Presence == {"absent", "present"}
TxStates == {"none", "staging", "verifying", "verified", "publishing", "published",
             "db_committing", "library_committed", "source_archiving", "source_archived",
             "source_files_removing", "source_files_removed", "cleanup_required",
             "conflict", "failed"}
OpStates == {"planned", "copying", "verified", "failed"}
Steps    == {"idle", "mkstaging", "stage", "copy", "mark", "fail", "verify", "reverify",
             "manifest", "savehash", "topublish", "precheck", "rename", "mkdir", "pubcopy",
             "marker", "rmstaging", "remarker", "announce", "evidence", "begincommit",
             "record", "consume", "backout", "committed", "dispose", "snapshot", "archive",
             "resnap", "clash", "archived", "checksources", "remove", "cleanup", "recleanup"}

\* The state that ends a transaction of this mode.
Terminal == IF Mode = "copy" THEN "source_archived" ELSE "source_files_removed"

NoFile == [img \in Images |-> "absent"]
AllGood(files) == \A img \in Images : files[img] = "good"

(***************************************************************************)
(* The album directory with every planned file, the manifest and the       *)
(* commit marker: what a reader of the library may rely on.                *)
(***************************************************************************)
CompleteAlbum ==
    /\ targetDir = "present" /\ targetManifest = "present" /\ targetMarker = "present"
    /\ AllGood(target)

-----------------------------------------------------------------------------
TypeOK ==
    /\ txState \in TxStates
    /\ opState \in [Images -> OpStates]
    /\ plan \in {"frozen", "consumed"}
    /\ staging \in {"absent", "base", "album"}
    /\ staged \in [Images -> Content]
    /\ target \in [Images -> Content]
    /\ source \in [Images -> Content \cup {"removed"}]
    /\ archive \in [Images -> Content \cup {"removed"}]
    /\ manifestHash \in Presence /\ record \in Presence /\ stagedManifest \in Presence
    /\ targetDir \in Presence /\ targetManifest \in Presence
    /\ targetMarker \in Presence /\ targetExtra \in Presence
    /\ sourceDir \in Presence /\ archiveDir \in Presence
    /\ pc \in Steps
    /\ worker \in {"none", "commit", "recover"}
    /\ todo \subseteq Images
    /\ cur \subseteq Images
    /\ faults \in 0..MaxFaults
    /\ meddles \in 0..MaxMeddles

\* The plan is frozen, the source album matches its snapshot, nothing is staged.
Init ==
    /\ txState = "none" /\ opState = [img \in Images |-> "planned"]
    /\ manifestHash = "absent"
    /\ record = "absent" /\ plan = "frozen"
    /\ staging = "absent" /\ staged = NoFile /\ stagedManifest = "absent"
    /\ targetDir = "absent" /\ target = NoFile
    /\ targetManifest = "absent" /\ targetMarker = "absent" /\ targetExtra = "absent"
    /\ sourceDir = "present" /\ source = [img \in Images |-> "good"]
    /\ archiveDir = "absent" /\ archive = NoFile
    /\ pc = "idle" /\ worker = "none" /\ todo = {} /\ cur = {}
    /\ faults = 0 /\ meddles = 0

\* The worker goes on at step s with the same job.
Goto(s) == pc' = s /\ UNCHANGED <<worker, todo, cur>>
\* The worker returns to its caller.
Stop == pc' = "idle" /\ worker' = "none" /\ todo' = {} /\ cur' = {}
\* update_file_transaction_state: an UPDATE by id that looks at no earlier state.
SetTx(s) == txState' = s /\ UNCHANGED <<opState, manifestHash>>

-----------------------------------------------------------------------------
(***************************************************************************)
(* Staging.                                                                *)
(***************************************************************************)

\* Phase 1: the transaction and all its operations, in one database transaction.
\* An album with a transaction is skipped or sent to recovery, and one whose
\* target directory exists is refused; neither changes anything.
CommitStart ==
    /\ worker = "none" /\ txState = "none" /\ targetDir = "absent"
    /\ txState' = "staging"
    /\ opState' = [img \in Images |-> "planned"]
    /\ pc' = "mkstaging" /\ worker' = "commit"
    /\ UNCHANGED <<manifestHash, libVars, stagingVars, targetVars, sourceVars, todo, cur, boundVars>>

\* resume_staging writes staging again before anything else.
RecoverStaging(state) ==
    /\ worker = "none" /\ state = "staging"
    /\ SetTx("staging")
    /\ pc' = "mkstaging" /\ worker' = "recover"
    /\ UNCHANGED <<libVars, stagingVars, targetVars, sourceVars, todo, cur, boundVars>>

MakeStagingDir ==
    /\ pc = "mkstaging"
    /\ staging' = "album"
    /\ pc' = "stage" /\ todo' = Images
    /\ UNCHANGED <<txVars, libVars, staged, stagedManifest, targetVars, sourceVars, worker, cur, boundVars>>

\* Mutant of ReuseStaged: the journal row is not updated.
ReuseStaged_NoJournal(img) ==
    /\ pc = "stage" /\ worker = "recover" /\ img \in todo
    /\ staged[img] = "good"
    /\ todo' = todo \ {img}
    /\ UNCHANGED <<txVars, libVars, stagingVars, targetVars, sourceVars, pc, worker, cur, boundVars>>

\* Recovery keeps a staged file whose hash still matches.
ReuseStaged(img) ==
    /\ pc = "stage" /\ worker = "recover" /\ img \in todo
    /\ staged[img] = "good"
    /\ opState' = [opState EXCEPT ![img] = "verified"]
    /\ todo' = todo \ {img}
    /\ UNCHANGED <<txState, manifestHash, libVars, stagingVars, targetVars, sourceVars, pc, worker, cur, boundVars>>

Readable(img) == sourceDir = "present" /\ source[img] \in {"good", "bad"}

\* Recovery pauses in staging while a source file cannot be reached.
SourceUnavailable(img) ==
    /\ pc = "stage" /\ worker = "recover" /\ img \in todo
    /\ staged[img] # "good" /\ ~Readable(img)
    /\ staged' = [staged EXCEPT ![img] = "absent"]
    /\ SetTx("staging")
    /\ Stop
    /\ UNCHANGED <<libVars, staging, stagedManifest, targetVars, sourceVars, boundVars>>

BeginCopy(img) ==
    /\ pc = "stage" /\ img \in todo
    /\ worker = "recover" => staged[img] # "good" /\ Readable(img)
    /\ opState' = [opState EXCEPT ![img] = "copying"]
    /\ staged' = IF worker = "recover" THEN [staged EXCEPT ![img] = "absent"] ELSE staged
    /\ pc' = "copy" /\ cur' = {img}
    /\ UNCHANGED <<txState, manifestHash, libVars, staging, stagedManifest, targetVars, sourceVars, worker, todo, boundVars>>

\* Mutant of CopyFile: the source is renamed into staging instead of copied.
CopyFile_ByRename(img) ==
    /\ pc = "copy" /\ img \in cur
    /\ Readable(img) /\ source[img] = "good"
    /\ staged' = [staged EXCEPT ![img] = "good"]
    /\ source' = [source EXCEPT ![img] = "absent"]
    /\ Goto("mark")
    /\ UNCHANGED <<txVars, libVars, staging, stagedManifest, targetVars, sourceDir, archiveDir, archive, boundVars>>

\* Stream to a .part file, compare the hash, rename over the staged path.
CopyFile(img) ==
    /\ pc = "copy" /\ img \in cur
    /\ Readable(img) /\ source[img] = "good"
    /\ staged' = [staged EXCEPT ![img] = "good"]
    /\ Goto("mark")
    /\ UNCHANGED <<txVars, libVars, staging, stagedManifest, targetVars, sourceVars, boundVars>>

\* The open fails: the error leaves the operation in copying.
CopyUnreadable(img) ==
    /\ pc = "copy" /\ img \in cur
    /\ ~Readable(img)
    /\ Stop
    /\ UNCHANGED <<txVars, libVars, stagingVars, targetVars, sourceVars, boundVars>>

\* Hash mismatch: commit fails the operation and then the transaction; recovery
\* fails the transaction only.
CopyMismatch(img) ==
    /\ pc = "copy" /\ img \in cur
    /\ Readable(img) /\ source[img] = "bad"
    /\ \/ /\ worker = "commit"
          /\ opState' = [opState EXCEPT ![img] = "failed"]
          /\ Goto("fail")
          /\ UNCHANGED <<txState, manifestHash>>
       \/ /\ worker = "recover"
          /\ SetTx("failed")
          /\ Stop
    /\ UNCHANGED <<libVars, stagingVars, targetVars, sourceVars, boundVars>>

FailTransaction ==
    /\ pc = "fail"
    /\ SetTx("failed")
    /\ Stop
    /\ UNCHANGED <<libVars, stagingVars, targetVars, sourceVars, boundVars>>

MarkVerified(img) ==
    /\ pc = "mark" /\ img \in cur
    /\ opState' = [opState EXCEPT ![img] = "verified"]
    /\ pc' = "stage" /\ todo' = todo \ {img} /\ cur' = {}
    /\ UNCHANGED <<txState, manifestHash, libVars, stagingVars, targetVars, sourceVars, worker, boundVars>>

\* Mutant of StagingDone: an operation state is written to the transaction row.
StagingDone_OpState ==
    /\ pc = "stage" /\ todo = {}
    /\ SetTx("copying")
    /\ Goto("verify")
    /\ UNCHANGED <<libVars, stagingVars, targetVars, sourceVars, boundVars>>

StagingDone ==
    /\ pc = "stage" /\ todo = {}
    /\ SetTx("verifying")
    /\ Goto("verify")
    /\ UNCHANGED <<libVars, stagingVars, targetVars, sourceVars, boundVars>>

\* verify_staging_set.  Commit goes on to publish; recovery from staging stops
\* at verified, and recovery from verifying or verified ("reverify") goes on.
VerifyStaging ==
    /\ pc \in {"verify", "reverify"}
    /\ staging = "album" /\ AllGood(staged)
    /\ SetTx("verified")
    /\ IF pc = "verify" /\ worker = "recover" THEN Stop ELSE Goto("manifest")
    /\ UNCHANGED <<libVars, stagingVars, targetVars, sourceVars, boundVars>>

VerifyStagingFails ==
    /\ pc \in {"verify", "reverify"}
    /\ ~(staging = "album" /\ AllGood(staged))
    /\ Stop
    /\ UNCHANGED <<txVars, libVars, stagingVars, targetVars, sourceVars, boundVars>>

RecoverVerify(state) ==
    /\ worker = "none" /\ state \in {"verifying", "verified"}
    /\ pc' = "reverify" /\ worker' = "recover"
    /\ UNCHANGED <<txVars, libVars, stagingVars, targetVars, sourceVars, todo, cur, boundVars>>

-----------------------------------------------------------------------------
(***************************************************************************)
(* Publishing.                                                             *)
(***************************************************************************)

WriteManifest ==
    /\ pc = "manifest"
    /\ stagedManifest' = "present"
    /\ Goto("savehash")
    /\ UNCHANGED <<txVars, libVars, staging, staged, targetVars, sourceVars, boundVars>>

SaveHash ==
    /\ pc = "savehash"
    /\ manifestHash' = "present"
    /\ Goto("topublish")
    /\ UNCHANGED <<txState, opState, libVars, stagingVars, targetVars, sourceVars, boundVars>>

EnterPublishing ==
    /\ pc = "topublish"
    /\ SetTx("publishing")
    /\ Goto("precheck")
    /\ UNCHANGED <<libVars, stagingVars, targetVars, sourceVars, boundVars>>

\* A target directory that appeared meanwhile is refused, else the strategy the
\* storage probe reports decides how the staged album is published.
PublishPrecheck ==
    /\ pc = "precheck"
    /\ IF targetDir = "present"
       THEN Stop
       ELSE \E strategy \in Strategies :
                Goto(IF strategy = "strong" THEN "rename" ELSE "mkdir")
    /\ UNCHANGED <<txVars, libVars, stagingVars, targetVars, sourceVars, boundVars>>

\* StrongLocal: the whole directory in one rename, refused by the file system
\* when somebody created the target since the check.
StrongRename ==
    /\ pc = "rename"
    /\ IF targetDir = "present"
       THEN Stop /\ UNCHANGED <<stagingVars, targetVars>>
       ELSE /\ targetDir' = "present" /\ target' = staged /\ targetManifest' = stagedManifest
            /\ staging' = "base" /\ staged' = NoFile /\ stagedManifest' = "absent"
            /\ Goto("marker")
            /\ UNCHANGED <<targetMarker, targetExtra>>
    /\ UNCHANGED <<txVars, libVars, sourceVars, boundVars>>

\* ConservativeMounted: create the directory, copy file by file, then the
\* manifest, then the marker, then drop the staging directory.
ConservativeMkdir ==
    /\ pc = "mkdir"
    /\ targetDir' = "present"
    /\ pc' = "pubcopy" /\ todo' = Images
    /\ UNCHANGED <<txVars, libVars, stagingVars, target, targetManifest, targetMarker, targetExtra, sourceVars, worker, cur, boundVars>>

PublishFile(img) ==
    /\ pc = "pubcopy" /\ img \in todo
    /\ IF staged[img] = "good"
       THEN /\ target' = [target EXCEPT ![img] = "good"]
            /\ todo' = todo \ {img}
            /\ UNCHANGED <<pc, worker, cur>>
       ELSE Stop /\ UNCHANGED target
    /\ UNCHANGED <<txVars, libVars, stagingVars, targetDir, targetManifest, targetMarker, targetExtra, sourceVars, boundVars>>

PublishManifest ==
    /\ pc = "pubcopy" /\ todo = {}
    /\ IF stagedManifest = "present"
       THEN targetManifest' = "present" /\ Goto("marker")
       ELSE Stop /\ UNCHANGED targetManifest
    /\ UNCHANGED <<txVars, libVars, stagingVars, targetDir, target, targetMarker, targetExtra, sourceVars, boundVars>>

\* write_commit_marker, after either strategy ("marker") or when recovery finds
\* the published album without one ("remarker").
WriteMarker ==
    /\ pc \in {"marker", "remarker"}
    /\ targetMarker' = "present"
    /\ Goto(IF pc = "marker" /\ staging = "album" THEN "rmstaging" ELSE "announce")
    /\ UNCHANGED <<txVars, libVars, stagingVars, targetDir, target, targetManifest, targetExtra, sourceVars, boundVars>>

RemoveStaging ==
    /\ pc = "rmstaging"
    /\ staging' = "base" /\ staged' = NoFile /\ stagedManifest' = "absent"
    /\ Goto("announce")
    /\ UNCHANGED <<txVars, libVars, targetVars, sourceVars, boundVars>>

\* Record the manifest path and the published state; commit goes straight to the
\* database, recovery through resume_db_commit's evidence checks.
Announce ==
    /\ pc = "announce"
    /\ IF targetManifest = "present"
       THEN SetTx("published") /\ Goto(IF worker = "commit" THEN "begincommit" ELSE "evidence")
       ELSE Stop /\ UNCHANGED txVars
    /\ UNCHANGED <<libVars, stagingVars, targetVars, sourceVars, boundVars>>

\* resume_publishing, staging present and target absent.
RecoverRepublish(state) ==
    /\ worker = "none" /\ state = "publishing"
    /\ staging = "album" /\ targetDir = "absent" /\ manifestHash = "present"
    /\ pc' = "precheck" /\ worker' = "recover"
    /\ UNCHANGED <<txVars, libVars, stagingVars, targetVars, sourceVars, todo, cur, boundVars>>

\* Mutant of RecoverPublishedDir: a missing commit marker is a conflict, too.
RecoverPublishedDir_NeedsMarker(state) ==
    /\ worker = "none" /\ state = "publishing" /\ targetDir = "present"
    /\ \/ /\ ~(targetManifest = "present" /\ targetMarker = "present")
          /\ SetTx("conflict")
          /\ UNCHANGED workVars
       \/ /\ targetManifest = "present" /\ targetMarker = "present" /\ AllGood(target)
          /\ pc' = "announce" /\ worker' = "recover"
          /\ UNCHANGED <<txVars, todo, cur>>
    /\ UNCHANGED <<libVars, stagingVars, targetVars, sourceVars, boundVars>>

\* resume_publishing, target present: without our manifest it is a conflict,
\* with a damaged file an error that changes nothing.
RecoverPublishedDir(state) ==
    /\ worker = "none" /\ state = "publishing" /\ targetDir = "present"
    /\ \/ /\ targetManifest = "absent"
          /\ SetTx("conflict")
          /\ UNCHANGED workVars
       \/ /\ targetManifest = "present" /\ AllGood(target)
          /\ pc' = IF targetMarker = "present" THEN "announce" ELSE "remarker"
          /\ worker' = "recover"
          /\ UNCHANGED <<txVars, todo, cur>>
    /\ UNCHANGED <<libVars, stagingVars, targetVars, sourceVars, boundVars>>

\* Mutant of RecoverRestage: a vanished album is staged again from any later state.
RecoverRestage_AnyState(state) ==
    /\ worker = "none" /\ state \in {"publishing", "published", "db_committing"}
    /\ staging # "album" /\ targetDir = "absent"
    /\ SetTx("staging")
    /\ UNCHANGED <<libVars, stagingVars, targetVars, sourceVars, workVars, boundVars>>

\* resume_publishing, neither present: stage again from the source.
RecoverRestage(state) ==
    /\ worker = "none" /\ state = "publishing"
    /\ staging # "album" /\ targetDir = "absent"
    /\ SetTx("staging")
    /\ UNCHANGED <<libVars, stagingVars, targetVars, sourceVars, workVars, boundVars>>

-----------------------------------------------------------------------------
(***************************************************************************)
(* The library records.                                                    *)
(***************************************************************************)

RecoverDbCommit(state) ==
    /\ worker = "none" /\ state \in {"published", "db_committing"}
    /\ pc' = "evidence" /\ worker' = "recover"
    /\ UNCHANGED <<txVars, libVars, stagingVars, targetVars, sourceVars, todo, cur, boundVars>>

\* Mutant of PublishedEvidence: the published files are not hashed again.
PublishedEvidence_NoHashes == targetDir = "present" /\ targetManifest = "present" /\ manifestHash = "present" /\ targetExtra = "absent"

\* resume_db_commit: directory, manifest, its stored hash, no unplanned file and
\* every planned file's hash.  The commit marker is not looked at.
PublishedEvidence == targetDir = "present" /\ targetManifest = "present" /\ manifestHash = "present" /\ targetExtra = "absent" /\ AllGood(target)

CheckEvidence ==
    /\ pc = "evidence"
    /\ IF PublishedEvidence
       THEN Goto("begincommit") /\ UNCHANGED txVars
       ELSE SetTx("conflict") /\ Stop
    /\ UNCHANGED <<libVars, stagingVars, targetVars, sourceVars, boundVars>>

BeginDbCommit ==
    /\ pc = "begincommit"
    /\ SetTx("db_committing")
    /\ Goto("record")
    /\ UNCHANGED <<libVars, stagingVars, targetVars, sourceVars, boundVars>>

\* Mutant of InsertRecord: the plan is not consumed afterwards.
InsertRecord_KeepsPlan ==
    /\ pc = "record"
    /\ record' = "present"
    /\ Goto("committed")
    /\ UNCHANGED <<txVars, plan, stagingVars, targetVars, sourceVars, boundVars>>

\* commit_library_records_transaction; rows of this transaction are kept on a retry.
InsertRecord ==
    /\ pc = "record"
    /\ record' = "present"
    /\ Goto("consume")
    /\ UNCHANGED <<txVars, plan, stagingVars, targetVars, sourceVars, boundVars>>

\* A statement of its own, after the database transaction.
ConsumePlan ==
    /\ pc = "consume"
    /\ plan' = "consumed"
    /\ Goto("committed")
    /\ UNCHANGED <<txVars, record, stagingVars, targetVars, sourceVars, boundVars>>

\* Either statement fails: commit sets the transaction back to published,
\* recovery returns the error and leaves db_committing.
DbCommitFails ==
    /\ pc \in {"record", "consume"} /\ faults < MaxFaults
    /\ faults' = faults + 1
    /\ IF worker = "commit" THEN Goto("backout") ELSE Stop
    /\ UNCHANGED <<txVars, libVars, stagingVars, targetVars, sourceVars, meddles>>

BackOut ==
    /\ pc = "backout"
    /\ SetTx("published")
    /\ Stop
    /\ UNCHANGED <<libVars, stagingVars, targetVars, sourceVars, boundVars>>

LibraryCommitted ==
    /\ pc = "committed"
    /\ SetTx("library_committed")
    /\ Goto("dispose")
    /\ UNCHANGED <<libVars, stagingVars, targetVars, sourceVars, boundVars>>

-----------------------------------------------------------------------------
(***************************************************************************)
(* The source album: archived as a whole (copy) or emptied of the selected *)
(* files (move).                                                           *)
(***************************************************************************)

\* Mutants of RecoverDisposal: it is entered too early, re-entered after the end,
\* or not entered for an interrupted archive.
RecoverDisposal_Early(state) ==
    /\ worker = "none"
    /\ state \in {"db_committing", "library_committed", "source_archiving", "source_files_removing"}
    /\ pc' = "dispose" /\ worker' = "recover"
    /\ UNCHANGED <<txVars, libVars, stagingVars, targetVars, sourceVars, todo, cur, boundVars>>

RecoverDisposal_Again(state) ==
    /\ worker = "none"
    /\ state \in {"library_committed", "source_archiving", "source_files_removing", Terminal}
    /\ pc' = "dispose" /\ worker' = "recover"
    /\ UNCHANGED <<txVars, libVars, stagingVars, targetVars, sourceVars, todo, cur, boundVars>>

RecoverDisposal_NoRetry(state) ==
    /\ worker = "none" /\ state = "library_committed"
    /\ pc' = "dispose" /\ worker' = "recover"
    /\ UNCHANGED <<txVars, libVars, stagingVars, targetVars, sourceVars, todo, cur, boundVars>>

RecoverDisposal(state) ==
    /\ worker = "none"
    /\ state \in {"library_committed", "source_archiving", "source_files_removing"}
    /\ pc' = "dispose" /\ worker' = "recover"
    /\ UNCHANGED <<txVars, libVars, stagingVars, targetVars, sourceVars, todo, cur, boundVars>>

\* commit_single_album, copy mode.  The archive path holds this transaction's id,
\* so only recovery can meet an archive that already exists.
CommitArchive ==
    /\ pc = "dispose" /\ Mode = "copy" /\ worker = "commit"
    /\ IF sourceDir = "present"
       THEN SetTx("source_archiving") /\ Goto("snapshot")
       ELSE SetTx("conflict") /\ Stop
    /\ UNCHANGED <<libVars, stagingVars, targetVars, sourceVars, boundVars>>

\* resume_source_archive: the published directory must exist; source_archiving is
\* written whichever of source and archive is there.
RecoverArchive ==
    /\ pc = "dispose" /\ Mode = "copy" /\ worker = "recover"
    /\ IF targetDir = "present"
       THEN /\ SetTx("source_archiving")
            /\ Goto(IF sourceDir = archiveDir THEN "clash"
                    ELSE IF sourceDir = "present" THEN "snapshot" ELSE "resnap")
       ELSE SetTx("conflict") /\ Stop
    /\ UNCHANGED <<libVars, stagingVars, targetVars, sourceVars, boundVars>>

\* Source and archive both present, or both missing.
ArchiveClash ==
    /\ pc = "clash"
    /\ SetTx("conflict")
    /\ Stop
    /\ UNCHANGED <<libVars, stagingVars, targetVars, sourceVars, boundVars>>

VerifySnapshot ==
    /\ pc = "snapshot"
    /\ IF sourceDir = "present" /\ AllGood(source)
       THEN Goto("archive") /\ UNCHANGED txVars
       ELSE SetTx("conflict") /\ Stop
    /\ UNCHANGED <<libVars, stagingVars, targetVars, sourceVars, boundVars>>

RenameToArchive ==
    /\ pc = "archive"
    /\ IF sourceDir = "present"
       THEN /\ archiveDir' = "present" /\ archive' = source
            /\ sourceDir' = "absent" /\ source' = NoFile
            /\ Goto("resnap")
       ELSE Stop /\ UNCHANGED sourceVars
    /\ UNCHANGED <<txVars, libVars, stagingVars, targetVars, boundVars>>

\* Mutant of VerifyArchive: the archive is trusted without a second verification.
VerifyArchive_Trusting ==
    /\ pc = "resnap"
    /\ Goto("archived")
    /\ UNCHANGED <<txVars, libVars, stagingVars, targetVars, sourceVars, boundVars>>

VerifyArchive ==
    /\ pc = "resnap"
    /\ IF AllGood(archive)
       THEN Goto("archived") /\ UNCHANGED txVars
       ELSE SetTx("conflict") /\ Stop
    /\ UNCHANGED <<libVars, stagingVars, targetVars, sourceVars, boundVars>>

\* Only commit removes the staging directory afterwards.
SourceArchived ==
    /\ pc = "archived"
    /\ SetTx("source_archived")
    /\ IF worker = "commit" THEN Goto("cleanup") ELSE Stop
    /\ UNCHANGED <<libVars, stagingVars, targetVars, sourceVars, boundVars>>

\* Mutant of CommittedEvidence: the library rows alone are taken as proof.
CommittedEvidence_RowsOnly == record = "present"

\* verify_committed_evidence_before_source_cleanup, by commit and by recovery.
CommittedEvidence ==
    CompleteAlbum /\ manifestHash = "present" /\ targetExtra = "absent" /\ record = "present"

EnterRemoval ==
    /\ pc = "dispose" /\ Mode = "move"
    /\ IF CommittedEvidence
       THEN SetTx("source_files_removing") /\ Goto("checksources")
       ELSE SetTx("conflict") /\ Stop
    /\ UNCHANGED <<libVars, stagingVars, targetVars, sourceVars, boundVars>>

\* remove_selected_source_files begins by comparing the album with its snapshot,
\* the files it already removed excepted; an unreachable album is retried later.
CheckSources ==
    /\ pc = "checksources"
    /\ IF sourceDir = "absent"
       THEN Stop /\ UNCHANGED txVars
       ELSE IF \A img \in Images : source[img] \in {"good", "removed"}
            THEN /\ pc' = "remove" /\ todo' = Images
                 /\ UNCHANGED <<worker, cur, txVars>>
            ELSE SetTx("conflict") /\ Stop
    /\ UNCHANGED <<libVars, stagingVars, targetVars, sourceVars, boundVars>>

\* One file: quarantined, hashed and unlinked (see SourceCleanup for the steps).
RemoveSource(img) ==
    /\ pc = "remove" /\ img \in todo
    /\ IF sourceDir = "present" /\ source[img] \in {"good", "removed"}
       THEN /\ source' = [source EXCEPT ![img] = "removed"]
            /\ todo' = todo \ {img}
            /\ UNCHANGED <<txVars, pc, worker, cur>>
       ELSE SetTx("conflict") /\ Stop /\ UNCHANGED source
    /\ UNCHANGED <<libVars, stagingVars, targetVars, sourceDir, archiveDir, archive, boundVars>>

SourcesRemoved ==
    /\ pc = "remove" /\ todo = {}
    /\ SetTx("source_files_removed")
    /\ Goto("cleanup")
    /\ UNCHANGED <<libVars, stagingVars, targetVars, sourceVars, boundVars>>

Cleanup ==
    /\ pc = "cleanup"
    /\ staging' = "absent" /\ staged' = NoFile /\ stagedManifest' = "absent"
    /\ Stop
    /\ UNCHANGED <<txVars, libVars, targetVars, sourceVars, boundVars>>

\* The removal fails and something is left: the terminal state is taken back.
CleanupFails ==
    /\ pc = "cleanup" /\ staging # "absent" /\ faults < MaxFaults
    /\ faults' = faults + 1
    /\ SetTx("cleanup_required")
    /\ Stop
    /\ UNCHANGED <<libVars, stagingVars, targetVars, sourceVars, meddles>>

RecoverCleanup(state) ==
    /\ worker = "none" /\ state = "cleanup_required"
    /\ pc' = "recleanup" /\ worker' = "recover"
    /\ UNCHANGED <<txVars, libVars, stagingVars, targetVars, sourceVars, todo, cur, boundVars>>

\* resume_cleanup: remove what is left, then the terminal state of the mode.
Recleanup ==
    /\ pc = "recleanup"
    /\ staging' = "absent" /\ staged' = NoFile /\ stagedManifest' = "absent"
    /\ SetTx(Terminal)
    /\ Stop
    /\ UNCHANGED <<libVars, targetVars, sourceVars, boundVars>>

-----------------------------------------------------------------------------
(***************************************************************************)
(* What the program does not control.                                      *)
(***************************************************************************)

\* A crash, a cancellation between files, a lost lease or an I/O error: the
\* worker is gone, rows and files stay as they are.
Interrupt ==
    /\ pc # "idle" /\ faults < MaxFaults
    /\ faults' = faults + 1
    /\ Stop
    /\ UNCHANGED <<txVars, libVars, stagingVars, targetVars, sourceVars, meddles>>

Meddle(what) == what \in Meddling /\ meddles < MaxMeddles /\ meddles' = meddles + 1

\* The user edits, deletes or restores a source file, at any time.
ChangeSource(img) ==
    /\ Meddle("source") /\ sourceDir = "present" /\ source[img] # "removed"
    /\ \E content \in Content \ {source[img]} : source' = [source EXCEPT ![img] = content]
    /\ UNCHANGED <<txVars, libVars, stagingVars, targetVars, sourceDir, archiveDir, archive, workVars, faults>>

\* The user moves the source album away, or makes a new one of that name.
MoveSourceAlbum ==
    /\ Meddle("source")
    /\ sourceDir' = (IF sourceDir = "present" THEN "absent" ELSE "present")
    /\ source' = [img \in Images |-> IF source[img] = "removed" THEN "removed" ELSE "absent"]
    /\ UNCHANGED <<txVars, libVars, stagingVars, targetVars, archiveDir, archive, workVars, faults>>

\* Somebody else puts a file under the target directory, at any time.
ForeignTarget ==
    /\ Meddle("foreign") /\ targetExtra = "absent"
    /\ targetDir' = "present" /\ targetExtra' = "present"
    /\ UNCHANGED <<txVars, libVars, stagingVars, target, targetManifest, targetMarker, sourceVars, workVars, faults>>

\* Between two attempts a staged file is lost or damaged, or all of staging is.
LoseStaged(img) ==
    /\ Meddle("staging") /\ pc = "idle" /\ staged[img] = "good"
    /\ \E content \in {"absent", "bad"} : staged' = [staged EXCEPT ![img] = content]
    /\ UNCHANGED <<txVars, libVars, staging, stagedManifest, targetVars, sourceVars, workVars, faults>>

LoseStaging ==
    /\ Meddle("staging") /\ pc = "idle" /\ staging # "absent"
    /\ staging' = "absent" /\ staged' = NoFile /\ stagedManifest' = "absent"
    /\ UNCHANGED <<txVars, libVars, targetVars, sourceVars, workVars, faults>>

\* Between two attempts a published file is damaged, or the album is deleted.
DamageTarget(img) ==
    /\ Meddle("target") /\ pc = "idle" /\ target[img] = "good"
    /\ \E content \in {"absent", "bad"} : target' = [target EXCEPT ![img] = content]
    /\ UNCHANGED <<txVars, libVars, stagingVars, targetDir, targetManifest, targetMarker, targetExtra, sourceVars, workVars, faults>>

LoseTarget ==
    /\ Meddle("target") /\ pc = "idle" /\ targetDir = "present"
    /\ targetDir' = "absent" /\ target' = NoFile
    /\ targetManifest' = "absent" /\ targetMarker' = "absent" /\ targetExtra' = "absent"
    /\ UNCHANGED <<txVars, libVars, stagingVars, sourceVars, workVars, faults>>

-----------------------------------------------------------------------------
Staging ==
    \/ MakeStagingDir \/ FailTransaction \/ StagingDone
    \/ VerifyStaging \/ VerifyStagingFails
    \/ \E img \in Images : ReuseStaged(img) \/ SourceUnavailable(img) \/ BeginCopy(img)
                           \/ CopyFile(img) \/ CopyUnreadable(img) \/ CopyMismatch(img)
                           \/ MarkVerified(img)

Publishing ==
    \/ WriteManifest \/ SaveHash \/ EnterPublishing \/ PublishPrecheck
    \/ StrongRename \/ ConservativeMkdir \/ PublishManifest
    \/ WriteMarker \/ RemoveStaging \/ Announce
    \/ \E img \in Images : PublishFile(img)

Recording ==
    CheckEvidence \/ BeginDbCommit \/ InsertRecord \/ ConsumePlan \/ BackOut \/ LibraryCommitted

Disposal ==
    \/ CommitArchive \/ RecoverArchive \/ ArchiveClash
    \/ VerifySnapshot \/ RenameToArchive \/ VerifyArchive \/ SourceArchived
    \/ EnterRemoval \/ CheckSources \/ SourcesRemoved
    \/ Cleanup \/ Recleanup
    \/ \E img \in Images : RemoveSource(img)

\* recover_active_transaction dispatches on the state it has read.
Resume(state) ==
    \/ RecoverStaging(state) \/ RecoverVerify(state) \/ RecoverRepublish(state)
    \/ RecoverPublishedDir(state) \/ RecoverRestage(state) \/ RecoverDbCommit(state)
    \/ RecoverDisposal(state) \/ RecoverCleanup(state)

\* The operator asks for recovery of the transaction.  Here the state is read and
\* acted upon in one step; RecoveryRace takes the two apart.
Recover == Resume(txState)

Fault == DbCommitFails \/ CleanupFails \/ Interrupt

Outside ==
    \/ MoveSourceAlbum \/ ForeignTarget \/ LoseStaging \/ LoseTarget
    \/ \E img \in Images : ChangeSource(img) \/ LoseStaged(img) \/ DamageTarget(img)

Work == Staging \/ Publishing \/ Recording \/ Disposal

Next == CommitStart \/ Recover \/ Work \/ Fault \/ Outside

Spec == Init /\ [][Next]_vars

-----------------------------------------------------------------------------
(***************************************************************************)
(* Properties.                                                             *)
(***************************************************************************)

\* The library rows are written only while the published album is complete and
\* sealed, by whichever path the transaction got there: the order publish, then
\* DB commit of commit_single_album and the evidence checks of resume_db_commit.
RecordOnlyCompleteAlbum == [][record' = "present" /\ record = "absent" => CompleteAlbum]_vars

\* Source files are disposed of only after the library rows are committed; where
\* removal leaves no backup, only while the published album is complete.
DisposalOnlyAfterRecord ==
    [][/\ archiveDir' = "present" /\ archiveDir = "absent" => record = "present"
       /\ \A img \in Images :
              source'[img] = "removed" /\ source[img] # "removed" => record = "present" /\ CompleteAlbum]_vars

HasCopy(img) ==
    \/ sourceDir = "present" /\ source[img] = "good"
    \/ archiveDir = "present" /\ archive[img] = "good"
    \/ targetDir = "present" /\ target[img] = "good"

\* No step of the program takes away the last good copy of an image outside its
\* own staging directory: only the outside world can lose one.
LastCopyNeverDestroyed ==
    [][meddles' = meddles => \A img \in Images : HasCopy(img) => HasCopy(img)']_vars

\* Once the library rows exist the transaction never goes back to staging, whose
\* source may already be gone, and never ends as failed.
NoRestageAfterRecord ==
    record = "present" => txState \in {"published", "db_committing", "library_committed",
                           "source_archiving", "source_archived", "source_files_removing",
                           "source_files_removed", "cleanup_required", "conflict"}

\* Past staging, every operation row says verified: recovery from any later state
\* may rely on the journal (both the commit loop and the reuse of staged files).
OperationsVerified ==
    txState \notin {"none", "staging", "failed", "conflict"}
        => \A img \in Images : opState[img] = "verified"

\* A transaction that reports its terminal state, or only leftover staging, has
\* done all of it: rows, consumed plan, and a source archived intact or emptied.
TerminalMeansDone ==
    txState \in {Terminal, "cleanup_required"} =>
        /\ record = "present" /\ plan = "consumed"
        /\ Mode = "copy" => archiveDir = "present" /\ AllGood(archive)
        /\ Mode = "move" => \A img \in Images : source[img] = "removed"

\* A finished transaction is not disturbed: the only way out of the terminal state
\* is the failed staging clean-up right after it, and the only way on from there
\* is back.
TerminalStays ==
    [][/\ txState = Terminal => txState' \in {Terminal, "cleanup_required"}
       /\ txState = "cleanup_required" => txState' \in {Terminal, "cleanup_required"}
       /\ txState = "failed" => txState' = "failed"]_vars

\* Left to itself - crashes, cancellations and failed statements included - a
\* transaction never ends in a state that needs manual resolution.
NeverStuckByItself == meddles = 0 => txState \notin {"conflict", "failed"}

\* The import of the album as its user sees it.
Import == INSTANCE AlbumImport WITH
    shelf      <- IF CompleteAlbum THEN "complete" ELSE "absent",
    catalogue  <- record,
    archived   <- archiveDir,
    removed    <- {img \in Images : source[img] = "removed"},
    report     <- IF txState \in {Terminal, "cleanup_required"} THEN "done" ELSE "open"

\* Commit, recovery and every interruption of them implement AlbumImport.
ImplementsImport == Import!ImportSpec

(***************************************************************************)
(* Fairness: a worker that is not interrupted goes on, the user starts the *)
(* commit, and the operator asks for recovery as long as the transaction   *)
(* is listed as recoverable.  Nothing is assumed of faults or the outside. *)
(***************************************************************************)
FairSpec == Spec /\ WF_vars(CommitStart) /\ WF_vars(Work) /\ WF_vars(Recover)

\* However often commit and recovery are interrupted (finitely often), the
\* transaction reaches its terminal state and stays there.
Converges == <>[](txState = Terminal)
=============================================================================
