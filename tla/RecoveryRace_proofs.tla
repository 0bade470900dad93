------------------------- MODULE RecoveryRace_proofs -------------------------
(***************************************************************************)
(* Proofs about RecoveryRace: what a recovery that resumes a state long    *)
(* left cannot break.  IInv does not hold here, since any state that was   *)
(* ever read may be written back; RaceInv says only what a worker itself   *)
(* has seen to be true, and what stays true once it is.                    *)
(***************************************************************************)
EXTENDS RecoveryRace, FileTransaction_proofs

\* A request waits with a state that has been in the row, which is never empty again.
RequestInv ==
    /\ TypeOK
    /\ seen \in Recoverable \cup {"none"}
    /\ seen # "none" \/ pc # "idle" \/ archiveDir = "present" => txState # "none"

\* Rows and plan are for ever, so whoever knows of them may act upon it, late or not.
BooksInv ==
    /\ \/ txState \in AfterRecord \/ seen \in AfterRecord
       \/ pc \in ArchiveSteps \cup RemovalSteps \cup {"dispose", "cleanup", "recleanup"}
       => record = "present" /\ plan = "consumed"
    /\ pc \in {"consume", "committed"} => record = "present"
    /\ pc = "committed" => plan = "consumed"

\* The published album as far as the worker at work has made or verified it.
Published == targetDir = "present" /\ targetManifest = "present" /\ AllGood(target)
AlbumInv ==
    /\ worker = "commit" =>
        /\ pc \in {"manifest", "savehash", "topublish", "precheck", "rename", "mkdir", "pubcopy"}
               => AllGood(staged)
        /\ pc \in {"savehash", "topublish", "precheck", "rename", "mkdir", "pubcopy"}
               => stagedManifest = "present"
        /\ pc \in {"marker", "rmstaging", "announce"} => Published
    /\ pc = "pubcopy" => targetDir = "present" /\ \A img \in Images \ todo : target[img] = "good"
    /\ pc \in {"reverify", "remarker", "evidence"} => worker # "commit"
    /\ pc \in {"begincommit", "record"} => Published
    /\ pc \in RemovalSteps => CompleteAlbum

\* A source that is disposed of stays so.
Disposed ==
    /\ Mode = "copy" => archiveDir = "present" /\ AllGood(archive)
    /\ Mode = "move" => \A img \in Images : source[img] = "removed"
DisposedInv ==
    /\ pc \in ArchiveSteps => Mode = "copy"
    /\ pc \in RemovalSteps => Mode = "move"
    /\ pc \in {"snapshot", "archive"} => archiveDir = "absent"
    /\ pc \in {"resnap", "archived"} => archiveDir = "present"
    /\ pc = "archived" => AllGood(archive)
    /\ pc = "remove" => \A img \in Images \ todo : source[img] = "removed"
    /\ worker = "commit" /\ pc \notin {"resnap", "archived", "cleanup"} => archiveDir = "absent"
    /\ pc = "idle" => worker = "none"
    /\ \/ txState \in {Terminal, "cleanup_required"} \/ seen = "cleanup_required"
       \/ pc \in {"cleanup", "recleanup"}
       => Disposed

RaceInv == RequestInv /\ BooksInv /\ AlbumInv /\ DisposedInv

-----------------------------------------------------------------------------
(* The invariant, initially and step by step.                               *)

\* A transaction that has not begun, and no request.
LEMMA InitRaceInv == RaceInit => RaceInv
<1> SUFFICES ASSUME RaceInit PROVE RaceInv
  OBVIOUS
<1> USE DEF RaceInit
<1>1. TypeOK
  BY InitInvariant DEF IInv
<1>2. RequestInv
  BY <1>1 DEF RequestInv, Init
<1>3. BooksInv
  BY DEF BooksInv, Init, AfterRecord, ArchiveSteps, RemovalSteps
<1>4. AlbumInv
  BY DEF AlbumInv, Init, RemovalSteps
<1>5. DisposedInv
  BY DEF DisposedInv, Init, Terminal, ArchiveSteps, RemovalSteps
<1> QED
  BY <1>2, <1>3, <1>4, <1>5 DEF RaceInv

\* Types are kept: what is not a step of FileTransaction only resumes the state read.
LEMMA RaceTypeStep == RequestInv /\ [RaceNext]_raceVars => TypeOK'
<1> SUFFICES ASSUME RequestInv, [RaceNext]_raceVars PROVE TypeOK'
  OBVIOUS
<1>1. CASE CommitStart \/ Work \/ Fault \/ Outside
  BY <1>1, TypeStep DEF RequestInv, Next
<1>2. CASE UNCHANGED vars
  BY <1>2, TypeStep DEF RequestInv
<1>3. CASE PreflightPause
  BY <1>3, ConstantsAssumption DEF PreflightPause, SetTx, RequestInv, Recoverable, TypeOK, libVars, stagingVars, targetVars,
     sourceVars, workVars
<1>4. CASE StaleResume
  <2> USE DEF vars, txVars, libVars, stagingVars, targetVars, sourceVars, workVars, boundVars
  <2> USE DEF RequestInv, TypeOK, Presence, TxStates, OpStates, Steps
  <2>1. Resume(seen)
    BY <1>4 DEF StaleResume
  <2>2. CASE RecoverStaging(seen)
    BY <2>2 DEF RecoverStaging, SetTx
  <2>3. CASE RecoverVerify(seen)
    BY <2>3 DEF RecoverVerify
  <2>4. CASE RecoverRepublish(seen)
    BY <2>4 DEF RecoverRepublish
  <2>5. CASE RecoverPublishedDir(seen)
    BY <2>5 DEF RecoverPublishedDir, SetTx
  <2>6. CASE RecoverRestage(seen)
    BY <2>6 DEF RecoverRestage, SetTx
  <2>7. CASE RecoverDbCommit(seen)
    BY <2>7 DEF RecoverDbCommit
  <2>8. CASE RecoverDisposal(seen)
    BY <2>8 DEF RecoverDisposal
  <2>9. CASE RecoverCleanup(seen)
    BY <2>9 DEF RecoverCleanup
  <2>. QED BY <2>1, <2>2, <2>3, <2>4, <2>5, <2>6, <2>7, <2>8, <2>9 DEF Resume
<1>. QED BY <1>1, <1>2, <1>3, <1>4 DEF RaceNext, ReadState, RequestFails, raceVars

\* A request waits with a state recovery acts upon.
LEMMA SeenStep == RequestInv /\ [RaceNext]_raceVars => seen' \in Recoverable \cup {"none"}
BY DEF RequestInv, RaceNext, ReadState, PreflightPause, RequestFails, StaleResume, raceVars

\* The row of a transaction that has begun is never empty again.
LEMMA RequestStep == RequestInv /\ [RaceNext]_raceVars => (seen # "none" \/ pc # "idle" \/ archiveDir = "present" => txState # "none")'
<1> SUFFICES ASSUME RequestInv, [RaceNext]_raceVars PROVE (seen # "none" \/ pc # "idle" \/ archiveDir = "present" => txState # "none")'
  OBVIOUS
<1> USE DEF vars, txVars, libVars, stagingVars, targetVars, sourceVars, workVars, boundVars
<1> USE DEF RequestInv, Recoverable, Terminal
<1>1. CASE CommitStart /\ UNCHANGED seen
  BY <1>1 DEF CommitStart
<1>2. CASE Staging /\ UNCHANGED seen
  <2> USE <1>2
  <2>1. CASE MakeStagingDir
    BY <2>1 DEF MakeStagingDir
  <2>2. CASE FailTransaction
    BY <2>2 DEF FailTransaction, Stop, SetTx
  <2>3. CASE StagingDone
    BY <2>3 DEF StagingDone, Goto, SetTx
  <2>4. CASE VerifyStaging
    BY <2>4 DEF VerifyStaging, Goto, Stop, SetTx
  <2>5. CASE VerifyStagingFails
    BY <2>5 DEF VerifyStagingFails, Stop
  <2>6. ASSUME NEW img \in Images, ReuseStaged(img) PROVE (seen # "none" \/ pc # "idle" \/ archiveDir = "present" => txState # "none")'
    BY <2>6 DEF ReuseStaged
  <2>7. ASSUME NEW img \in Images, SourceUnavailable(img) PROVE (seen # "none" \/ pc # "idle" \/ archiveDir = "present" => txState # "none")'
    BY <2>7 DEF SourceUnavailable, Stop, SetTx, Readable
  <2>8. ASSUME NEW img \in Images, BeginCopy(img) PROVE (seen # "none" \/ pc # "idle" \/ archiveDir = "present" => txState # "none")'
    BY <2>8 DEF BeginCopy, Readable
  <2>9. ASSUME NEW img \in Images, CopyFile(img) PROVE (seen # "none" \/ pc # "idle" \/ archiveDir = "present" => txState # "none")'
    BY <2>9 DEF CopyFile, Goto, Readable
  <2>10. ASSUME NEW img \in Images, CopyUnreadable(img) PROVE (seen # "none" \/ pc # "idle" \/ archiveDir = "present" => txState # "none")'
    BY <2>10 DEF CopyUnreadable, Stop, Readable
  <2>11. ASSUME NEW img \in Images, CopyMismatch(img) PROVE (seen # "none" \/ pc # "idle" \/ archiveDir = "present" => txState # "none")'
    BY <2>11 DEF CopyMismatch, Goto, Stop, SetTx, Readable
  <2>12. ASSUME NEW img \in Images, MarkVerified(img) PROVE (seen # "none" \/ pc # "idle" \/ archiveDir = "present" => txState # "none")'
    BY <2>12 DEF MarkVerified
  <2>. QED BY <2>1, <2>2, <2>3, <2>4, <2>5, <2>6, <2>7, <2>8, <2>9, <2>10, <2>11, <2>12 DEF Staging
<1>3. CASE Publishing /\ UNCHANGED seen
  <2> USE <1>3
  <2>1. CASE WriteManifest
    BY <2>1 DEF WriteManifest, Goto
  <2>2. CASE SaveHash
    BY <2>2 DEF SaveHash, Goto
  <2>3. CASE EnterPublishing
    BY <2>3 DEF EnterPublishing, Goto, SetTx
  <2>4. CASE PublishPrecheck
    BY <2>4 DEF PublishPrecheck, Goto, Stop
  <2>5. CASE StrongRename
    BY <2>5 DEF StrongRename, Goto, Stop
  <2>6. CASE ConservativeMkdir
    BY <2>6 DEF ConservativeMkdir
  <2>7. CASE PublishManifest
    BY <2>7 DEF PublishManifest, Goto, Stop
  <2>8. CASE WriteMarker
    BY <2>8 DEF WriteMarker, Goto
  <2>9. CASE RemoveStaging
    BY <2>9 DEF RemoveStaging, Goto
  <2>10. CASE Announce
    BY <2>10 DEF Announce, Goto, Stop, SetTx
  <2>11. ASSUME NEW img \in Images, PublishFile(img) PROVE (seen # "none" \/ pc # "idle" \/ archiveDir = "present" => txState # "none")'
    BY <2>11 DEF PublishFile, Stop
  <2>. QED BY <2>1, <2>2, <2>3, <2>4, <2>5, <2>6, <2>7, <2>8, <2>9, <2>10, <2>11 DEF Publishing
<1>4. CASE Recording /\ UNCHANGED seen
  <2> USE <1>4
  <2>1. CASE CheckEvidence
    BY <2>1 DEF CheckEvidence, Goto, Stop, SetTx, PublishedEvidence
  <2>2. CASE BeginDbCommit
    BY <2>2 DEF BeginDbCommit, Goto, SetTx
  <2>3. CASE InsertRecord
    BY <2>3 DEF InsertRecord, Goto
  <2>4. CASE ConsumePlan
    BY <2>4 DEF ConsumePlan, Goto
  <2>5. CASE BackOut
    BY <2>5 DEF BackOut, Stop, SetTx
  <2>6. CASE LibraryCommitted
    BY <2>6 DEF LibraryCommitted, Goto, SetTx
  <2>. QED BY <2>1, <2>2, <2>3, <2>4, <2>5, <2>6 DEF Recording
<1>5. CASE Disposal /\ UNCHANGED seen
  <2> USE <1>5
  <2>1. CASE CommitArchive
    BY <2>1 DEF CommitArchive, Goto, Stop, SetTx
  <2>2. CASE RecoverArchive
    BY <2>2 DEF RecoverArchive, Goto, Stop, SetTx
  <2>3. CASE ArchiveClash
    BY <2>3 DEF ArchiveClash, Stop, SetTx
  <2>4. CASE VerifySnapshot
    BY <2>4 DEF VerifySnapshot, Goto, Stop, SetTx
  <2>5. CASE RenameToArchive
    BY <2>5 DEF RenameToArchive, Goto, Stop
  <2>6. CASE VerifyArchive
    BY <2>6 DEF VerifyArchive, Goto, Stop, SetTx
  <2>7. CASE SourceArchived
    BY <2>7 DEF SourceArchived, Goto, Stop, SetTx
  <2>8. CASE EnterRemoval
    BY <2>8 DEF EnterRemoval, Goto, Stop, SetTx, CommittedEvidence
  <2>9. CASE CheckSources
    BY <2>9 DEF CheckSources, Stop, SetTx
  <2>10. CASE SourcesRemoved
    BY <2>10 DEF SourcesRemoved, Goto, SetTx
  <2>11. CASE Cleanup
    BY <2>11 DEF Cleanup, Stop
  <2>12. CASE Recleanup
    BY <2>12 DEF Recleanup, Stop, SetTx, Terminal
  <2>13. ASSUME NEW img \in Images, RemoveSource(img) PROVE (seen # "none" \/ pc # "idle" \/ archiveDir = "present" => txState # "none")'
    BY <2>13 DEF RemoveSource, Stop, SetTx
  <2>. QED BY <2>1, <2>2, <2>3, <2>4, <2>5, <2>6, <2>7, <2>8, <2>9, <2>10, <2>11, <2>12, <2>13 DEF
      Disposal
<1>6. CASE Fault /\ UNCHANGED seen
  <2> USE <1>6
  <2>1. CASE DbCommitFails
    BY <2>1 DEF DbCommitFails, Goto, Stop
  <2>2. CASE CleanupFails
    BY <2>2 DEF CleanupFails, Stop, SetTx
  <2>3. CASE Interrupt
    BY <2>3 DEF Interrupt, Stop
  <2>. QED BY <2>1, <2>2, <2>3 DEF Fault
<1>7. CASE Outside /\ UNCHANGED seen
  <2> USE <1>7
  <2>1. CASE MoveSourceAlbum
    BY <2>1 DEF MoveSourceAlbum, Meddle
  <2>2. CASE ForeignTarget
    BY <2>2 DEF ForeignTarget, Meddle
  <2>3. CASE LoseStaging
    BY <2>3 DEF LoseStaging, Meddle
  <2>4. CASE LoseTarget
    BY <2>4 DEF LoseTarget, Meddle
  <2>5. ASSUME NEW img \in Images, ChangeSource(img) PROVE (seen # "none" \/ pc # "idle" \/ archiveDir = "present" => txState # "none")'
    BY <2>5 DEF ChangeSource, Meddle
  <2>6. ASSUME NEW img \in Images, LoseStaged(img) PROVE (seen # "none" \/ pc # "idle" \/ archiveDir = "present" => txState # "none")'
    BY <2>6 DEF LoseStaged, Meddle
  <2>7. ASSUME NEW img \in Images, DamageTarget(img) PROVE (seen # "none" \/ pc # "idle" \/ archiveDir = "present" => txState # "none")'
    BY <2>7 DEF DamageTarget, Meddle
  <2>. QED BY <2>1, <2>2, <2>3, <2>4, <2>5, <2>6, <2>7 DEF Outside
<1>8. CASE StaleResume
  <2>1. Resume(seen) /\ seen # "none" /\ seen' = "none"
    BY <1>8 DEF StaleResume
  <2>2. CASE RecoverStaging(seen)
    BY <2>1, <2>2 DEF RecoverStaging, SetTx
  <2>3. CASE RecoverVerify(seen)
    BY <2>1, <2>3 DEF RecoverVerify
  <2>4. CASE RecoverRepublish(seen)
    BY <2>1, <2>4 DEF RecoverRepublish
  <2>5. CASE RecoverPublishedDir(seen)
    BY <2>1, <2>5 DEF RecoverPublishedDir, SetTx
  <2>6. CASE RecoverRestage(seen)
    BY <2>1, <2>6 DEF RecoverRestage, SetTx
  <2>7. CASE RecoverDbCommit(seen)
    BY <2>1, <2>7 DEF RecoverDbCommit
  <2>8. CASE RecoverDisposal(seen)
    BY <2>1, <2>8 DEF RecoverDisposal
  <2>9. CASE RecoverCleanup(seen)
    BY <2>1, <2>9 DEF RecoverCleanup
  <2>. QED BY <2>1, <2>2, <2>3, <2>4, <2>5, <2>6, <2>7, <2>8, <2>9 DEF Resume
<1>9. CASE ReadState
  BY <1>9 DEF ReadState, Recoverable
<1>10. CASE PreflightPause
  BY <1>10 DEF PreflightPause, SetTx, Recoverable
<1>11. CASE RequestFails
  BY <1>11 DEF RequestFails
<1>12. CASE UNCHANGED raceVars
  BY <1>12 DEF raceVars
<1>. QED BY <1>1, <1>2, <1>3, <1>4, <1>5, <1>6, <1>7, <1>8, <1>9, <1>10, <1>11, <1>12 DEF RaceNext,
    Work

\* Rows and plan stay.
LEMMA BooksStep == RequestInv /\ BooksInv /\ [RaceNext]_raceVars => BooksInv'
<1> SUFFICES ASSUME RequestInv /\ BooksInv, [RaceNext]_raceVars PROVE BooksInv'
  OBVIOUS
<1> USE DEF vars, txVars, libVars, stagingVars, targetVars, sourceVars, workVars, boundVars
<1> USE DEF BooksInv, RequestInv, TypeOK, AfterRecord, ArchiveSteps, RemovalSteps, Terminal
<1>1. CASE CommitStart /\ UNCHANGED seen
  BY <1>1 DEF CommitStart
<1>2. CASE Staging /\ UNCHANGED seen
  <2> USE <1>2
  <2>1. CASE MakeStagingDir
    BY <2>1 DEF MakeStagingDir
  <2>2. CASE FailTransaction
    BY <2>2 DEF FailTransaction, Stop, SetTx
  <2>3. CASE StagingDone
    BY <2>3 DEF StagingDone, Goto, SetTx
  <2>4. CASE VerifyStaging
    BY <2>4 DEF VerifyStaging, Goto, Stop, SetTx
  <2>5. CASE VerifyStagingFails
    BY <2>5 DEF VerifyStagingFails, Stop
  <2>6. ASSUME NEW img \in Images, ReuseStaged(img) PROVE BooksInv'
    BY <2>6 DEF ReuseStaged
  <2>7. ASSUME NEW img \in Images, SourceUnavailable(img) PROVE BooksInv'
    BY <2>7 DEF SourceUnavailable, Stop, SetTx, Readable
  <2>8. ASSUME NEW img \in Images, BeginCopy(img) PROVE BooksInv'
    BY <2>8 DEF BeginCopy, Readable
  <2>9. ASSUME NEW img \in Images, CopyFile(img) PROVE BooksInv'
    BY <2>9 DEF CopyFile, Goto, Readable
  <2>10. ASSUME NEW img \in Images, CopyUnreadable(img) PROVE BooksInv'
    BY <2>10 DEF CopyUnreadable, Stop, Readable
  <2>11. ASSUME NEW img \in Images, CopyMismatch(img) PROVE BooksInv'
    BY <2>11 DEF CopyMismatch, Goto, Stop, SetTx, Readable
  <2>12. ASSUME NEW img \in Images, MarkVerified(img) PROVE BooksInv'
    BY <2>12 DEF MarkVerified
  <2>. QED BY <2>1, <2>2, <2>3, <2>4, <2>5, <2>6, <2>7, <2>8, <2>9, <2>10, <2>11, <2>12 DEF Staging
<1>3. CASE Publishing /\ UNCHANGED seen
  <2> USE <1>3
  <2>1. CASE WriteManifest
    BY <2>1 DEF WriteManifest, Goto
  <2>2. CASE SaveHash
    BY <2>2 DEF SaveHash, Goto
  <2>3. CASE EnterPublishing
    BY <2>3 DEF EnterPublishing, Goto, SetTx
  <2>4. CASE PublishPrecheck
    BY <2>4 DEF PublishPrecheck, Goto, Stop
  <2>5. CASE StrongRename
    BY <2>5 DEF StrongRename, Goto, Stop
  <2>6. CASE ConservativeMkdir
    BY <2>6 DEF ConservativeMkdir
  <2>7. CASE PublishManifest
    BY <2>7 DEF PublishManifest, Goto, Stop
  <2>8. CASE WriteMarker
    BY <2>8 DEF WriteMarker, Goto
  <2>9. CASE RemoveStaging
    BY <2>9 DEF RemoveStaging, Goto
  <2>10. CASE Announce
    BY <2>10 DEF Announce, Goto, Stop, SetTx
  <2>11. ASSUME NEW img \in Images, PublishFile(img) PROVE BooksInv'
    BY <2>11 DEF PublishFile, Stop
  <2>. QED BY <2>1, <2>2, <2>3, <2>4, <2>5, <2>6, <2>7, <2>8, <2>9, <2>10, <2>11 DEF Publishing
<1>4. CASE Recording /\ UNCHANGED seen
  <2> USE <1>4
  <2>1. CASE CheckEvidence
    BY <2>1 DEF CheckEvidence, Goto, Stop, SetTx, PublishedEvidence
  <2>2. CASE BeginDbCommit
    BY <2>2 DEF BeginDbCommit, Goto, SetTx
  <2>3. CASE InsertRecord
    BY <2>3 DEF InsertRecord, Goto
  <2>4. CASE ConsumePlan
    BY <2>4 DEF ConsumePlan, Goto
  <2>5. CASE BackOut
    BY <2>5 DEF BackOut, Stop, SetTx
  <2>6. CASE LibraryCommitted
    BY <2>6 DEF LibraryCommitted, Goto, SetTx
  <2>. QED BY <2>1, <2>2, <2>3, <2>4, <2>5, <2>6 DEF Recording
<1>5. CASE Disposal /\ UNCHANGED seen
  <2> USE <1>5
  <2>1. CASE CommitArchive
    BY <2>1 DEF CommitArchive, Goto, Stop, SetTx
  <2>2. CASE RecoverArchive
    BY <2>2 DEF RecoverArchive, Goto, Stop, SetTx
  <2>3. CASE ArchiveClash
    BY <2>3 DEF ArchiveClash, Stop, SetTx
  <2>4. CASE VerifySnapshot
    BY <2>4 DEF VerifySnapshot, Goto, Stop, SetTx
  <2>5. CASE RenameToArchive
    BY <2>5 DEF RenameToArchive, Goto, Stop
  <2>6. CASE VerifyArchive
    BY <2>6 DEF VerifyArchive, Goto, Stop, SetTx
  <2>7. CASE SourceArchived
    BY <2>7 DEF SourceArchived, Goto, Stop, SetTx
  <2>8. CASE EnterRemoval
    BY <2>8 DEF EnterRemoval, Goto, Stop, SetTx, CommittedEvidence
  <2>9. CASE CheckSources
    BY <2>9 DEF CheckSources, Stop, SetTx
  <2>10. CASE SourcesRemoved
    BY <2>10 DEF SourcesRemoved, Goto, SetTx
  <2>11. CASE Cleanup
    BY <2>11 DEF Cleanup, Stop
  <2>12. CASE Recleanup
    BY <2>12 DEF Recleanup, Stop, SetTx, Terminal
  <2>13. ASSUME NEW img \in Images, RemoveSource(img) PROVE BooksInv'
    BY <2>13 DEF RemoveSource, Stop, SetTx
  <2>. QED BY <2>1, <2>2, <2>3, <2>4, <2>5, <2>6, <2>7, <2>8, <2>9, <2>10, <2>11, <2>12, <2>13 DEF
      Disposal
<1>6. CASE Fault /\ UNCHANGED seen
  <2> USE <1>6
  <2>1. CASE DbCommitFails
    BY <2>1 DEF DbCommitFails, Goto, Stop
  <2>2. CASE CleanupFails
    BY <2>2 DEF CleanupFails, Stop, SetTx
  <2>3. CASE Interrupt
    BY <2>3 DEF Interrupt, Stop
  <2>. QED BY <2>1, <2>2, <2>3 DEF Fault
<1>7. CASE Outside /\ UNCHANGED seen
  <2> USE <1>7
  <2>1. CASE MoveSourceAlbum
    BY <2>1 DEF MoveSourceAlbum, Meddle
  <2>2. CASE ForeignTarget
    BY <2>2 DEF ForeignTarget, Meddle
  <2>3. CASE LoseStaging
    BY <2>3 DEF LoseStaging, Meddle
  <2>4. CASE LoseTarget
    BY <2>4 DEF LoseTarget, Meddle
  <2>5. ASSUME NEW img \in Images, ChangeSource(img) PROVE BooksInv'
    BY <2>5 DEF ChangeSource, Meddle
  <2>6. ASSUME NEW img \in Images, LoseStaged(img) PROVE BooksInv'
    BY <2>6 DEF LoseStaged, Meddle
  <2>7. ASSUME NEW img \in Images, DamageTarget(img) PROVE BooksInv'
    BY <2>7 DEF DamageTarget, Meddle
  <2>. QED BY <2>1, <2>2, <2>3, <2>4, <2>5, <2>6, <2>7 DEF Outside
<1>8. CASE StaleResume
  <2>1. Resume(seen) /\ seen # "none" /\ seen' = "none"
    BY <1>8 DEF StaleResume
  <2>2. CASE RecoverStaging(seen)
    BY <2>1, <2>2 DEF RecoverStaging, SetTx
  <2>3. CASE RecoverVerify(seen)
    BY <2>1, <2>3 DEF RecoverVerify
  <2>4. CASE RecoverRepublish(seen)
    BY <2>1, <2>4 DEF RecoverRepublish
  <2>5. CASE RecoverPublishedDir(seen)
    BY <2>1, <2>5 DEF RecoverPublishedDir, SetTx
  <2>6. CASE RecoverRestage(seen)
    BY <2>1, <2>6 DEF RecoverRestage, SetTx
  <2>7. CASE RecoverDbCommit(seen)
    BY <2>1, <2>7 DEF RecoverDbCommit
  <2>8. CASE RecoverDisposal(seen)
    BY <2>1, <2>8 DEF RecoverDisposal
  <2>9. CASE RecoverCleanup(seen)
    BY <2>1, <2>9 DEF RecoverCleanup
  <2>. QED BY <2>1, <2>2, <2>3, <2>4, <2>5, <2>6, <2>7, <2>8, <2>9 DEF Resume
<1>9. CASE ReadState
  BY <1>9 DEF ReadState, Recoverable
<1>10. CASE PreflightPause
  BY <1>10 DEF PreflightPause, SetTx, Recoverable
<1>11. CASE RequestFails
  BY <1>11 DEF RequestFails
<1>12. CASE UNCHANGED raceVars
  BY <1>12 DEF raceVars
<1>. QED BY <1>1, <1>2, <1>3, <1>4, <1>5, <1>6, <1>7, <1>8, <1>9, <1>10, <1>11, <1>12 DEF RaceNext,
    Work

\* The album stays as the worker at work has it.
LEMMA AlbumStep == RequestInv /\ AlbumInv /\ [RaceNext]_raceVars => AlbumInv'
<1> SUFFICES ASSUME RequestInv /\ AlbumInv, [RaceNext]_raceVars PROVE AlbumInv'
  OBVIOUS
<1> USE DEF vars, txVars, libVars, stagingVars, targetVars, sourceVars, workVars, boundVars
<1> USE DEF AlbumInv, RequestInv, TypeOK, Presence, Published, AllGood, CompleteAlbum, RemovalSteps
<1>1. CASE CommitStart /\ UNCHANGED seen
  BY <1>1 DEF CommitStart
<1>2. CASE Staging /\ UNCHANGED seen
  <2> USE <1>2
  <2>1. CASE MakeStagingDir
    BY <2>1 DEF MakeStagingDir
  <2>2. CASE FailTransaction
    BY <2>2 DEF FailTransaction, Stop, SetTx
  <2>3. CASE StagingDone
    BY <2>3 DEF StagingDone, Goto, SetTx
  <2>4. CASE VerifyStaging
    BY <2>4 DEF VerifyStaging, Goto, Stop, SetTx
  <2>5. CASE VerifyStagingFails
    BY <2>5 DEF VerifyStagingFails, Stop
  <2>6. ASSUME NEW img \in Images, ReuseStaged(img) PROVE AlbumInv'
    BY <2>6 DEF ReuseStaged
  <2>7. ASSUME NEW img \in Images, SourceUnavailable(img) PROVE AlbumInv'
    BY <2>7 DEF SourceUnavailable, Stop, SetTx, Readable
  <2>8. ASSUME NEW img \in Images, BeginCopy(img) PROVE AlbumInv'
    BY <2>8 DEF BeginCopy, Readable
  <2>9. ASSUME NEW img \in Images, CopyFile(img) PROVE AlbumInv'
    BY <2>9 DEF CopyFile, Goto, Readable
  <2>10. ASSUME NEW img \in Images, CopyUnreadable(img) PROVE AlbumInv'
    BY <2>10 DEF CopyUnreadable, Stop, Readable
  <2>11. ASSUME NEW img \in Images, CopyMismatch(img) PROVE AlbumInv'
    BY <2>11 DEF CopyMismatch, Goto, Stop, SetTx, Readable
  <2>12. ASSUME NEW img \in Images, MarkVerified(img) PROVE AlbumInv'
    BY <2>12 DEF MarkVerified
  <2>. QED BY <2>1, <2>2, <2>3, <2>4, <2>5, <2>6, <2>7, <2>8, <2>9, <2>10, <2>11, <2>12 DEF Staging
<1>3. CASE Publishing /\ UNCHANGED seen
  <2> USE <1>3
  <2>1. CASE WriteManifest
    BY <2>1 DEF WriteManifest, Goto
  <2>2. CASE SaveHash
    BY <2>2 DEF SaveHash, Goto
  <2>3. CASE EnterPublishing
    BY <2>3 DEF EnterPublishing, Goto, SetTx
  <2>4. CASE PublishPrecheck
    BY <2>4 DEF PublishPrecheck, Goto, Stop
  <2>5. CASE StrongRename
    BY <2>5 DEF StrongRename, Goto, Stop
  <2>6. CASE ConservativeMkdir
    BY <2>6 DEF ConservativeMkdir
  <2>7. CASE PublishManifest
    BY <2>7 DEF PublishManifest, Goto, Stop
  <2>8. CASE WriteMarker
    BY <2>8 DEF WriteMarker, Goto
  <2>9. CASE RemoveStaging
    BY <2>9 DEF RemoveStaging, Goto
  <2>10. CASE Announce
    BY <2>10 DEF Announce, Goto, Stop, SetTx
  <2>11. ASSUME NEW img \in Images, PublishFile(img) PROVE AlbumInv'
    BY <2>11 DEF PublishFile, Stop
  <2>. QED BY <2>1, <2>2, <2>3, <2>4, <2>5, <2>6, <2>7, <2>8, <2>9, <2>10, <2>11 DEF Publishing
<1>4. CASE Recording /\ UNCHANGED seen
  <2> USE <1>4
  <2>1. CASE CheckEvidence
    BY <2>1 DEF CheckEvidence, Goto, Stop, SetTx, PublishedEvidence
  <2>2. CASE BeginDbCommit
    BY <2>2 DEF BeginDbCommit, Goto, SetTx
  <2>3. CASE InsertRecord
    BY <2>3 DEF InsertRecord, Goto
  <2>4. CASE ConsumePlan
    BY <2>4 DEF ConsumePlan, Goto
  <2>5. CASE BackOut
    BY <2>5 DEF BackOut, Stop, SetTx
  <2>6. CASE LibraryCommitted
    BY <2>6 DEF LibraryCommitted, Goto, SetTx
  <2>. QED BY <2>1, <2>2, <2>3, <2>4, <2>5, <2>6 DEF Recording
<1>5. CASE Disposal /\ UNCHANGED seen
  <2> USE <1>5
  <2>1. CASE CommitArchive
    BY <2>1 DEF CommitArchive, Goto, Stop, SetTx
  <2>2. CASE RecoverArchive
    BY <2>2 DEF RecoverArchive, Goto, Stop, SetTx
  <2>3. CASE ArchiveClash
    BY <2>3 DEF ArchiveClash, Stop, SetTx
  <2>4. CASE VerifySnapshot
    BY <2>4 DEF VerifySnapshot, Goto, Stop, SetTx
  <2>5. CASE RenameToArchive
    BY <2>5 DEF RenameToArchive, Goto, Stop
  <2>6. CASE VerifyArchive
    BY <2>6 DEF VerifyArchive, Goto, Stop, SetTx
  <2>7. CASE SourceArchived
    BY <2>7 DEF SourceArchived, Goto, Stop, SetTx
  <2>8. CASE EnterRemoval
    BY <2>8 DEF EnterRemoval, Goto, Stop, SetTx, CommittedEvidence
  <2>9. CASE CheckSources
    BY <2>9 DEF CheckSources, Stop, SetTx
  <2>10. CASE SourcesRemoved
    BY <2>10 DEF SourcesRemoved, Goto, SetTx
  <2>11. CASE Cleanup
    BY <2>11 DEF Cleanup, Stop
  <2>12. CASE Recleanup
    BY <2>12 DEF Recleanup, Stop, SetTx, Terminal
  <2>13. ASSUME NEW img \in Images, RemoveSource(img) PROVE AlbumInv'
    BY <2>13 DEF RemoveSource, Stop, SetTx
  <2>. QED BY <2>1, <2>2, <2>3, <2>4, <2>5, <2>6, <2>7, <2>8, <2>9, <2>10, <2>11, <2>12, <2>13 DEF
      Disposal
<1>6. CASE Fault /\ UNCHANGED seen
  <2> USE <1>6
  <2>1. CASE DbCommitFails
    BY <2>1 DEF DbCommitFails, Goto, Stop
  <2>2. CASE CleanupFails
    BY <2>2 DEF CleanupFails, Stop, SetTx
  <2>3. CASE Interrupt
    BY <2>3 DEF Interrupt, Stop
  <2>. QED BY <2>1, <2>2, <2>3 DEF Fault
<1>7. CASE Outside /\ UNCHANGED seen
  <2> USE <1>7
  <2>1. CASE MoveSourceAlbum
    BY <2>1 DEF MoveSourceAlbum, Meddle
  <2>2. CASE ForeignTarget
    BY <2>2 DEF ForeignTarget, Meddle
  <2>3. CASE LoseStaging
    BY <2>3 DEF LoseStaging, Meddle
  <2>4. CASE LoseTarget
    BY <2>4 DEF LoseTarget, Meddle
  <2>5. ASSUME NEW img \in Images, ChangeSource(img) PROVE AlbumInv'
    BY <2>5 DEF ChangeSource, Meddle
  <2>6. ASSUME NEW img \in Images, LoseStaged(img) PROVE AlbumInv'
    BY <2>6 DEF LoseStaged, Meddle
  <2>7. ASSUME NEW img \in Images, DamageTarget(img) PROVE AlbumInv'
    BY <2>7 DEF DamageTarget, Meddle
  <2>. QED BY <2>1, <2>2, <2>3, <2>4, <2>5, <2>6, <2>7 DEF Outside
<1>8. CASE StaleResume
  <2>1. Resume(seen) /\ seen # "none" /\ seen' = "none"
    BY <1>8 DEF StaleResume
  <2>2. CASE RecoverStaging(seen)
    BY <2>1, <2>2 DEF RecoverStaging, SetTx
  <2>3. CASE RecoverVerify(seen)
    BY <2>1, <2>3 DEF RecoverVerify
  <2>4. CASE RecoverRepublish(seen)
    BY <2>1, <2>4 DEF RecoverRepublish
  <2>5. CASE RecoverPublishedDir(seen)
    BY <2>1, <2>5 DEF RecoverPublishedDir, SetTx
  <2>6. CASE RecoverRestage(seen)
    BY <2>1, <2>6 DEF RecoverRestage, SetTx
  <2>7. CASE RecoverDbCommit(seen)
    BY <2>1, <2>7 DEF RecoverDbCommit
  <2>8. CASE RecoverDisposal(seen)
    BY <2>1, <2>8 DEF RecoverDisposal
  <2>9. CASE RecoverCleanup(seen)
    BY <2>1, <2>9 DEF RecoverCleanup
  <2>. QED BY <2>1, <2>2, <2>3, <2>4, <2>5, <2>6, <2>7, <2>8, <2>9 DEF Resume
<1>9. CASE ReadState
  BY <1>9 DEF ReadState, Recoverable
<1>10. CASE PreflightPause
  BY <1>10 DEF PreflightPause, SetTx, Recoverable
<1>11. CASE RequestFails
  BY <1>11 DEF RequestFails
<1>12. CASE UNCHANGED raceVars
  BY <1>12 DEF raceVars
<1>. QED BY <1>1, <1>2, <1>3, <1>4, <1>5, <1>6, <1>7, <1>8, <1>9, <1>10, <1>11, <1>12 DEF RaceNext,
    Work

\* What is disposed of stays so.
LEMMA DisposedStep == RequestInv /\ DisposedInv /\ [RaceNext]_raceVars => DisposedInv'
<1> SUFFICES ASSUME RequestInv /\ DisposedInv, [RaceNext]_raceVars PROVE DisposedInv'
  OBVIOUS
<1> USE DEF vars, txVars, libVars, stagingVars, targetVars, sourceVars, workVars, boundVars
<1> USE DEF DisposedInv, Disposed, RequestInv, TypeOK, Presence, AllGood, ArchiveSteps,
    RemovalSteps, Terminal
<1>1. CASE CommitStart /\ UNCHANGED seen
  BY <1>1 DEF CommitStart
<1>2. CASE Staging /\ UNCHANGED seen
  <2> USE <1>2
  <2>1. CASE MakeStagingDir
    BY <2>1 DEF MakeStagingDir
  <2>2. CASE FailTransaction
    BY <2>2 DEF FailTransaction, Stop, SetTx
  <2>3. CASE StagingDone
    BY <2>3 DEF StagingDone, Goto, SetTx
  <2>4. CASE VerifyStaging
    BY <2>4 DEF VerifyStaging, Goto, Stop, SetTx
  <2>5. CASE VerifyStagingFails
    BY <2>5 DEF VerifyStagingFails, Stop
  <2>6. ASSUME NEW img \in Images, ReuseStaged(img) PROVE DisposedInv'
    BY <2>6 DEF ReuseStaged
  <2>7. ASSUME NEW img \in Images, SourceUnavailable(img) PROVE DisposedInv'
    BY <2>7 DEF SourceUnavailable, Stop, SetTx, Readable
  <2>8. ASSUME NEW img \in Images, BeginCopy(img) PROVE DisposedInv'
    BY <2>8 DEF BeginCopy, Readable
  <2>9. ASSUME NEW img \in Images, CopyFile(img) PROVE DisposedInv'
    BY <2>9 DEF CopyFile, Goto, Readable
  <2>10. ASSUME NEW img \in Images, CopyUnreadable(img) PROVE DisposedInv'
    BY <2>10 DEF CopyUnreadable, Stop, Readable
  <2>11. ASSUME NEW img \in Images, CopyMismatch(img) PROVE DisposedInv'
    BY <2>11 DEF CopyMismatch, Goto, Stop, SetTx, Readable
  <2>12. ASSUME NEW img \in Images, MarkVerified(img) PROVE DisposedInv'
    BY <2>12 DEF MarkVerified
  <2>. QED BY <2>1, <2>2, <2>3, <2>4, <2>5, <2>6, <2>7, <2>8, <2>9, <2>10, <2>11, <2>12 DEF Staging
<1>3. CASE Publishing /\ UNCHANGED seen
  <2> USE <1>3
  <2>1. CASE WriteManifest
    BY <2>1 DEF WriteManifest, Goto
  <2>2. CASE SaveHash
    BY <2>2 DEF SaveHash, Goto
  <2>3. CASE EnterPublishing
    BY <2>3 DEF EnterPublishing, Goto, SetTx
  <2>4. CASE PublishPrecheck
    BY <2>4 DEF PublishPrecheck, Goto, Stop
  <2>5. CASE StrongRename
    BY <2>5 DEF StrongRename, Goto, Stop
  <2>6. CASE ConservativeMkdir
    BY <2>6 DEF ConservativeMkdir
  <2>7. CASE PublishManifest
    BY <2>7 DEF PublishManifest, Goto, Stop
  <2>8. CASE WriteMarker
    BY <2>8 DEF WriteMarker, Goto
  <2>9. CASE RemoveStaging
    BY <2>9 DEF RemoveStaging, Goto
  <2>10. CASE Announce
    BY <2>10 DEF Announce, Goto, Stop, SetTx
  <2>11. ASSUME NEW img \in Images, PublishFile(img) PROVE DisposedInv'
    BY <2>11 DEF PublishFile, Stop
  <2>. QED BY <2>1, <2>2, <2>3, <2>4, <2>5, <2>6, <2>7, <2>8, <2>9, <2>10, <2>11 DEF Publishing
<1>4. CASE Recording /\ UNCHANGED seen
  <2> USE <1>4
  <2>1. CASE CheckEvidence
    BY <2>1 DEF CheckEvidence, Goto, Stop, SetTx, PublishedEvidence
  <2>2. CASE BeginDbCommit
    BY <2>2 DEF BeginDbCommit, Goto, SetTx
  <2>3. CASE InsertRecord
    BY <2>3 DEF InsertRecord, Goto
  <2>4. CASE ConsumePlan
    BY <2>4 DEF ConsumePlan, Goto
  <2>5. CASE BackOut
    BY <2>5 DEF BackOut, Stop, SetTx
  <2>6. CASE LibraryCommitted
    BY <2>6 DEF LibraryCommitted, Goto, SetTx
  <2>. QED BY <2>1, <2>2, <2>3, <2>4, <2>5, <2>6 DEF Recording
<1>5. CASE Disposal /\ UNCHANGED seen
  <2> USE <1>5
  <2>1. CASE CommitArchive
    BY <2>1 DEF CommitArchive, Goto, Stop, SetTx
  <2>2. CASE RecoverArchive
    BY <2>2 DEF RecoverArchive, Goto, Stop, SetTx
  <2>3. CASE ArchiveClash
    BY <2>3 DEF ArchiveClash, Stop, SetTx
  <2>4. CASE VerifySnapshot
    BY <2>4 DEF VerifySnapshot, Goto, Stop, SetTx
  <2>5. CASE RenameToArchive
    BY <2>5 DEF RenameToArchive, Goto, Stop
  <2>6. CASE VerifyArchive
    BY <2>6 DEF VerifyArchive, Goto, Stop, SetTx
  <2>7. CASE SourceArchived
    BY <2>7 DEF SourceArchived, Goto, Stop, SetTx
  <2>8. CASE EnterRemoval
    BY <2>8 DEF EnterRemoval, Goto, Stop, SetTx, CommittedEvidence
  <2>9. CASE CheckSources
    BY <2>9 DEF CheckSources, Stop, SetTx
  <2>10. CASE SourcesRemoved
    BY <2>10 DEF SourcesRemoved, Goto, SetTx
  <2>11. CASE Cleanup
    BY <2>11 DEF Cleanup, Stop
  <2>12. CASE Recleanup
    BY <2>12 DEF Recleanup, Stop, SetTx, Terminal
  <2>13. ASSUME NEW img \in Images, RemoveSource(img) PROVE DisposedInv'
    BY <2>13 DEF RemoveSource, Stop, SetTx
  <2>. QED BY <2>1, <2>2, <2>3, <2>4, <2>5, <2>6, <2>7, <2>8, <2>9, <2>10, <2>11, <2>12, <2>13 DEF
      Disposal
<1>6. CASE Fault /\ UNCHANGED seen
  <2> USE <1>6
  <2>1. CASE DbCommitFails
    BY <2>1 DEF DbCommitFails, Goto, Stop
  <2>2. CASE CleanupFails
    BY <2>2 DEF CleanupFails, Stop, SetTx
  <2>3. CASE Interrupt
    BY <2>3 DEF Interrupt, Stop
  <2>. QED BY <2>1, <2>2, <2>3 DEF Fault
<1>7. CASE Outside /\ UNCHANGED seen
  <2> USE <1>7
  <2>1. CASE MoveSourceAlbum
    BY <2>1 DEF MoveSourceAlbum, Meddle
  <2>2. CASE ForeignTarget
    BY <2>2 DEF ForeignTarget, Meddle
  <2>3. CASE LoseStaging
    BY <2>3 DEF LoseStaging, Meddle
  <2>4. CASE LoseTarget
    BY <2>4 DEF LoseTarget, Meddle
  <2>5. ASSUME NEW img \in Images, ChangeSource(img) PROVE DisposedInv'
    BY <2>5 DEF ChangeSource, Meddle
  <2>6. ASSUME NEW img \in Images, LoseStaged(img) PROVE DisposedInv'
    BY <2>6 DEF LoseStaged, Meddle
  <2>7. ASSUME NEW img \in Images, DamageTarget(img) PROVE DisposedInv'
    BY <2>7 DEF DamageTarget, Meddle
  <2>. QED BY <2>1, <2>2, <2>3, <2>4, <2>5, <2>6, <2>7 DEF Outside
<1>8. CASE StaleResume
  <2>1. Resume(seen) /\ seen # "none" /\ seen' = "none"
    BY <1>8 DEF StaleResume
  <2>2. CASE RecoverStaging(seen)
    BY <2>1, <2>2 DEF RecoverStaging, SetTx
  <2>3. CASE RecoverVerify(seen)
    BY <2>1, <2>3 DEF RecoverVerify
  <2>4. CASE RecoverRepublish(seen)
    BY <2>1, <2>4 DEF RecoverRepublish
  <2>5. CASE RecoverPublishedDir(seen)
    BY <2>1, <2>5 DEF RecoverPublishedDir, SetTx
  <2>6. CASE RecoverRestage(seen)
    BY <2>1, <2>6 DEF RecoverRestage, SetTx
  <2>7. CASE RecoverDbCommit(seen)
    BY <2>1, <2>7 DEF RecoverDbCommit
  <2>8. CASE RecoverDisposal(seen)
    BY <2>1, <2>8 DEF RecoverDisposal
  <2>9. CASE RecoverCleanup(seen)
    BY <2>1, <2>9 DEF RecoverCleanup
  <2>. QED BY <2>1, <2>2, <2>3, <2>4, <2>5, <2>6, <2>7, <2>8, <2>9 DEF Resume
<1>9. CASE ReadState
  BY <1>9 DEF ReadState, Recoverable
<1>10. CASE PreflightPause
  BY <1>10 DEF PreflightPause, SetTx, Recoverable
<1>11. CASE RequestFails
  BY <1>11 DEF RequestFails
<1>12. CASE UNCHANGED raceVars
  BY <1>12 DEF raceVars
<1>. QED BY <1>1, <1>2, <1>3, <1>4, <1>5, <1>6, <1>7, <1>8, <1>9, <1>10, <1>11, <1>12 DEF RaceNext,
    Work

\* All parts of the invariant are kept.
LEMMA RaceInvStep == RaceInv /\ [RaceNext]_raceVars => RaceInv'
BY RaceTypeStep, RequestStep, SeenStep, BooksStep, AlbumStep, DisposedStep DEF RaceInv, RequestInv

-----------------------------------------------------------------------------
(* The theorems.                                                            *)

\* The whole invariant, for every album, both modes and every kind of meddling.
THEOREM RaceInvariant == RaceSpec => []RaceInv
BY InitRaceInv, RaceInvStep, PTL DEF RaceSpec

\* A transaction that reports its end has done all of it, even if a request that
\* came too late has written over it in between.
THEOREM RaceTerminalMeansDone == RaceSpec => []TerminalMeansDone
<1>1. RaceInv => TerminalMeansDone
  BY DEF RaceInv, BooksInv, DisposedInv, Disposed, TerminalMeansDone, Terminal, AfterRecord
<1> QED
  BY <1>1, RaceInvariant, PTL

\* Which steps touch what the promises are about.
LEMMA WhoMoves ==
    ASSUME [RaceNext]_raceVars
    PROVE  /\ UNCHANGED record \/ InsertRecord
           /\ \/ UNCHANGED sourceVars \/ RenameToArchive \/ Outside
              \/ \E img \in Images : RemoveSource(img)
           /\ \/ UNCHANGED <<targetDir, target>> \/ StrongRename \/ ConservativeMkdir \/ Outside
              \/ \E img \in Images : PublishFile(img)
<1> USE DEF txVars, libVars, stagingVars, targetVars, sourceVars, workVars, boundVars
<1>1. CASE CommitStart \/ Outside
  BY <1>1 DEF CommitStart, Outside, MoveSourceAlbum, ForeignTarget, LoseStaging, LoseTarget,
     ChangeSource, LoseStaged, DamageTarget
<1>2. CASE Staging
  BY <1>2 DEF Staging, MakeStagingDir, FailTransaction, StagingDone, VerifyStaging,
     VerifyStagingFails, ReuseStaged, SourceUnavailable, BeginCopy, CopyFile, CopyUnreadable,
     CopyMismatch, MarkVerified
<1>3. CASE Publishing
  BY <1>3 DEF Publishing, WriteManifest, SaveHash, EnterPublishing, PublishPrecheck, StrongRename,
     ConservativeMkdir, PublishManifest, WriteMarker, RemoveStaging, Announce, PublishFile
<1>4. CASE Recording
  BY <1>4 DEF Recording, CheckEvidence, BeginDbCommit, InsertRecord, ConsumePlan, BackOut,
     LibraryCommitted
<1>5. CASE Disposal
  BY <1>5 DEF Disposal, CommitArchive, RecoverArchive, ArchiveClash, VerifySnapshot, VerifyArchive,
     SourceArchived, EnterRemoval, CheckSources, SourcesRemoved, Cleanup, Recleanup, RenameToArchive,
     RemoveSource
<1>6. CASE Fault
  BY <1>6 DEF Fault, DbCommitFails, CleanupFails, Interrupt
<1>7. CASE ReadState \/ RequestFails \/ PreflightPause \/ UNCHANGED raceVars
  BY <1>7 DEF ReadState, RequestFails, PreflightPause, raceVars, vars
<1>8. CASE StaleResume
  BY <1>8 DEF StaleResume, Resume, RecoverStaging, RecoverVerify, RecoverRepublish,
     RecoverPublishedDir, RecoverRestage, RecoverDbCommit, RecoverDisposal, RecoverCleanup
<1> QED
  BY <1>1, <1>2, <1>3, <1>4, <1>5, <1>6, <1>7, <1>8 DEF RaceNext, Work

\* Even a stale request records only an album that was verified under the lease.
THEOREM RaceRecordsVerified == RaceSpec => RecordOnlyVerifiedAlbum
<1> DEFINE Verified == record' = "present" /\ record = "absent" =>
               targetDir = "present" /\ targetManifest = "present" /\ AllGood(target)
<1>1. ASSUME RaceInv, [RaceNext]_raceVars PROVE Verified
  <2>1. CASE UNCHANGED record
    BY <1>1, <2>1 DEF RaceInv, RequestInv, TypeOK
  <2>2. CASE InsertRecord
    BY <1>1, <2>2 DEF InsertRecord, RaceInv, AlbumInv, Published
  <2> QED
    BY <1>1, <2>1, <2>2, WhoMoves
<1>2. RaceInv /\ [RaceNext]_raceVars => [Verified]_raceVars
  BY <1>1
<1> QED
  BY <1>2, RaceInvariant, PTL DEF RaceSpec, RecordOnlyVerifiedAlbum

\* Even a stale request disposes of the source only after the rows are there, and
\* removes files only while the album is complete.
THEOREM RaceDisposesAfterRecord == RaceSpec => DisposalOnlyAfterRecord
<1>1. ASSUME RaceInv, [RaceNext]_raceVars PROVE DisposalStepOK
  <2> USE DEF DisposalStepOK, sourceVars
  <2>1. CASE UNCHANGED sourceVars
    BY <1>1, <2>1 DEF RaceInv, RequestInv, TypeOK
  <2>2. CASE RenameToArchive
    BY <1>1, <2>2 DEF RenameToArchive, NoFile, RaceInv, BooksInv, ArchiveSteps, RequestInv, TypeOK
  <2>3. ASSUME NEW img \in Images, RemoveSource(img) PROVE DisposalStepOK
    BY <1>1, <2>3 DEF RemoveSource, RaceInv, BooksInv, AlbumInv, RemovalSteps, RequestInv, TypeOK
  <2>4. CASE Outside
    <3>1. CASE MoveSourceAlbum
      BY <3>1 DEF MoveSourceAlbum
    <3>2. ASSUME NEW img \in Images, ChangeSource(img) PROVE DisposalStepOK
      BY <1>1, <3>2 DEF ChangeSource, Content, RaceInv, RequestInv, TypeOK
    <3>3. CASE ForeignTarget \/ LoseStaging \/ LoseTarget
               \/ \E img \in Images : LoseStaged(img) \/ DamageTarget(img)
      BY <2>1, <3>3 DEF ForeignTarget, LoseStaging, LoseTarget, LoseStaged, DamageTarget
    <3> QED
      BY <2>4, <3>1, <3>2, <3>3 DEF Outside
  <2> QED
    BY <1>1, <2>1, <2>2, <2>3, <2>4, WhoMoves
<1>2. RaceInv /\ [RaceNext]_raceVars => [DisposalStepOK]_vars
  BY <1>1
<1> QED
  BY <1>2, RaceInvariant, PTL DEF RaceSpec, DisposalOnlyAfterRecord, DisposalStepOK

\* Not even a stale request destroys the last good copy of an image.
THEOREM RaceKeepsLastCopy == RaceSpec => LastCopyNeverDestroyed
<1>1. ASSUME RaceInv, [RaceNext]_raceVars PROVE LastCopyOK
  <2> SUFFICES ASSUME meddles' = meddles, NEW img \in Images, HasCopy(img) PROVE HasCopy(img)'
    BY DEF LastCopyOK
  <2> USE DEF HasCopy, sourceVars, RaceInv, RequestInv, TypeOK, Presence
  <2>1. ~Outside
    BY <1>1, ConstantsAssumption DEF Outside, MoveSourceAlbum, ForeignTarget, LoseStaging, LoseTarget,
       ChangeSource, LoseStaged, DamageTarget, Meddle
  <2>2. \/ UNCHANGED sourceVars \/ RenameToArchive
        \/ \E i \in Images : RemoveSource(i)
    BY <1>1, <2>1, WhoMoves
  <2>3. \/ UNCHANGED <<targetDir, target>> \/ StrongRename \/ ConservativeMkdir
        \/ \E i \in Images : PublishFile(i)
    BY <1>1, <2>1, WhoMoves
  <2>4. CASE RenameToArchive
    BY <1>1, <2>4 DEF RenameToArchive, DisposedInv, targetVars
  <2>5. ASSUME NEW i \in Images, RemoveSource(i) PROVE HasCopy(img)'
    BY <1>1, <2>5 DEF RemoveSource, AlbumInv, RemovalSteps, CompleteAlbum, AllGood, targetVars
  <2>6. CASE UNCHANGED sourceVars /\ UNCHANGED <<targetDir, target>>
    BY <2>6
  <2>7. CASE UNCHANGED sourceVars /\ StrongRename
    BY <1>1, <2>7 DEF StrongRename, targetVars
  <2>8. CASE UNCHANGED sourceVars /\ ConservativeMkdir
    BY <1>1, <2>8 DEF ConservativeMkdir
  <2>9. ASSUME UNCHANGED sourceVars, NEW i \in Images, PublishFile(i) PROVE HasCopy(img)'
    BY <1>1, <2>9 DEF PublishFile
  <2> QED
    BY <2>2, <2>3, <2>4, <2>5, <2>6, <2>7, <2>8, <2>9
<1>2. RaceInv /\ [RaceNext]_raceVars => [LastCopyOK]_vars
  BY <1>1
<1> QED
  BY <1>2, RaceInvariant, PTL DEF RaceSpec, LastCopyNeverDestroyed, LastCopyOK
=============================================================================
