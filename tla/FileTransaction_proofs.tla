----------------------- MODULE FileTransaction_proofs -----------------------
(***************************************************************************)
(* Proofs about FileTransaction for every set of images, both modes, every *)
(* publish strategy, every kind of meddling and every number of faults.    *)
(*                                                                         *)
(* IInv is inductive; each of its parts has a lemma with one step per      *)
(* action that touches what the part speaks of.  The safety properties,    *)
(* the action properties and the refinement of AlbumImport follow from it. *)
(***************************************************************************)
EXTENDS FileTransactionInv, TLAPS

\* A directory that is not there holds no image.
LEMMA NoFileType == NoFile \in [Images -> Content]
  BY DEF NoFile, Content

-----------------------------------------------------------------------------
(***************************************************************************)
(* The inductive invariant.                                                *)
(***************************************************************************)

\* Every step keeps every variable within its type.
LEMMA TypeStep == TypeOK /\ [Next]_vars => TypeOK'
<1> SUFFICES ASSUME TypeOK, [Next]_vars PROVE TypeOK'
  OBVIOUS
<1> USE DEF vars, txVars, libVars, stagingVars, targetVars, sourceVars, workVars, boundVars
<1> USE DEF TypeOK, Presence, TxStates, OpStates, Steps
<1>1. CASE CommitStart
  BY <1>1 DEF CommitStart
<1>2. CASE Recover
  <2>1. CASE RecoverStaging(txState)
    BY <2>1 DEF RecoverStaging, SetTx
  <2>2. CASE RecoverVerify(txState)
    BY <2>2 DEF RecoverVerify
  <2>3. CASE RecoverRepublish(txState)
    BY <2>3 DEF RecoverRepublish
  <2>4. CASE RecoverPublishedDir(txState)
    BY <2>4 DEF RecoverPublishedDir, SetTx
  <2>5. CASE RecoverRestage(txState)
    BY <2>5 DEF RecoverRestage, SetTx
  <2>6. CASE RecoverDbCommit(txState)
    BY <2>6 DEF RecoverDbCommit
  <2>7. CASE RecoverDisposal(txState)
    BY <2>7 DEF RecoverDisposal
  <2>8. CASE RecoverCleanup(txState)
    BY <2>8 DEF RecoverCleanup
  <2>. QED BY <1>2, <2>1, <2>2, <2>3, <2>4, <2>5, <2>6, <2>7, <2>8 DEF Recover, Resume
<1>3. CASE Staging
  <2>1. CASE MakeStagingDir
    BY <2>1 DEF MakeStagingDir
  <2>2. CASE FailTransaction
    BY <2>2 DEF FailTransaction, Stop, SetTx
  <2>3. CASE StagingDone
    BY <2>3 DEF StagingDone, Goto, SetTx
  <2>4. CASE VerifyStaging
    BY <2>4 DEF VerifyStaging, Goto, Stop, SetTx
  <2>5. CASE VerifyStagingFails
    BY <2>5 DEF VerifyStagingFails, Stop
  <2>6. ASSUME NEW img \in Images, ReuseStaged(img) PROVE TypeOK'
    BY <2>6 DEF ReuseStaged
  <2>7. ASSUME NEW img \in Images, SourceUnavailable(img) PROVE TypeOK'
    BY <2>7 DEF SourceUnavailable, Stop, SetTx, Readable, Content
  <2>8. ASSUME NEW img \in Images, BeginCopy(img) PROVE TypeOK'
    BY <2>8 DEF BeginCopy, Readable, Content
  <2>9. ASSUME NEW img \in Images, CopyFile(img) PROVE TypeOK'
    BY <2>9 DEF CopyFile, Goto, Readable, Content
  <2>10. ASSUME NEW img \in Images, CopyUnreadable(img) PROVE TypeOK'
    BY <2>10 DEF CopyUnreadable, Stop, Readable
  <2>11. ASSUME NEW img \in Images, CopyMismatch(img) PROVE TypeOK'
    BY <2>11 DEF CopyMismatch, Goto, Stop, SetTx, Readable
  <2>12. ASSUME NEW img \in Images, MarkVerified(img) PROVE TypeOK'
    BY <2>12 DEF MarkVerified
  <2>. QED BY <1>3, <2>1, <2>2, <2>3, <2>4, <2>5, <2>6, <2>7, <2>8, <2>9, <2>10, <2>11, <2>12 DEF
      Staging
<1>4. CASE Publishing
  <2>1. CASE WriteManifest
    BY <2>1 DEF WriteManifest, Goto
  <2>2. CASE SaveHash
    BY <2>2 DEF SaveHash, Goto
  <2>3. CASE EnterPublishing
    BY <2>3 DEF EnterPublishing, Goto, SetTx
  <2>4. CASE PublishPrecheck
    BY <2>4 DEF PublishPrecheck, Goto, Stop
  <2>5. CASE StrongRename
    BY NoFileType, <2>5 DEF StrongRename, Goto, Stop, Content
  <2>6. CASE ConservativeMkdir
    BY <2>6 DEF ConservativeMkdir
  <2>7. CASE PublishManifest
    BY <2>7 DEF PublishManifest, Goto, Stop
  <2>8. CASE WriteMarker
    BY <2>8 DEF WriteMarker, Goto
  <2>9. CASE RemoveStaging
    BY NoFileType, <2>9 DEF RemoveStaging, Goto
  <2>10. CASE Announce
    BY <2>10 DEF Announce, Goto, Stop, SetTx
  <2>11. ASSUME NEW img \in Images, PublishFile(img) PROVE TypeOK'
    BY <2>11 DEF PublishFile, Stop, Content
  <2>. QED BY <1>4, <2>1, <2>2, <2>3, <2>4, <2>5, <2>6, <2>7, <2>8, <2>9, <2>10, <2>11 DEF
      Publishing
<1>5. CASE Recording
  <2>1. CASE CheckEvidence
    BY <2>1 DEF CheckEvidence, Goto, Stop, SetTx, PublishedEvidence
  <2>2. CASE BeginDbCommit
    BY <2>2 DEF BeginDbCommit, Goto, SetTx
  <2>3. CASE InsertRecord
    BY <2>3 DEF InsertRecord, Goto
  <2>4. CASE ConsumePlan
    BY <2>4 DEF ConsumePlan, Goto
  <2>5. CASE BackOut
    BY <2>5 DEF BackOut, Stop, SetTx
  <2>6. CASE LibraryCommitted
    BY <2>6 DEF LibraryCommitted, Goto, SetTx
  <2>. QED BY <1>5, <2>1, <2>2, <2>3, <2>4, <2>5, <2>6 DEF Recording
<1>6. CASE Disposal
  <2>1. CASE CommitArchive
    BY <2>1 DEF CommitArchive, Goto, Stop, SetTx
  <2>2. CASE RecoverArchive
    BY <2>2 DEF RecoverArchive, Goto, Stop, SetTx
  <2>3. CASE ArchiveClash
    BY <2>3 DEF ArchiveClash, Stop, SetTx
  <2>4. CASE VerifySnapshot
    BY <2>4 DEF VerifySnapshot, Goto, Stop, SetTx
  <2>5. CASE RenameToArchive
    BY NoFileType, <2>5 DEF RenameToArchive, Goto, Stop
  <2>6. CASE VerifyArchive
    BY <2>6 DEF VerifyArchive, Goto, Stop, SetTx
  <2>7. CASE SourceArchived
    BY <2>7 DEF SourceArchived, Goto, Stop, SetTx
  <2>8. CASE EnterRemoval
    BY <2>8 DEF EnterRemoval, Goto, Stop, SetTx, CommittedEvidence
  <2>9. CASE CheckSources
    BY <2>9 DEF CheckSources, Stop, SetTx
  <2>10. CASE SourcesRemoved
    BY <2>10 DEF SourcesRemoved, Goto, SetTx
  <2>11. CASE Cleanup
    BY NoFileType, <2>11 DEF Cleanup, Stop
  <2>12. CASE Recleanup
    BY NoFileType, <2>12 DEF Recleanup, Stop, SetTx, Terminal
  <2>13. ASSUME NEW img \in Images, RemoveSource(img) PROVE TypeOK'
    BY <2>13 DEF RemoveSource, Stop, SetTx, Content
  <2>. QED BY <1>6, <2>1, <2>2, <2>3, <2>4, <2>5, <2>6, <2>7, <2>8, <2>9, <2>10, <2>11, <2>12,
      <2>13 DEF Disposal
<1>7. CASE Fault
  <2>1. CASE DbCommitFails
    BY ConstantsAssumption, <2>1 DEF DbCommitFails, Goto, Stop
  <2>2. CASE CleanupFails
    BY ConstantsAssumption, <2>2 DEF CleanupFails, Stop, SetTx
  <2>3. CASE Interrupt
    BY ConstantsAssumption, <2>3 DEF Interrupt, Stop
  <2>. QED BY <1>7, <2>1, <2>2, <2>3 DEF Fault
<1>8. CASE Outside
  <2>1. CASE MoveSourceAlbum
    BY ConstantsAssumption, <2>1 DEF MoveSourceAlbum, Meddle, Content
  <2>2. CASE ForeignTarget
    BY ConstantsAssumption, <2>2 DEF ForeignTarget, Meddle
  <2>3. CASE LoseStaging
    BY ConstantsAssumption, NoFileType, <2>3 DEF LoseStaging, Meddle
  <2>4. CASE LoseTarget
    BY ConstantsAssumption, NoFileType, <2>4 DEF LoseTarget, Meddle
  <2>5. ASSUME NEW img \in Images, ChangeSource(img) PROVE TypeOK'
    BY ConstantsAssumption, <2>5 DEF ChangeSource, Meddle, Content
  <2>6. ASSUME NEW img \in Images, LoseStaged(img) PROVE TypeOK'
    BY ConstantsAssumption, <2>6 DEF LoseStaged, Meddle, Content
  <2>7. ASSUME NEW img \in Images, DamageTarget(img) PROVE TypeOK'
    BY ConstantsAssumption, <2>7 DEF DamageTarget, Meddle, Content
  <2>. QED BY <1>8, <2>1, <2>2, <2>3, <2>4, <2>5, <2>6, <2>7 DEF Outside
<1>9. CASE UNCHANGED vars
  BY <1>9
<1>. QED BY <1>1, <1>2, <1>3, <1>4, <1>5, <1>6, <1>7, <1>8, <1>9 DEF Next, Work

\* The persisted state a step leaves behind matches where its worker stands.
LEMMA StepStep == TypeOK /\ StepMatchesState /\ ModeOfStep /\ [Next]_vars => StepMatchesState'
<1> SUFFICES ASSUME TypeOK /\ StepMatchesState /\ ModeOfStep, [Next]_vars PROVE StepMatchesState'
  OBVIOUS
<1> USE DEF vars, txVars, libVars, stagingVars, targetVars, sourceVars, workVars, boundVars
<1> USE DEF StepMatchesState, ModeOfStep, StagingSteps, PublishSteps, RecordSteps, ArchiveSteps,
    RemovalSteps
<1>1. CASE CommitStart
  BY <1>1 DEF CommitStart, Terminal
<1>2. CASE Recover
  <2>1. CASE RecoverStaging(txState)
    BY <2>1 DEF RecoverStaging, SetTx, Terminal
  <2>2. CASE RecoverVerify(txState)
    BY <2>2 DEF RecoverVerify, Terminal
  <2>3. CASE RecoverRepublish(txState)
    BY <2>3 DEF RecoverRepublish, Terminal
  <2>4. CASE RecoverPublishedDir(txState)
    BY <2>4 DEF RecoverPublishedDir, SetTx, Terminal
  <2>5. CASE RecoverRestage(txState)
    BY <2>5 DEF RecoverRestage, SetTx, Terminal
  <2>6. CASE RecoverDbCommit(txState)
    BY <2>6 DEF RecoverDbCommit, Terminal
  <2>7. CASE RecoverDisposal(txState)
    BY <2>7 DEF RecoverDisposal, Terminal
  <2>8. CASE RecoverCleanup(txState)
    BY <2>8 DEF RecoverCleanup, Terminal
  <2>. QED BY <1>2, <2>1, <2>2, <2>3, <2>4, <2>5, <2>6, <2>7, <2>8 DEF Recover, Resume
<1>3. CASE Staging
  <2>1. CASE MakeStagingDir
    BY <2>1 DEF MakeStagingDir, Terminal
  <2>2. CASE FailTransaction
    BY <2>2 DEF FailTransaction, Stop, SetTx, Terminal
  <2>3. CASE StagingDone
    BY <2>3 DEF StagingDone, Goto, SetTx, Terminal
  <2>4. CASE VerifyStaging
    BY <2>4 DEF VerifyStaging, Goto, Stop, SetTx, Terminal
  <2>5. CASE VerifyStagingFails
    BY <2>5 DEF VerifyStagingFails, Stop, Terminal
  <2>6. ASSUME NEW img \in Images, SourceUnavailable(img) PROVE StepMatchesState'
    BY <2>6 DEF SourceUnavailable, Stop, SetTx, Readable, Terminal
  <2>7. ASSUME NEW img \in Images, BeginCopy(img) PROVE StepMatchesState'
    BY <2>7 DEF BeginCopy, Readable, Terminal
  <2>8. ASSUME NEW img \in Images, CopyFile(img) PROVE StepMatchesState'
    BY <2>8 DEF CopyFile, Goto, Readable, Terminal
  <2>9. ASSUME NEW img \in Images, CopyUnreadable(img) PROVE StepMatchesState'
    BY <2>9 DEF CopyUnreadable, Stop, Readable, Terminal
  <2>10. ASSUME NEW img \in Images, CopyMismatch(img) PROVE StepMatchesState'
    BY <2>10 DEF CopyMismatch, Goto, Stop, SetTx, Readable, Terminal
  <2>11. ASSUME NEW img \in Images, MarkVerified(img) PROVE StepMatchesState'
    BY <2>11 DEF MarkVerified, Terminal
  <2>12. CASE (\E img \in Images : ReuseStaged(img))
    BY <2>12 DEF ReuseStaged
  <2>. QED BY <1>3, <2>1, <2>2, <2>3, <2>4, <2>5, <2>6, <2>7, <2>8, <2>9, <2>10, <2>11, <2>12 DEF
      Staging
<1>4. CASE Publishing
  <2>1. CASE WriteManifest
    BY <2>1 DEF WriteManifest, Goto, Terminal
  <2>2. CASE SaveHash
    BY <2>2 DEF SaveHash, Goto, Terminal
  <2>3. CASE EnterPublishing
    BY <2>3 DEF EnterPublishing, Goto, SetTx, Terminal
  <2>4. CASE PublishPrecheck
    BY <2>4 DEF PublishPrecheck, Goto, Stop, Terminal
  <2>5. CASE StrongRename
    BY <2>5 DEF StrongRename, Goto, Stop, Terminal
  <2>6. CASE ConservativeMkdir
    BY <2>6 DEF ConservativeMkdir, Terminal
  <2>7. CASE PublishManifest
    BY <2>7 DEF PublishManifest, Goto, Stop, Terminal
  <2>8. CASE WriteMarker
    BY <2>8 DEF WriteMarker, Goto, Terminal
  <2>9. CASE RemoveStaging
    BY <2>9 DEF RemoveStaging, Goto, Terminal
  <2>10. CASE Announce
    BY <2>10 DEF Announce, Goto, Stop, SetTx, Terminal
  <2>11. ASSUME NEW img \in Images, PublishFile(img) PROVE StepMatchesState'
    BY <2>11 DEF PublishFile, Stop, Terminal
  <2>. QED BY <1>4, <2>1, <2>2, <2>3, <2>4, <2>5, <2>6, <2>7, <2>8, <2>9, <2>10, <2>11 DEF
      Publishing
<1>5. CASE Recording
  <2>1. CASE CheckEvidence
    BY <2>1 DEF CheckEvidence, Goto, Stop, SetTx, PublishedEvidence, Terminal
  <2>2. CASE BeginDbCommit
    BY <2>2 DEF BeginDbCommit, Goto, SetTx, Terminal
  <2>3. CASE InsertRecord
    BY <2>3 DEF InsertRecord, Goto, Terminal
  <2>4. CASE ConsumePlan
    BY <2>4 DEF ConsumePlan, Goto, Terminal
  <2>5. CASE BackOut
    BY <2>5 DEF BackOut, Stop, SetTx, Terminal
  <2>6. CASE LibraryCommitted
    BY <2>6 DEF LibraryCommitted, Goto, SetTx, Terminal
  <2>. QED BY <1>5, <2>1, <2>2, <2>3, <2>4, <2>5, <2>6 DEF Recording
<1>6. CASE Disposal
  <2>1. CASE CommitArchive
    BY <2>1 DEF CommitArchive, Goto, Stop, SetTx, Terminal
  <2>2. CASE RecoverArchive
    BY <2>2 DEF RecoverArchive, Goto, Stop, SetTx, Terminal
  <2>3. CASE ArchiveClash
    BY <2>3 DEF ArchiveClash, Stop, SetTx, Terminal
  <2>4. CASE VerifySnapshot
    BY <2>4 DEF VerifySnapshot, Goto, Stop, SetTx, Terminal
  <2>5. CASE RenameToArchive
    BY <2>5 DEF RenameToArchive, Goto, Stop, Terminal
  <2>6. CASE VerifyArchive
    BY <2>6 DEF VerifyArchive, Goto, Stop, SetTx, Terminal
  <2>7. CASE SourceArchived
    BY ConstantsAssumption, <2>7 DEF SourceArchived, Goto, Stop, SetTx, Terminal
  <2>8. CASE EnterRemoval
    BY <2>8 DEF EnterRemoval, Goto, Stop, SetTx, CommittedEvidence, Terminal
  <2>9. CASE CheckSources
    BY <2>9 DEF CheckSources, Stop, SetTx, Terminal
  <2>10. CASE SourcesRemoved
    BY ConstantsAssumption, <2>10 DEF SourcesRemoved, Goto, SetTx, Terminal
  <2>11. CASE Cleanup
    BY <2>11 DEF Cleanup, Stop, Terminal
  <2>12. CASE Recleanup
    BY ConstantsAssumption, <2>12 DEF Recleanup, Stop, SetTx, Terminal, Terminal
  <2>13. ASSUME NEW img \in Images, RemoveSource(img) PROVE StepMatchesState'
    BY <2>13 DEF RemoveSource, Stop, SetTx, Terminal
  <2>. QED BY <1>6, <2>1, <2>2, <2>3, <2>4, <2>5, <2>6, <2>7, <2>8, <2>9, <2>10, <2>11, <2>12,
      <2>13 DEF Disposal
<1>7. CASE Fault
  <2>1. CASE DbCommitFails
    BY <2>1 DEF DbCommitFails, Goto, Stop, Terminal
  <2>2. CASE CleanupFails
    BY ConstantsAssumption, <2>2 DEF CleanupFails, Stop, SetTx, Terminal
  <2>3. CASE Interrupt
    BY <2>3 DEF Interrupt, Stop, Terminal
  <2>. QED BY <1>7, <2>1, <2>2, <2>3 DEF Fault
<1>8. CASE Outside
  BY <1>8 DEF Outside, MoveSourceAlbum, ForeignTarget, LoseStaging, LoseTarget, ChangeSource,
      LoseStaged, DamageTarget, Meddle
<1>9. CASE UNCHANGED vars
  BY <1>9
<1>. QED BY <1>1, <1>2, <1>3, <1>4, <1>5, <1>6, <1>7, <1>8, <1>9 DEF Next, Work

\* Copy and move never take each other's way through the disposal stage, and a
\* worker exists exactly while a step is under way.
LEMMA ModeStep == TypeOK /\ StepMatchesState /\ ModeOfStep /\ [Next]_vars => ModeOfStep'
<1> SUFFICES ASSUME TypeOK /\ StepMatchesState /\ ModeOfStep, [Next]_vars PROVE ModeOfStep'
  OBVIOUS
<1> USE DEF vars, txVars, libVars, stagingVars, targetVars, sourceVars, workVars, boundVars
<1> USE DEF ModeOfStep, StepMatchesState, TypeOK, Steps, StagingSteps, PublishSteps, RecordSteps,
    ArchiveSteps, RemovalSteps
<1>1. CASE CommitStart
  BY <1>1 DEF CommitStart
<1>2. CASE Recover
  <2>1. CASE RecoverStaging(txState)
    BY <2>1 DEF RecoverStaging, SetTx
  <2>2. CASE RecoverVerify(txState)
    BY <2>2 DEF RecoverVerify
  <2>3. CASE RecoverRepublish(txState)
    BY <2>3 DEF RecoverRepublish
  <2>4. CASE RecoverPublishedDir(txState)
    BY <2>4 DEF RecoverPublishedDir, SetTx
  <2>5. CASE RecoverRestage(txState)
    BY <2>5 DEF RecoverRestage, SetTx
  <2>6. CASE RecoverDbCommit(txState)
    BY <2>6 DEF RecoverDbCommit
  <2>7. CASE RecoverDisposal(txState)
    BY <2>7 DEF RecoverDisposal
  <2>8. CASE RecoverCleanup(txState)
    BY <2>8 DEF RecoverCleanup
  <2>. QED BY <1>2, <2>1, <2>2, <2>3, <2>4, <2>5, <2>6, <2>7, <2>8 DEF Recover, Resume
<1>3. CASE Staging
  <2>1. CASE MakeStagingDir
    BY <2>1 DEF MakeStagingDir
  <2>2. CASE FailTransaction
    BY <2>2 DEF FailTransaction, Stop, SetTx
  <2>3. CASE StagingDone
    BY <2>3 DEF StagingDone, Goto, SetTx
  <2>4. CASE VerifyStaging
    BY <2>4 DEF VerifyStaging, Goto, Stop, SetTx
  <2>5. CASE VerifyStagingFails
    BY <2>5 DEF VerifyStagingFails, Stop
  <2>6. ASSUME NEW img \in Images, SourceUnavailable(img) PROVE ModeOfStep'
    BY <2>6 DEF SourceUnavailable, Stop, SetTx, Readable
  <2>7. ASSUME NEW img \in Images, BeginCopy(img) PROVE ModeOfStep'
    BY <2>7 DEF BeginCopy, Readable
  <2>8. ASSUME NEW img \in Images, CopyFile(img) PROVE ModeOfStep'
    BY <2>8 DEF CopyFile, Goto, Readable
  <2>9. ASSUME NEW img \in Images, CopyUnreadable(img) PROVE ModeOfStep'
    BY <2>9 DEF CopyUnreadable, Stop, Readable
  <2>10. ASSUME NEW img \in Images, CopyMismatch(img) PROVE ModeOfStep'
    BY <2>10 DEF CopyMismatch, Goto, Stop, SetTx, Readable
  <2>11. ASSUME NEW img \in Images, MarkVerified(img) PROVE ModeOfStep'
    BY <2>11 DEF MarkVerified
  <2>12. CASE (\E img \in Images : ReuseStaged(img))
    BY <2>12 DEF ReuseStaged
  <2>. QED BY <1>3, <2>1, <2>2, <2>3, <2>4, <2>5, <2>6, <2>7, <2>8, <2>9, <2>10, <2>11, <2>12 DEF
      Staging
<1>4. CASE Publishing
  <2>1. CASE WriteManifest
    BY <2>1 DEF WriteManifest, Goto
  <2>2. CASE SaveHash
    BY <2>2 DEF SaveHash, Goto
  <2>3. CASE EnterPublishing
    BY <2>3 DEF EnterPublishing, Goto, SetTx
  <2>4. CASE PublishPrecheck
    BY <2>4 DEF PublishPrecheck, Goto, Stop
  <2>5. CASE StrongRename
    BY <2>5 DEF StrongRename, Goto, Stop
  <2>6. CASE ConservativeMkdir
    BY <2>6 DEF ConservativeMkdir
  <2>7. CASE PublishManifest
    BY <2>7 DEF PublishManifest, Goto, Stop
  <2>8. CASE WriteMarker
    BY <2>8 DEF WriteMarker, Goto
  <2>9. CASE RemoveStaging
    BY <2>9 DEF RemoveStaging, Goto
  <2>10. CASE Announce
    BY <2>10 DEF Announce, Goto, Stop, SetTx
  <2>11. ASSUME NEW img \in Images, PublishFile(img) PROVE ModeOfStep'
    BY <2>11 DEF PublishFile, Stop
  <2>. QED BY <1>4, <2>1, <2>2, <2>3, <2>4, <2>5, <2>6, <2>7, <2>8, <2>9, <2>10, <2>11 DEF
      Publishing
<1>5. CASE Recording
  <2>1. CASE CheckEvidence
    BY <2>1 DEF CheckEvidence, Goto, Stop, SetTx, PublishedEvidence
  <2>2. CASE BeginDbCommit
    BY <2>2 DEF BeginDbCommit, Goto, SetTx
  <2>3. CASE InsertRecord
    BY <2>3 DEF InsertRecord, Goto
  <2>4. CASE ConsumePlan
    BY <2>4 DEF ConsumePlan, Goto
  <2>5. CASE BackOut
    BY <2>5 DEF BackOut, Stop, SetTx
  <2>6. CASE LibraryCommitted
    BY <2>6 DEF LibraryCommitted, Goto, SetTx
  <2>. QED BY <1>5, <2>1, <2>2, <2>3, <2>4, <2>5, <2>6 DEF Recording
<1>6. CASE Disposal
  <2>1. CASE CommitArchive
    BY ConstantsAssumption, <2>1 DEF CommitArchive, Goto, Stop, SetTx
  <2>2. CASE RecoverArchive
    BY ConstantsAssumption, <2>2 DEF RecoverArchive, Goto, Stop, SetTx
  <2>3. CASE ArchiveClash
    BY <2>3 DEF ArchiveClash, Stop, SetTx
  <2>4. CASE VerifySnapshot
    BY <2>4 DEF VerifySnapshot, Goto, Stop, SetTx
  <2>5. CASE RenameToArchive
    BY <2>5 DEF RenameToArchive, Goto, Stop
  <2>6. CASE VerifyArchive
    BY <2>6 DEF VerifyArchive, Goto, Stop, SetTx
  <2>7. CASE SourceArchived
    BY ConstantsAssumption, <2>7 DEF SourceArchived, Goto, Stop, SetTx
  <2>8. CASE EnterRemoval
    BY ConstantsAssumption, <2>8 DEF EnterRemoval, Goto, Stop, SetTx, CommittedEvidence
  <2>9. CASE CheckSources
    BY <2>9 DEF CheckSources, Stop, SetTx
  <2>10. CASE SourcesRemoved
    BY ConstantsAssumption, <2>10 DEF SourcesRemoved, Goto, SetTx
  <2>11. CASE Cleanup
    BY <2>11 DEF Cleanup, Stop
  <2>12. CASE Recleanup
    BY ConstantsAssumption, <2>12 DEF Recleanup, Stop, SetTx, Terminal, Terminal
  <2>13. ASSUME NEW img \in Images, RemoveSource(img) PROVE ModeOfStep'
    BY <2>13 DEF RemoveSource, Stop, SetTx
  <2>. QED BY <1>6, <2>1, <2>2, <2>3, <2>4, <2>5, <2>6, <2>7, <2>8, <2>9, <2>10, <2>11, <2>12,
      <2>13 DEF Disposal
<1>7. CASE Fault
  <2>1. CASE DbCommitFails
    BY <2>1 DEF DbCommitFails, Goto, Stop
  <2>2. CASE CleanupFails
    BY <2>2 DEF CleanupFails, Stop, SetTx
  <2>3. CASE Interrupt
    BY <2>3 DEF Interrupt, Stop
  <2>. QED BY <1>7, <2>1, <2>2, <2>3 DEF Fault
<1>8. CASE Outside
  BY <1>8 DEF Outside, MoveSourceAlbum, ForeignTarget, LoseStaging, LoseTarget, ChangeSource,
      LoseStaged, DamageTarget, Meddle
<1>9. CASE UNCHANGED vars
  BY <1>9
<1>. QED BY <1>1, <1>2, <1>3, <1>4, <1>5, <1>6, <1>7, <1>8, <1>9 DEF Next, Work

\* The journal rows of the images a staging loop is done with say verified.
LEMMA JournalStep == TypeOK /\ StepMatchesState /\ ModeOfStep /\ JournalInv /\ [Next]_vars =>
    JournalInv'
<1> SUFFICES ASSUME TypeOK /\ StepMatchesState /\ ModeOfStep /\ JournalInv, [Next]_vars PROVE
    JournalInv'
  OBVIOUS
<1> USE DEF vars, txVars, libVars, stagingVars, targetVars, sourceVars, workVars, boundVars
<1> USE DEF JournalInv, OperationsVerified, StepMatchesState, ModeOfStep, TypeOK, StagingSteps,
    PublishSteps, RecordSteps, ArchiveSteps, RemovalSteps
<1>1. CASE CommitStart
  BY <1>1 DEF CommitStart, Terminal
<1>2. CASE Recover
  <2>1. CASE RecoverStaging(txState)
    BY <2>1 DEF RecoverStaging, SetTx, Terminal
  <2>2. CASE RecoverVerify(txState)
    BY <2>2 DEF RecoverVerify, Terminal
  <2>3. CASE RecoverRepublish(txState)
    BY <2>3 DEF RecoverRepublish, Terminal
  <2>4. CASE RecoverPublishedDir(txState)
    BY <2>4 DEF RecoverPublishedDir, SetTx, Terminal
  <2>5. CASE RecoverRestage(txState)
    BY <2>5 DEF RecoverRestage, SetTx, Terminal
  <2>6. CASE RecoverDbCommit(txState)
    BY <2>6 DEF RecoverDbCommit, Terminal
  <2>7. CASE RecoverDisposal(txState)
    BY <2>7 DEF RecoverDisposal, Terminal
  <2>8. CASE RecoverCleanup(txState)
    BY <2>8 DEF RecoverCleanup, Terminal
  <2>. QED BY <1>2, <2>1, <2>2, <2>3, <2>4, <2>5, <2>6, <2>7, <2>8 DEF Recover, Resume
<1>3. CASE Staging
  <2>1. CASE MakeStagingDir
    BY <2>1 DEF MakeStagingDir, Terminal
  <2>2. CASE FailTransaction
    BY <2>2 DEF FailTransaction, Stop, SetTx, Terminal
  <2>3. CASE StagingDone
    BY <2>3 DEF StagingDone, Goto, SetTx, Terminal
  <2>4. CASE VerifyStaging
    BY <2>4 DEF VerifyStaging, Goto, Stop, SetTx, Terminal
  <2>5. CASE VerifyStagingFails
    BY <2>5 DEF VerifyStagingFails, Stop, Terminal
  <2>6. ASSUME NEW img \in Images, ReuseStaged(img) PROVE JournalInv'
    BY <2>6 DEF ReuseStaged, Terminal
  <2>7. ASSUME NEW img \in Images, SourceUnavailable(img) PROVE JournalInv'
    BY <2>7 DEF SourceUnavailable, Stop, SetTx, Readable, Terminal
  <2>8. ASSUME NEW img \in Images, BeginCopy(img) PROVE JournalInv'
    BY <2>8 DEF BeginCopy, Readable, Terminal
  <2>9. ASSUME NEW img \in Images, CopyFile(img) PROVE JournalInv'
    BY <2>9 DEF CopyFile, Goto, Readable, Terminal
  <2>10. ASSUME NEW img \in Images, CopyUnreadable(img) PROVE JournalInv'
    BY <2>10 DEF CopyUnreadable, Stop, Readable, Terminal
  <2>11. ASSUME NEW img \in Images, CopyMismatch(img) PROVE JournalInv'
    BY <2>11 DEF CopyMismatch, Goto, Stop, SetTx, Readable, Terminal
  <2>12. ASSUME NEW img \in Images, MarkVerified(img) PROVE JournalInv'
    BY <2>12 DEF MarkVerified, Terminal
  <2>. QED BY <1>3, <2>1, <2>2, <2>3, <2>4, <2>5, <2>6, <2>7, <2>8, <2>9, <2>10, <2>11, <2>12 DEF
      Staging
<1>4. CASE Publishing
  <2>1. CASE WriteManifest
    BY <2>1 DEF WriteManifest, Goto, Terminal
  <2>2. CASE SaveHash
    BY <2>2 DEF SaveHash, Goto, Terminal
  <2>3. CASE EnterPublishing
    BY <2>3 DEF EnterPublishing, Goto, SetTx, Terminal
  <2>4. CASE PublishPrecheck
    BY <2>4 DEF PublishPrecheck, Goto, Stop, Terminal
  <2>5. CASE StrongRename
    BY <2>5 DEF StrongRename, Goto, Stop, Terminal
  <2>6. CASE ConservativeMkdir
    BY <2>6 DEF ConservativeMkdir, Terminal
  <2>7. CASE PublishManifest
    BY <2>7 DEF PublishManifest, Goto, Stop, Terminal
  <2>8. CASE WriteMarker
    BY <2>8 DEF WriteMarker, Goto, Terminal
  <2>9. CASE RemoveStaging
    BY <2>9 DEF RemoveStaging, Goto, Terminal
  <2>10. CASE Announce
    BY <2>10 DEF Announce, Goto, Stop, SetTx, Terminal
  <2>11. ASSUME NEW img \in Images, PublishFile(img) PROVE JournalInv'
    BY <2>11 DEF PublishFile, Stop, Terminal
  <2>. QED BY <1>4, <2>1, <2>2, <2>3, <2>4, <2>5, <2>6, <2>7, <2>8, <2>9, <2>10, <2>11 DEF
      Publishing
<1>5. CASE Recording
  <2>1. CASE CheckEvidence
    BY <2>1 DEF CheckEvidence, Goto, Stop, SetTx, PublishedEvidence, Terminal
  <2>2. CASE BeginDbCommit
    BY <2>2 DEF BeginDbCommit, Goto, SetTx, Terminal
  <2>3. CASE InsertRecord
    BY <2>3 DEF InsertRecord, Goto, Terminal
  <2>4. CASE ConsumePlan
    BY <2>4 DEF ConsumePlan, Goto, Terminal
  <2>5. CASE BackOut
    BY <2>5 DEF BackOut, Stop, SetTx, Terminal
  <2>6. CASE LibraryCommitted
    BY <2>6 DEF LibraryCommitted, Goto, SetTx, Terminal
  <2>. QED BY <1>5, <2>1, <2>2, <2>3, <2>4, <2>5, <2>6 DEF Recording
<1>6. CASE Disposal
  <2>1. CASE CommitArchive
    BY <2>1 DEF CommitArchive, Goto, Stop, SetTx, Terminal
  <2>2. CASE RecoverArchive
    BY <2>2 DEF RecoverArchive, Goto, Stop, SetTx, Terminal
  <2>3. CASE ArchiveClash
    BY <2>3 DEF ArchiveClash, Stop, SetTx, Terminal
  <2>4. CASE VerifySnapshot
    BY <2>4 DEF VerifySnapshot, Goto, Stop, SetTx, Terminal
  <2>5. CASE RenameToArchive
    BY <2>5 DEF RenameToArchive, Goto, Stop, Terminal
  <2>6. CASE VerifyArchive
    BY <2>6 DEF VerifyArchive, Goto, Stop, SetTx, Terminal
  <2>7. CASE SourceArchived
    BY <2>7 DEF SourceArchived, Goto, Stop, SetTx, Terminal
  <2>8. CASE EnterRemoval
    BY <2>8 DEF EnterRemoval, Goto, Stop, SetTx, CommittedEvidence, Terminal
  <2>9. CASE CheckSources
    BY <2>9 DEF CheckSources, Stop, SetTx, Terminal
  <2>10. CASE SourcesRemoved
    BY <2>10 DEF SourcesRemoved, Goto, SetTx, Terminal
  <2>11. CASE Cleanup
    BY <2>11 DEF Cleanup, Stop, Terminal
  <2>12. CASE Recleanup
    BY <2>12 DEF Recleanup, Stop, SetTx, Terminal, Terminal
  <2>13. ASSUME NEW img \in Images, RemoveSource(img) PROVE JournalInv'
    BY <2>13 DEF RemoveSource, Stop, SetTx, Terminal
  <2>. QED BY <1>6, <2>1, <2>2, <2>3, <2>4, <2>5, <2>6, <2>7, <2>8, <2>9, <2>10, <2>11, <2>12,
      <2>13 DEF Disposal
<1>7. CASE Fault
  <2>1. CASE DbCommitFails
    BY <2>1 DEF DbCommitFails, Goto, Stop, Terminal
  <2>2. CASE CleanupFails
    BY <2>2 DEF CleanupFails, Stop, SetTx, Terminal
  <2>3. CASE Interrupt
    BY <2>3 DEF Interrupt, Stop, Terminal
  <2>. QED BY <1>7, <2>1, <2>2, <2>3 DEF Fault
<1>8. CASE Outside
  BY <1>8 DEF Outside, MoveSourceAlbum, ForeignTarget, LoseStaging, LoseTarget, ChangeSource,
      LoseStaged, DamageTarget, Meddle
<1>9. CASE UNCHANGED vars
  BY <1>9
<1>. QED BY <1>1, <1>2, <1>3, <1>4, <1>5, <1>6, <1>7, <1>8, <1>9 DEF Next, Work

\* Files, manifest and marker appear in the target directory in that order.
LEMMA TargetStep == TypeOK /\ StepMatchesState /\ ModeOfStep /\ TargetInv /\ CommitPathInv /\
    [Next]_vars => TargetInv'
<1> SUFFICES ASSUME TypeOK /\ StepMatchesState /\ ModeOfStep /\ TargetInv /\ CommitPathInv,
    [Next]_vars PROVE TargetInv'
  OBVIOUS
<1> USE DEF vars, txVars, libVars, stagingVars, targetVars, sourceVars, workVars, boundVars
<1> USE DEF TargetInv, StepMatchesState, TypeOK, Presence, BeforePublish, AfterRecord,
    StagingSteps, PublishSteps, RecordSteps, ArchiveSteps, RemovalSteps
<1>1. CASE CommitStart
  BY <1>1 DEF CommitStart, Terminal
<1>2. CASE Recover
  <2>1. CASE RecoverStaging(txState)
    BY <2>1 DEF RecoverStaging, SetTx, Terminal
  <2>2. CASE RecoverVerify(txState)
    BY <2>2 DEF RecoverVerify, Terminal
  <2>3. CASE RecoverRepublish(txState)
    BY <2>3 DEF RecoverRepublish, Terminal
  <2>4. CASE RecoverPublishedDir(txState)
    BY <2>4 DEF RecoverPublishedDir, SetTx, Terminal
  <2>5. CASE RecoverRestage(txState)
    BY <2>5 DEF RecoverRestage, SetTx, Terminal
  <2>6. CASE RecoverDbCommit(txState)
    BY <2>6 DEF RecoverDbCommit, Terminal
  <2>7. CASE RecoverDisposal(txState)
    BY <2>7 DEF RecoverDisposal, Terminal
  <2>8. CASE RecoverCleanup(txState)
    BY <2>8 DEF RecoverCleanup, Terminal
  <2>. QED BY <1>2, <2>1, <2>2, <2>3, <2>4, <2>5, <2>6, <2>7, <2>8 DEF Recover, Resume
<1>3. CASE Staging
  <2>1. CASE MakeStagingDir
    BY <2>1 DEF MakeStagingDir, Terminal
  <2>2. CASE FailTransaction
    BY <2>2 DEF FailTransaction, Stop, SetTx, Terminal
  <2>3. CASE StagingDone
    BY <2>3 DEF StagingDone, Goto, SetTx, Terminal
  <2>4. CASE VerifyStaging
    BY <2>4 DEF VerifyStaging, Goto, Stop, SetTx, Terminal
  <2>5. CASE VerifyStagingFails
    BY <2>5 DEF VerifyStagingFails, Stop, Terminal
  <2>6. ASSUME NEW img \in Images, ReuseStaged(img) PROVE TargetInv'
    BY <2>6 DEF ReuseStaged, Terminal
  <2>7. ASSUME NEW img \in Images, SourceUnavailable(img) PROVE TargetInv'
    BY <2>7 DEF SourceUnavailable, Stop, SetTx, Readable, Terminal
  <2>8. ASSUME NEW img \in Images, BeginCopy(img) PROVE TargetInv'
    BY <2>8 DEF BeginCopy, Readable, Terminal
  <2>9. ASSUME NEW img \in Images, CopyFile(img) PROVE TargetInv'
    BY <2>9 DEF CopyFile, Goto, Readable, Terminal
  <2>10. ASSUME NEW img \in Images, CopyUnreadable(img) PROVE TargetInv'
    BY <2>10 DEF CopyUnreadable, Stop, Readable, Terminal
  <2>11. ASSUME NEW img \in Images, CopyMismatch(img) PROVE TargetInv'
    BY <2>11 DEF CopyMismatch, Goto, Stop, SetTx, Readable, Terminal
  <2>12. ASSUME NEW img \in Images, MarkVerified(img) PROVE TargetInv'
    BY <2>12 DEF MarkVerified, Terminal
  <2>. QED BY <1>3, <2>1, <2>2, <2>3, <2>4, <2>5, <2>6, <2>7, <2>8, <2>9, <2>10, <2>11, <2>12 DEF
      Staging
<1>4. CASE Publishing
  <2>1. CASE WriteManifest
    BY <2>1 DEF WriteManifest, Goto, Terminal
  <2>2. CASE SaveHash
    BY <2>2 DEF SaveHash, Goto, Terminal
  <2>3. CASE EnterPublishing
    BY <2>3 DEF EnterPublishing, Goto, SetTx, Terminal
  <2>4. CASE PublishPrecheck
    BY <2>4 DEF PublishPrecheck, Goto, Stop, Terminal
  <2>5. CASE StrongRename
    BY <2>5 DEF StrongRename, Goto, Stop, CommitPathInv, Terminal
  <2>6. CASE ConservativeMkdir
    BY <2>6 DEF ConservativeMkdir, Terminal
  <2>7. CASE PublishManifest
    BY <2>7 DEF PublishManifest, Goto, Stop, Terminal
  <2>8. CASE WriteMarker
    BY <2>8 DEF WriteMarker, Goto, Terminal
  <2>9. CASE RemoveStaging
    BY <2>9 DEF RemoveStaging, Goto, Terminal
  <2>10. CASE Announce
    BY <2>10 DEF Announce, Goto, Stop, SetTx, Terminal
  <2>11. ASSUME NEW img \in Images, PublishFile(img) PROVE TargetInv'
    BY <2>11 DEF PublishFile, Stop, Terminal
  <2>. QED BY <1>4, <2>1, <2>2, <2>3, <2>4, <2>5, <2>6, <2>7, <2>8, <2>9, <2>10, <2>11 DEF
      Publishing
<1>5. CASE Recording
  <2>1. CASE CheckEvidence
    BY <2>1 DEF CheckEvidence, Goto, Stop, SetTx, PublishedEvidence, Terminal
  <2>2. CASE BeginDbCommit
    BY <2>2 DEF BeginDbCommit, Goto, SetTx, Terminal
  <2>3. CASE InsertRecord
    BY <2>3 DEF InsertRecord, Goto, Terminal
  <2>4. CASE ConsumePlan
    BY <2>4 DEF ConsumePlan, Goto, Terminal
  <2>5. CASE BackOut
    BY <2>5 DEF BackOut, Stop, SetTx, Terminal
  <2>6. CASE LibraryCommitted
    BY <2>6 DEF LibraryCommitted, Goto, SetTx, Terminal
  <2>. QED BY <1>5, <2>1, <2>2, <2>3, <2>4, <2>5, <2>6 DEF Recording
<1>6. CASE Disposal
  <2>1. CASE CommitArchive
    BY <2>1 DEF CommitArchive, Goto, Stop, SetTx, Terminal
  <2>2. CASE RecoverArchive
    BY <2>2 DEF RecoverArchive, Goto, Stop, SetTx, Terminal
  <2>3. CASE ArchiveClash
    BY <2>3 DEF ArchiveClash, Stop, SetTx, Terminal
  <2>4. CASE VerifySnapshot
    BY <2>4 DEF VerifySnapshot, Goto, Stop, SetTx, Terminal
  <2>5. CASE RenameToArchive
    BY <2>5 DEF RenameToArchive, Goto, Stop, Terminal
  <2>6. CASE VerifyArchive
    BY <2>6 DEF VerifyArchive, Goto, Stop, SetTx, Terminal
  <2>7. CASE SourceArchived
    BY <2>7 DEF SourceArchived, Goto, Stop, SetTx, Terminal
  <2>8. CASE EnterRemoval
    BY <2>8 DEF EnterRemoval, Goto, Stop, SetTx, CommittedEvidence, Terminal
  <2>9. CASE CheckSources
    BY <2>9 DEF CheckSources, Stop, SetTx, Terminal
  <2>10. CASE SourcesRemoved
    BY <2>10 DEF SourcesRemoved, Goto, SetTx, Terminal
  <2>11. CASE Cleanup
    BY <2>11 DEF Cleanup, Stop, Terminal
  <2>12. CASE Recleanup
    BY <2>12 DEF Recleanup, Stop, SetTx, Terminal, Terminal
  <2>13. ASSUME NEW img \in Images, RemoveSource(img) PROVE TargetInv'
    BY <2>13 DEF RemoveSource, Stop, SetTx, Terminal
  <2>. QED BY <1>6, <2>1, <2>2, <2>3, <2>4, <2>5, <2>6, <2>7, <2>8, <2>9, <2>10, <2>11, <2>12,
      <2>13 DEF Disposal
<1>7. CASE Fault
  <2>1. CASE DbCommitFails
    BY <2>1 DEF DbCommitFails, Goto, Stop, Terminal
  <2>2. CASE CleanupFails
    BY <2>2 DEF CleanupFails, Stop, SetTx, Terminal
  <2>3. CASE Interrupt
    BY <2>3 DEF Interrupt, Stop, Terminal
  <2>. QED BY <1>7, <2>1, <2>2, <2>3 DEF Fault
<1>8. CASE Outside
  <2>1. CASE ForeignTarget
    BY <2>1 DEF ForeignTarget, Meddle, Terminal
  <2>2. CASE LoseTarget
    BY <2>2 DEF LoseTarget, Meddle, Terminal
  <2>3. ASSUME NEW img \in Images, DamageTarget(img) PROVE TargetInv'
    BY <2>3 DEF DamageTarget, Meddle, Terminal
  <2>4. CASE MoveSourceAlbum \/ LoseStaging \/ (\E img \in Images : ChangeSource(img) \/
      LoseStaged(img))
    BY <2>4 DEF MoveSourceAlbum, LoseStaging, ChangeSource, LoseStaged, Meddle
  <2>. QED BY <1>8, <2>1, <2>2, <2>3, <2>4 DEF Outside
<1>9. CASE UNCHANGED vars
  BY <1>9
<1>. QED BY <1>1, <1>2, <1>3, <1>4, <1>5, <1>6, <1>7, <1>8, <1>9 DEF Next, Work

\* What the commit pipeline verified in staging is what it publishes.
LEMMA CommitPathStep == TypeOK /\ ModeOfStep /\ TargetInv /\ CommitPathInv /\ [Next]_vars =>
    CommitPathInv'
<1> SUFFICES ASSUME TypeOK /\ ModeOfStep /\ TargetInv /\ CommitPathInv, [Next]_vars PROVE
    CommitPathInv'
  OBVIOUS
<1> USE DEF vars, txVars, libVars, stagingVars, targetVars, sourceVars, workVars, boundVars
<1> USE DEF CommitPathInv, ModeOfStep, TypeOK, AllGood, StagingSteps, PublishSteps, RecordSteps,
    ArchiveSteps, RemovalSteps
<1>1. CASE CommitStart
  BY <1>1 DEF CommitStart
<1>2. CASE Recover
  <2>1. CASE RecoverStaging(txState)
    BY <2>1 DEF RecoverStaging, SetTx
  <2>2. CASE RecoverVerify(txState)
    BY <2>2 DEF RecoverVerify
  <2>3. CASE RecoverRepublish(txState)
    BY <2>3 DEF RecoverRepublish
  <2>4. CASE RecoverPublishedDir(txState)
    BY <2>4 DEF RecoverPublishedDir, SetTx
  <2>5. CASE RecoverDbCommit(txState)
    BY <2>5 DEF RecoverDbCommit
  <2>6. CASE RecoverDisposal(txState)
    BY <2>6 DEF RecoverDisposal
  <2>7. CASE RecoverCleanup(txState)
    BY <2>7 DEF RecoverCleanup
  <2>8. CASE RecoverRestage(txState)
    BY <2>8 DEF RecoverRestage, SetTx
  <2>. QED BY <1>2, <2>1, <2>2, <2>3, <2>4, <2>5, <2>6, <2>7, <2>8 DEF Recover, Resume
<1>3. CASE Staging
  <2>1. CASE MakeStagingDir
    BY <2>1 DEF MakeStagingDir
  <2>2. CASE FailTransaction
    BY <2>2 DEF FailTransaction, Stop, SetTx
  <2>3. CASE StagingDone
    BY <2>3 DEF StagingDone, Goto, SetTx
  <2>4. CASE VerifyStaging
    BY <2>4 DEF VerifyStaging, Goto, Stop, SetTx
  <2>5. CASE VerifyStagingFails
    BY <2>5 DEF VerifyStagingFails, Stop
  <2>6. ASSUME NEW img \in Images, ReuseStaged(img) PROVE CommitPathInv'
    BY <2>6 DEF ReuseStaged
  <2>7. ASSUME NEW img \in Images, SourceUnavailable(img) PROVE CommitPathInv'
    BY <2>7 DEF SourceUnavailable, Stop, SetTx, Readable
  <2>8. ASSUME NEW img \in Images, BeginCopy(img) PROVE CommitPathInv'
    BY <2>8 DEF BeginCopy, Readable
  <2>9. ASSUME NEW img \in Images, CopyFile(img) PROVE CommitPathInv'
    BY <2>9 DEF CopyFile, Goto, Readable
  <2>10. ASSUME NEW img \in Images, CopyUnreadable(img) PROVE CommitPathInv'
    BY <2>10 DEF CopyUnreadable, Stop, Readable
  <2>11. ASSUME NEW img \in Images, CopyMismatch(img) PROVE CommitPathInv'
    BY <2>11 DEF CopyMismatch, Goto, Stop, SetTx, Readable
  <2>12. ASSUME NEW img \in Images, MarkVerified(img) PROVE CommitPathInv'
    BY <2>12 DEF MarkVerified
  <2>. QED BY <1>3, <2>1, <2>2, <2>3, <2>4, <2>5, <2>6, <2>7, <2>8, <2>9, <2>10, <2>11, <2>12 DEF
      Staging
<1>4. CASE Publishing
  <2>1. CASE WriteManifest
    BY <2>1 DEF WriteManifest, Goto
  <2>2. CASE SaveHash
    BY <2>2 DEF SaveHash, Goto
  <2>3. CASE EnterPublishing
    BY <2>3 DEF EnterPublishing, Goto, SetTx
  <2>4. CASE PublishPrecheck
    BY <2>4 DEF PublishPrecheck, Goto, Stop
  <2>5. CASE StrongRename
    BY <2>5 DEF StrongRename, Goto, Stop
  <2>6. CASE ConservativeMkdir
    BY <2>6 DEF ConservativeMkdir
  <2>7. CASE PublishManifest
    BY <2>7 DEF PublishManifest, Goto, Stop, TargetInv
  <2>8. CASE WriteMarker
    BY <2>8 DEF WriteMarker, Goto
  <2>9. CASE RemoveStaging
    BY <2>9 DEF RemoveStaging, Goto
  <2>10. CASE Announce
    BY <2>10 DEF Announce, Goto, Stop, SetTx
  <2>11. ASSUME NEW img \in Images, PublishFile(img) PROVE CommitPathInv'
    BY <2>11 DEF PublishFile, Stop
  <2>. QED BY <1>4, <2>1, <2>2, <2>3, <2>4, <2>5, <2>6, <2>7, <2>8, <2>9, <2>10, <2>11 DEF
      Publishing
<1>5. CASE Recording
  <2>1. CASE CheckEvidence
    BY <2>1 DEF CheckEvidence, Goto, Stop, SetTx, PublishedEvidence
  <2>2. CASE BeginDbCommit
    BY <2>2 DEF BeginDbCommit, Goto, SetTx
  <2>3. CASE InsertRecord
    BY <2>3 DEF InsertRecord, Goto
  <2>4. CASE ConsumePlan
    BY <2>4 DEF ConsumePlan, Goto
  <2>5. CASE BackOut
    BY <2>5 DEF BackOut, Stop, SetTx
  <2>6. CASE LibraryCommitted
    BY <2>6 DEF LibraryCommitted, Goto, SetTx
  <2>. QED BY <1>5, <2>1, <2>2, <2>3, <2>4, <2>5, <2>6 DEF Recording
<1>6. CASE Disposal
  <2>1. CASE CommitArchive
    BY <2>1 DEF CommitArchive, Goto, Stop, SetTx
  <2>2. CASE RecoverArchive
    BY <2>2 DEF RecoverArchive, Goto, Stop, SetTx
  <2>3. CASE ArchiveClash
    BY <2>3 DEF ArchiveClash, Stop, SetTx
  <2>4. CASE VerifySnapshot
    BY <2>4 DEF VerifySnapshot, Goto, Stop, SetTx
  <2>5. CASE RenameToArchive
    BY <2>5 DEF RenameToArchive, Goto, Stop
  <2>6. CASE VerifyArchive
    BY <2>6 DEF VerifyArchive, Goto, Stop, SetTx
  <2>7. CASE SourceArchived
    BY <2>7 DEF SourceArchived, Goto, Stop, SetTx
  <2>8. CASE EnterRemoval
    BY <2>8 DEF EnterRemoval, Goto, Stop, SetTx, CommittedEvidence
  <2>9. CASE CheckSources
    BY <2>9 DEF CheckSources, Stop, SetTx
  <2>10. CASE SourcesRemoved
    BY <2>10 DEF SourcesRemoved, Goto, SetTx
  <2>11. CASE Cleanup
    BY <2>11 DEF Cleanup, Stop
  <2>12. CASE Recleanup
    BY <2>12 DEF Recleanup, Stop, SetTx, Terminal
  <2>13. ASSUME NEW img \in Images, RemoveSource(img) PROVE CommitPathInv'
    BY <2>13 DEF RemoveSource, Stop, SetTx
  <2>. QED BY <1>6, <2>1, <2>2, <2>3, <2>4, <2>5, <2>6, <2>7, <2>8, <2>9, <2>10, <2>11, <2>12,
      <2>13 DEF Disposal
<1>7. CASE Fault
  <2>1. CASE DbCommitFails
    BY <2>1 DEF DbCommitFails, Goto, Stop
  <2>2. CASE CleanupFails
    BY <2>2 DEF CleanupFails, Stop, SetTx
  <2>3. CASE Interrupt
    BY <2>3 DEF Interrupt, Stop
  <2>. QED BY <1>7, <2>1, <2>2, <2>3 DEF Fault
<1>8. CASE Outside
  <2>1. CASE ForeignTarget
    BY <2>1 DEF ForeignTarget, Meddle
  <2>2. CASE LoseStaging
    BY <2>2 DEF LoseStaging, Meddle
  <2>3. CASE LoseTarget
    BY <2>3 DEF LoseTarget, Meddle
  <2>4. ASSUME NEW img \in Images, LoseStaged(img) PROVE CommitPathInv'
    BY <2>4 DEF LoseStaged, Meddle
  <2>5. ASSUME NEW img \in Images, DamageTarget(img) PROVE CommitPathInv'
    BY <2>5 DEF DamageTarget, Meddle
  <2>6. CASE MoveSourceAlbum \/ (\E img \in Images : ChangeSource(img))
    BY <2>6 DEF MoveSourceAlbum, ChangeSource, Meddle
  <2>. QED BY <1>8, <2>1, <2>2, <2>3, <2>4, <2>5, <2>6 DEF Outside
<1>9. CASE UNCHANGED vars
  BY <1>9
<1>. QED BY <1>1, <1>2, <1>3, <1>4, <1>5, <1>6, <1>7, <1>8, <1>9 DEF Next, Work

\* The library rows rest on a complete album, and what follows rests on them.
LEMMA RecordStep == IInv /\ [Next]_vars => RecordInv'
<1> SUFFICES ASSUME IInv, [Next]_vars PROVE RecordInv'
  OBVIOUS
<1> USE DEF vars, txVars, libVars, stagingVars, targetVars, sourceVars, workVars, boundVars
<1> USE DEF RecordInv, NoRestageAfterRecord, StepMatchesState, ModeOfStep, CompleteAlbum, TypeOK,
    AfterRecord, IInv, StagingSteps, PublishSteps, RecordSteps, ArchiveSteps, RemovalSteps
<1>1. CASE CommitStart
  BY <1>1 DEF CommitStart, Terminal
<1>2. CASE Recover
  <2>1. CASE RecoverStaging(txState)
    BY <2>1 DEF RecoverStaging, SetTx, Terminal
  <2>2. CASE RecoverVerify(txState)
    BY <2>2 DEF RecoverVerify, Terminal
  <2>3. CASE RecoverRepublish(txState)
    BY <2>3 DEF RecoverRepublish, Terminal
  <2>4. CASE RecoverPublishedDir(txState)
    BY <2>4 DEF RecoverPublishedDir, SetTx, Terminal
  <2>5. CASE RecoverRestage(txState)
    BY <2>5 DEF RecoverRestage, SetTx, Terminal
  <2>6. CASE RecoverDbCommit(txState)
    BY <2>6 DEF RecoverDbCommit, Terminal
  <2>7. CASE RecoverDisposal(txState)
    BY <2>7 DEF RecoverDisposal, Terminal
  <2>8. CASE RecoverCleanup(txState)
    BY <2>8 DEF RecoverCleanup, Terminal
  <2>. QED BY <1>2, <2>1, <2>2, <2>3, <2>4, <2>5, <2>6, <2>7, <2>8 DEF Recover, Resume
<1>3. CASE Staging
  <2>1. CASE MakeStagingDir
    BY <2>1 DEF MakeStagingDir, Terminal
  <2>2. CASE FailTransaction
    BY <2>2 DEF FailTransaction, Stop, SetTx, Terminal
  <2>3. CASE StagingDone
    BY <2>3 DEF StagingDone, Goto, SetTx, Terminal
  <2>4. CASE VerifyStaging
    BY <2>4 DEF VerifyStaging, Goto, Stop, SetTx, Terminal
  <2>5. CASE VerifyStagingFails
    BY <2>5 DEF VerifyStagingFails, Stop, Terminal
  <2>6. ASSUME NEW img \in Images, SourceUnavailable(img) PROVE RecordInv'
    BY <2>6 DEF SourceUnavailable, Stop, SetTx, Readable, Terminal
  <2>7. ASSUME NEW img \in Images, BeginCopy(img) PROVE RecordInv'
    BY <2>7 DEF BeginCopy, Readable, Terminal
  <2>8. ASSUME NEW img \in Images, CopyFile(img) PROVE RecordInv'
    BY <2>8 DEF CopyFile, Goto, Readable, Terminal
  <2>9. ASSUME NEW img \in Images, CopyUnreadable(img) PROVE RecordInv'
    BY <2>9 DEF CopyUnreadable, Stop, Readable, Terminal
  <2>10. ASSUME NEW img \in Images, CopyMismatch(img) PROVE RecordInv'
    BY <2>10 DEF CopyMismatch, Goto, Stop, SetTx, Readable, Terminal
  <2>11. ASSUME NEW img \in Images, MarkVerified(img) PROVE RecordInv'
    BY <2>11 DEF MarkVerified, Terminal
  <2>12. CASE (\E img \in Images : ReuseStaged(img))
    BY <2>12 DEF ReuseStaged
  <2>. QED BY <1>3, <2>1, <2>2, <2>3, <2>4, <2>5, <2>6, <2>7, <2>8, <2>9, <2>10, <2>11, <2>12 DEF
      Staging
<1>4. CASE Publishing
  <2>1. CASE WriteManifest
    BY <2>1 DEF WriteManifest, Goto, Terminal
  <2>2. CASE SaveHash
    BY <2>2 DEF SaveHash, Goto, Terminal
  <2>3. CASE EnterPublishing
    BY <2>3 DEF EnterPublishing, Goto, SetTx, Terminal
  <2>4. CASE PublishPrecheck
    BY <2>4 DEF PublishPrecheck, Goto, Stop, Terminal
  <2>5. CASE StrongRename
    BY <2>5 DEF StrongRename, Goto, Stop, Terminal
  <2>6. CASE ConservativeMkdir
    BY <2>6 DEF ConservativeMkdir, Terminal
  <2>7. CASE PublishManifest
    BY <2>7 DEF PublishManifest, Goto, Stop, Terminal
  <2>8. CASE WriteMarker
    BY <2>8 DEF WriteMarker, Goto, Terminal
  <2>9. CASE RemoveStaging
    BY <2>9 DEF RemoveStaging, Goto, Terminal
  <2>10. CASE Announce
    BY <2>10 DEF Announce, Goto, Stop, SetTx, CommitPathInv, TargetInv, Terminal
  <2>11. ASSUME NEW img \in Images, PublishFile(img) PROVE RecordInv'
    BY <2>11 DEF PublishFile, Stop, Terminal
  <2>. QED BY <1>4, <2>1, <2>2, <2>3, <2>4, <2>5, <2>6, <2>7, <2>8, <2>9, <2>10, <2>11 DEF
      Publishing
<1>5. CASE Recording
  <2>1. CASE CheckEvidence
    BY <2>1 DEF CheckEvidence, Goto, Stop, SetTx, PublishedEvidence, TargetInv, Terminal
  <2>2. CASE BeginDbCommit
    BY <2>2 DEF BeginDbCommit, Goto, SetTx, Terminal
  <2>3. CASE InsertRecord
    BY <2>3 DEF InsertRecord, Goto, Terminal
  <2>4. CASE ConsumePlan
    BY <2>4 DEF ConsumePlan, Goto, Terminal
  <2>5. CASE BackOut
    BY <2>5 DEF BackOut, Stop, SetTx, Terminal
  <2>6. CASE LibraryCommitted
    BY <2>6 DEF LibraryCommitted, Goto, SetTx, Terminal
  <2>. QED BY <1>5, <2>1, <2>2, <2>3, <2>4, <2>5, <2>6 DEF Recording
<1>6. CASE Disposal
  <2>1. CASE CommitArchive
    BY <2>1 DEF CommitArchive, Goto, Stop, SetTx, Terminal
  <2>2. CASE RecoverArchive
    BY <2>2 DEF RecoverArchive, Goto, Stop, SetTx, Terminal
  <2>3. CASE ArchiveClash
    BY <2>3 DEF ArchiveClash, Stop, SetTx, Terminal
  <2>4. CASE VerifySnapshot
    BY <2>4 DEF VerifySnapshot, Goto, Stop, SetTx, Terminal
  <2>5. CASE RenameToArchive
    BY <2>5 DEF RenameToArchive, Goto, Stop, Terminal
  <2>6. CASE VerifyArchive
    BY <2>6 DEF VerifyArchive, Goto, Stop, SetTx, Terminal
  <2>7. CASE SourceArchived
    BY <2>7 DEF SourceArchived, Goto, Stop, SetTx, Terminal
  <2>8. CASE EnterRemoval
    BY <2>8 DEF EnterRemoval, Goto, Stop, SetTx, CommittedEvidence, Terminal
  <2>9. CASE CheckSources
    BY <2>9 DEF CheckSources, Stop, SetTx, Terminal
  <2>10. CASE SourcesRemoved
    BY <2>10 DEF SourcesRemoved, Goto, SetTx, Terminal
  <2>11. CASE Cleanup
    BY <2>11 DEF Cleanup, Stop, Terminal
  <2>12. CASE Recleanup
    BY <2>12 DEF Recleanup, Stop, SetTx, Terminal, Terminal
  <2>13. ASSUME NEW img \in Images, RemoveSource(img) PROVE RecordInv'
    BY <2>13 DEF RemoveSource, Stop, SetTx, Terminal
  <2>. QED BY <1>6, <2>1, <2>2, <2>3, <2>4, <2>5, <2>6, <2>7, <2>8, <2>9, <2>10, <2>11, <2>12,
      <2>13 DEF Disposal
<1>7. CASE Fault
  <2>1. CASE DbCommitFails
    BY <2>1 DEF DbCommitFails, Goto, Stop, Terminal
  <2>2. CASE CleanupFails
    BY <2>2 DEF CleanupFails, Stop, SetTx, Terminal
  <2>3. CASE Interrupt
    BY <2>3 DEF Interrupt, Stop, Terminal
  <2>. QED BY <1>7, <2>1, <2>2, <2>3 DEF Fault
<1>8. CASE Outside
  <2>1. CASE ForeignTarget
    BY <2>1 DEF ForeignTarget, Meddle, Terminal
  <2>2. CASE LoseTarget
    BY <2>2 DEF LoseTarget, Meddle, Terminal
  <2>3. ASSUME NEW img \in Images, DamageTarget(img) PROVE RecordInv'
    BY <2>3 DEF DamageTarget, Meddle, Terminal
  <2>4. CASE MoveSourceAlbum \/ LoseStaging \/ (\E img \in Images : ChangeSource(img) \/
      LoseStaged(img))
    BY <2>4 DEF MoveSourceAlbum, LoseStaging, ChangeSource, LoseStaged, Meddle
  <2>. QED BY <1>8, <2>1, <2>2, <2>3, <2>4 DEF Outside
<1>9. CASE UNCHANGED vars
  BY <1>9
<1>. QED BY <1>1, <1>2, <1>3, <1>4, <1>5, <1>6, <1>7, <1>8, <1>9 DEF Next, Work

\* The source album is in place, archived, or emptied; never in between.
LEMMA SourceStep == IInv /\ [Next]_vars => SourceInv'
<1> SUFFICES ASSUME IInv, [Next]_vars PROVE SourceInv'
  OBVIOUS
<1> USE DEF vars, txVars, libVars, stagingVars, targetVars, sourceVars, workVars, boundVars
<1> USE DEF SourceInv, TerminalMeansDone, StepMatchesState, ModeOfStep, TypeOK, Presence,
    AllGood, Terminal, IInv, StagingSteps, PublishSteps, RecordSteps, ArchiveSteps, RemovalSteps
<1>1. CASE CommitStart
  BY <1>1 DEF CommitStart
<1>2. CASE Recover
  <2>1. CASE RecoverStaging(txState)
    BY <2>1 DEF RecoverStaging, SetTx
  <2>2. CASE RecoverVerify(txState)
    BY <2>2 DEF RecoverVerify
  <2>3. CASE RecoverRepublish(txState)
    BY <2>3 DEF RecoverRepublish
  <2>4. CASE RecoverPublishedDir(txState)
    BY <2>4 DEF RecoverPublishedDir, SetTx
  <2>5. CASE RecoverRestage(txState)
    BY <2>5 DEF RecoverRestage, SetTx
  <2>6. CASE RecoverDbCommit(txState)
    BY <2>6 DEF RecoverDbCommit
  <2>7. CASE RecoverDisposal(txState)
    BY <2>7 DEF RecoverDisposal
  <2>8. CASE RecoverCleanup(txState)
    BY <2>8 DEF RecoverCleanup
  <2>. QED BY <1>2, <2>1, <2>2, <2>3, <2>4, <2>5, <2>6, <2>7, <2>8 DEF Recover, Resume
<1>3. CASE Staging
  <2>1. CASE MakeStagingDir
    BY <2>1 DEF MakeStagingDir
  <2>2. CASE FailTransaction
    BY <2>2 DEF FailTransaction, Stop, SetTx
  <2>3. CASE StagingDone
    BY <2>3 DEF StagingDone, Goto, SetTx
  <2>4. CASE VerifyStaging
    BY <2>4 DEF VerifyStaging, Goto, Stop, SetTx
  <2>5. CASE VerifyStagingFails
    BY <2>5 DEF VerifyStagingFails, Stop
  <2>6. ASSUME NEW img \in Images, ReuseStaged(img) PROVE SourceInv'
    BY <2>6 DEF ReuseStaged
  <2>7. ASSUME NEW img \in Images, SourceUnavailable(img) PROVE SourceInv'
    BY <2>7 DEF SourceUnavailable, Stop, SetTx, Readable
  <2>8. ASSUME NEW img \in Images, BeginCopy(img) PROVE SourceInv'
    BY <2>8 DEF BeginCopy, Readable
  <2>9. ASSUME NEW img \in Images, CopyFile(img) PROVE SourceInv'
    BY <2>9 DEF CopyFile, Goto, Readable
  <2>10. ASSUME NEW img \in Images, CopyUnreadable(img) PROVE SourceInv'
    BY <2>10 DEF CopyUnreadable, Stop, Readable
  <2>11. ASSUME NEW img \in Images, CopyMismatch(img) PROVE SourceInv'
    BY <2>11 DEF CopyMismatch, Goto, Stop, SetTx, Readable
  <2>12. ASSUME NEW img \in Images, MarkVerified(img) PROVE SourceInv'
    BY <2>12 DEF MarkVerified
  <2>. QED BY <1>3, <2>1, <2>2, <2>3, <2>4, <2>5, <2>6, <2>7, <2>8, <2>9, <2>10, <2>11, <2>12 DEF
      Staging
<1>4. CASE Publishing
  <2>1. CASE WriteManifest
    BY <2>1 DEF WriteManifest, Goto
  <2>2. CASE SaveHash
    BY <2>2 DEF SaveHash, Goto
  <2>3. CASE EnterPublishing
    BY <2>3 DEF EnterPublishing, Goto, SetTx
  <2>4. CASE PublishPrecheck
    BY <2>4 DEF PublishPrecheck, Goto, Stop
  <2>5. CASE StrongRename
    BY <2>5 DEF StrongRename, Goto, Stop
  <2>6. CASE ConservativeMkdir
    BY <2>6 DEF ConservativeMkdir
  <2>7. CASE PublishManifest
    BY <2>7 DEF PublishManifest, Goto, Stop
  <2>8. CASE WriteMarker
    BY <2>8 DEF WriteMarker, Goto
  <2>9. CASE RemoveStaging
    BY <2>9 DEF RemoveStaging, Goto
  <2>10. CASE Announce
    BY <2>10 DEF Announce, Goto, Stop, SetTx
  <2>11. ASSUME NEW img \in Images, PublishFile(img) PROVE SourceInv'
    BY <2>11 DEF PublishFile, Stop
  <2>. QED BY <1>4, <2>1, <2>2, <2>3, <2>4, <2>5, <2>6, <2>7, <2>8, <2>9, <2>10, <2>11 DEF
      Publishing
<1>5. CASE Recording
  <2>1. CASE CheckEvidence
    BY <2>1 DEF CheckEvidence, Goto, Stop, SetTx, PublishedEvidence
  <2>2. CASE BeginDbCommit
    BY <2>2 DEF BeginDbCommit, Goto, SetTx
  <2>3. CASE InsertRecord
    BY <2>3 DEF InsertRecord, Goto
  <2>4. CASE ConsumePlan
    BY <2>4 DEF ConsumePlan, Goto
  <2>5. CASE BackOut
    BY <2>5 DEF BackOut, Stop, SetTx
  <2>6. CASE LibraryCommitted
    BY <2>6 DEF LibraryCommitted, Goto, SetTx, RecordInv, AfterRecord
  <2>. QED BY <1>5, <2>1, <2>2, <2>3, <2>4, <2>5, <2>6 DEF Recording
<1>6. CASE Disposal
  <2>1. CASE CommitArchive
    BY <2>1 DEF CommitArchive, Goto, Stop, SetTx
  <2>2. CASE RecoverArchive
    BY <2>2 DEF RecoverArchive, Goto, Stop, SetTx
  <2>3. CASE ArchiveClash
    BY <2>3 DEF ArchiveClash, Stop, SetTx
  <2>4. CASE VerifySnapshot
    BY <2>4 DEF VerifySnapshot, Goto, Stop, SetTx
  <2>5. CASE RenameToArchive
    BY <2>5 DEF RenameToArchive, Goto, Stop, NoFile
  <2>6. CASE VerifyArchive
    BY <2>6 DEF VerifyArchive, Goto, Stop, SetTx
  <2>7. CASE SourceArchived
    BY <2>7 DEF SourceArchived, Goto, Stop, SetTx, RecordInv, AfterRecord
  <2>8. CASE EnterRemoval
    BY <2>8 DEF EnterRemoval, Goto, Stop, SetTx, CommittedEvidence
  <2>9. CASE CheckSources
    BY <2>9 DEF CheckSources, Stop, SetTx
  <2>10. CASE SourcesRemoved
    BY <2>10 DEF SourcesRemoved, Goto, SetTx, RecordInv, AfterRecord
  <2>11. CASE Cleanup
    BY NoFileType, <2>11 DEF Cleanup, Stop
  <2>12. CASE Recleanup
    BY ConstantsAssumption, <2>12 DEF Recleanup, Stop, SetTx, Terminal, RecordInv, AfterRecord
  <2>13. ASSUME NEW img \in Images, RemoveSource(img) PROVE SourceInv'
    BY <2>13 DEF RemoveSource, Stop, SetTx
  <2>. QED BY <1>6, <2>1, <2>2, <2>3, <2>4, <2>5, <2>6, <2>7, <2>8, <2>9, <2>10, <2>11, <2>12,
      <2>13 DEF Disposal
<1>7. CASE Fault
  <2>1. CASE DbCommitFails
    BY <2>1 DEF DbCommitFails, Goto, Stop
  <2>2. CASE CleanupFails
    BY <2>2 DEF CleanupFails, Stop, SetTx, RecordInv, AfterRecord
  <2>3. CASE Interrupt
    BY <2>3 DEF Interrupt, Stop
  <2>. QED BY <1>7, <2>1, <2>2, <2>3 DEF Fault
<1>8. CASE Outside
  <2>1. CASE MoveSourceAlbum
    BY <2>1 DEF MoveSourceAlbum, Meddle
  <2>2. ASSUME NEW img \in Images, ChangeSource(img) PROVE SourceInv'
    BY <2>2 DEF ChangeSource, Meddle, Content
  <2>3. CASE ForeignTarget \/ LoseStaging \/ LoseTarget \/ (\E img \in Images : LoseStaged(img)
      \/ DamageTarget(img))
    BY <2>3 DEF ForeignTarget, LoseStaging, LoseTarget, LoseStaged, DamageTarget, Meddle
  <2>. QED BY <1>8, <2>1, <2>2, <2>3 DEF Outside
<1>9. CASE UNCHANGED vars
  BY <1>9
<1>. QED BY <1>1, <1>2, <1>3, <1>4, <1>5, <1>6, <1>7, <1>8, <1>9 DEF Next, Work

\* The initial state: nothing staged, published, recorded or disposed of.
LEMMA InitInvariant == Init => IInv
<1> SUFFICES ASSUME Init PROVE IInv
  OBVIOUS
<1> USE DEF Init
<1>1. TypeOK
  <2>1. opState \in [Images -> OpStates] /\ source \in [Images -> Content \cup {"removed"}]
    BY DEF OpStates, Content
  <2>2. faults \in 0..MaxFaults /\ meddles \in 0..MaxMeddles
    BY ConstantsAssumption
  <2>. QED BY <2>1, <2>2, NoFileType DEF TypeOK, TxStates, Presence, Steps
<1>2. StepMatchesState /\ ModeOfStep
  BY DEF StepMatchesState, ModeOfStep, StagingSteps, PublishSteps, RecordSteps, ArchiveSteps,
         RemovalSteps
<1>3. JournalInv /\ TargetInv /\ CommitPathInv
  BY DEF JournalInv, OperationsVerified, TargetInv, CommitPathInv, BeforePublish, AfterRecord
<1>4. RecordInv
  BY DEF RecordInv, NoRestageAfterRecord, RecordSteps, RemovalSteps, AfterRecord
<1>5. SourceInv
  BY DEF SourceInv, TerminalMeansDone, Terminal
<1>. QED BY <1>1, <1>2, <1>3, <1>4, <1>5 DEF IInv

\* IInv holds in every reachable state: the argument all the others rest on.
THEOREM InductiveInvariant == Spec => []IInv
<1>1. IInv /\ [Next]_vars => IInv'
  <2> SUFFICES ASSUME IInv, [Next]_vars PROVE IInv'
    OBVIOUS
  <2>1. TypeOK' BY TypeStep DEF IInv
  <2>2. StepMatchesState' BY StepStep DEF IInv
  <2>3. ModeOfStep' BY ModeStep DEF IInv
  <2>4. JournalInv' BY JournalStep DEF IInv
  <2>5. TargetInv' BY TargetStep DEF IInv
  <2>6. CommitPathInv' BY CommitPathStep DEF IInv
  <2>7. RecordInv' BY RecordStep
  <2>8. SourceInv' BY SourceStep
  <2>. QED BY <2>1, <2>2, <2>3, <2>4, <2>5, <2>6, <2>7, <2>8 DEF IInv
<1>. QED BY InitInvariant, <1>1, PTL DEF Spec

-----------------------------------------------------------------------------
(***************************************************************************)
(* The safety properties.                                                  *)
(***************************************************************************)

\* Every variable keeps its type.
THEOREM TypeCorrect == Spec => []TypeOK
<1>1. IInv => TypeOK BY DEF IInv
<1>. QED BY <1>1, InductiveInvariant, PTL

\* A transaction whose library rows exist is never staged again and never fails:
\* the updates of commit_single_album and the resume_* functions keep the order.
THEOREM NoRestageAfterRecordHolds == Spec => []NoRestageAfterRecord
<1>1. IInv => NoRestageAfterRecord BY DEF IInv, RecordInv
<1>. QED BY <1>1, InductiveInvariant, PTL

\* Past staging every row of the journal says verified, so that recovery may take
\* the journal at its word whichever state it finds.
THEOREM OperationsVerifiedHolds == Spec => []OperationsVerified
<1>1. IInv => OperationsVerified BY DEF IInv, JournalInv
<1>. QED BY <1>1, InductiveInvariant, PTL

\* A transaction that reports its end has its rows, its consumed plan and a source
\* album that is archived intact or emptied of every image.
THEOREM TerminalMeansDoneHolds == Spec => []TerminalMeansDone
<1>1. IInv => TerminalMeansDone BY DEF IInv, SourceInv
<1>. QED BY <1>1, InductiveInvariant, PTL

-----------------------------------------------------------------------------
(***************************************************************************)
(* Left to itself.  Where the storage renames directories nothing ever     *)
(* needs a person; elsewhere only a publish that was cut short does.       *)
(***************************************************************************)

\* The target directory is there and our manifest is not: what an interrupted
\* publish file by file leaves.  No row was written and the source is complete.
HalfPublished ==
    /\ "conservative" \in Strategies
    /\ txState \in {"publishing", "conflict"}
    /\ targetDir = "present" /\ targetManifest = "absent"
    /\ record = "absent" /\ plan = "frozen"
    /\ sourceDir = "present" /\ AllGood(source)

\* What is true as long as nobody else touches the files: the source is in its
\* place or in the archive, what is staged for publishing is verified, and what
\* is published is complete or half published.
Undisturbed ==
    /\ txState # "failed" /\ pc \notin {"fail", "clash"}
    /\ txState = "conflict" => HalfPublished /\ faults # 0
    /\ pc \in {"mkdir", "pubcopy"} => "conservative" \in Strategies
    /\ archiveDir = "absent" =>
           sourceDir = "present" /\ \A img \in Images : source[img] \in {"good", "removed"}
    /\ archiveDir = "present" => sourceDir = "absent" /\ AllGood(archive)
    /\ record = "absent" => plan = "frozen" /\ sourceDir = "present" /\ AllGood(source)
    /\ pc \in {"manifest", "savehash", "topublish", "precheck", "rename", "mkdir", "pubcopy"} => staging = "album"
    /\ \/ pc \in {"manifest", "savehash", "topublish", "pubcopy"}
       \/ txState = "publishing" /\ staging = "album" /\ targetDir = "absent"
       => AllGood(staged)
    /\ \/ pc \in {"savehash", "topublish", "pubcopy"}
       \/ txState = "publishing" /\ staging = "album" /\ targetDir = "absent"
       => stagedManifest = "present"
    /\ targetExtra = "absent"
    /\ pc \in {"rename", "mkdir"} => targetDir = "absent"
    /\ targetDir = "present" =>
           \/ targetManifest = "present" /\ AllGood(target)
           \/ HalfPublished /\ (faults # 0 \/ pc = "pubcopy")
    /\ pc = "topublish" \/ txState \in {"publishing", "published", "db_committing"} \cup AfterRecord
       => manifestHash = "present"
    /\ txState \in {"published", "db_committing"} \cup AfterRecord =>
           targetDir = "present" /\ targetMarker = "present"

QuietInv == meddles = 0 => Undisturbed

\* The program's own steps, its failures included, keep it that way.
LEMMA UndisturbedStep ==
    ASSUME IInv, Undisturbed, [CommitStart \/ Recover \/ Work \/ Fault]_vars
    PROVE  Undisturbed'
<1> USE DEF vars, txVars, libVars, stagingVars, targetVars, sourceVars, workVars, boundVars
<1> USE DEF IInv, TypeOK, StepMatchesState, ModeOfStep, RecordInv, SourceInv, CompleteAlbum, AllGood,
    AfterRecord, Undisturbed, HalfPublished, StagingSteps, PublishSteps, RecordSteps, ArchiveSteps, RemovalSteps
<1>1. CASE CommitStart
  BY <1>1 DEF CommitStart, Terminal
<1>2. CASE Recover
  <2>1. CASE RecoverStaging(txState)
    BY <2>1 DEF RecoverStaging, SetTx, Terminal
  <2>2. CASE RecoverVerify(txState)
    BY <2>2 DEF RecoverVerify, Terminal
  <2>3. CASE RecoverRepublish(txState)
    BY <2>3 DEF RecoverRepublish, Terminal
  <2>4. CASE RecoverPublishedDir(txState)
    BY <2>4 DEF RecoverPublishedDir, SetTx, Terminal, TargetInv
  <2>5. CASE RecoverRestage(txState)
    BY <2>5 DEF RecoverRestage, SetTx, Terminal
  <2>6. CASE RecoverDbCommit(txState)
    BY <2>6 DEF RecoverDbCommit, Terminal
  <2>7. CASE RecoverDisposal(txState)
    BY <2>7 DEF RecoverDisposal, Terminal
  <2>8. CASE RecoverCleanup(txState)
    BY <2>8 DEF RecoverCleanup, Terminal
  <2>. QED BY <1>2, <2>1, <2>2, <2>3, <2>4, <2>5, <2>6, <2>7, <2>8 DEF Recover, Resume
<1>3. CASE Staging
  <2>1. CASE MakeStagingDir
    BY <2>1 DEF MakeStagingDir, Terminal
  <2>2. CASE FailTransaction
    BY <2>2 DEF FailTransaction, Stop, SetTx, Terminal
  <2>3. CASE StagingDone
    BY <2>3 DEF StagingDone, Goto, SetTx, Terminal
  <2>4. CASE VerifyStaging
    BY <2>4 DEF VerifyStaging, Goto, Stop, SetTx, Terminal
  <2>5. CASE VerifyStagingFails
    BY <2>5 DEF VerifyStagingFails, Stop, Terminal
  <2>6. ASSUME NEW img \in Images, SourceUnavailable(img) PROVE Undisturbed'
    BY <2>6 DEF SourceUnavailable, Stop, SetTx, Terminal
  <2>7. ASSUME NEW img \in Images, BeginCopy(img) PROVE Undisturbed'
    BY <2>7 DEF BeginCopy, Terminal
  <2>8. ASSUME NEW img \in Images, CopyFile(img) PROVE Undisturbed'
    BY <2>8 DEF CopyFile, Goto, Terminal
  <2>9. ASSUME NEW img \in Images, CopyUnreadable(img) PROVE Undisturbed'
    BY <2>9 DEF CopyUnreadable, Stop, Terminal
  <2>10. ASSUME NEW img \in Images, CopyMismatch(img) PROVE Undisturbed'
    <3>1. txState = "staging" /\ source[img] = "bad"
      BY <2>10 DEF CopyMismatch
    <3>. QED BY <3>1 DEF Presence
  <2>11. ASSUME NEW img \in Images, MarkVerified(img) PROVE Undisturbed'
    BY <2>11 DEF MarkVerified, Terminal
  <2>12. CASE (\E img \in Images : ReuseStaged(img))
    BY <2>12 DEF ReuseStaged
  <2>. QED BY <1>3, <2>1, <2>2, <2>3, <2>4, <2>5, <2>6, <2>7, <2>8, <2>9, <2>10, <2>11, <2>12 DEF Staging
<1>4. CASE Publishing
  <2>1. CASE WriteManifest
    BY <2>1 DEF WriteManifest, Goto, Terminal
  <2>2. CASE SaveHash
    BY <2>2 DEF SaveHash, Goto, Terminal
  <2>3. CASE EnterPublishing
    BY <2>3 DEF EnterPublishing, Goto, SetTx, Terminal
  <2>4. CASE PublishPrecheck
    BY ConstantsAssumption, <2>4 DEF PublishPrecheck, Goto, Stop, Presence, Terminal
  <2>5. CASE StrongRename
    <3>1. CASE targetDir = "present"
      BY <2>5, <3>1 DEF StrongRename, Stop
    <3>2. CASE targetDir = "absent"
      <4>1. AllGood(staged) /\ stagedManifest = "present"
        BY <2>5, <3>2 DEF StrongRename
      <4>2. AllGood(target') /\ targetManifest' = "present" /\ staging' = "base" /\ pc' = "marker"
        BY <2>5, <3>2, <4>1 DEF StrongRename, Goto
      <4>3. UNCHANGED <<txVars, libVars, sourceVars, targetExtra>>
        BY <2>5, <3>2 DEF StrongRename
      <4>. QED BY <2>5, <4>2, <4>3 DEF StrongRename, TargetInv
    <3>. QED BY <3>1, <3>2 DEF Presence
  <2>6. CASE ConservativeMkdir
    <3>1. txState = "publishing" /\ record = "absent"
      BY <2>6 DEF ConservativeMkdir, NoRestageAfterRecord, Presence
    <3>2. targetManifest = "absent" /\ targetDir = "absent"
      BY <2>6 DEF ConservativeMkdir, TargetInv
    <3>3. targetDir' = "present" /\ pc' = "pubcopy" /\ staging' = "album"
      BY <2>6 DEF ConservativeMkdir
    <3>4. UNCHANGED <<txVars, libVars, staged, stagedManifest, target, targetManifest, targetMarker,
                      targetExtra, sourceVars, boundVars>>
      BY <2>6 DEF ConservativeMkdir
    <3>5. HalfPublished'
      BY <2>6, <3>1, <3>2, <3>3, <3>4 DEF ConservativeMkdir
    <3>. QED BY <2>6, <3>1, <3>2, <3>3, <3>4, <3>5 DEF ConservativeMkdir, Terminal
  <2>7. CASE PublishManifest
    <3>1. stagedManifest = "present" /\ txState = "publishing"
      BY <2>7 DEF PublishManifest
    <3>2. AllGood(target) /\ targetDir = "present"
      BY <2>7 DEF PublishManifest, TargetInv
    <3>3. targetManifest' = "present" /\ pc' = "marker"
      BY <2>7, <3>1 DEF PublishManifest, Goto
    <3>4. UNCHANGED <<txVars, libVars, stagingVars, targetDir, target, targetMarker, targetExtra,
                      sourceVars, boundVars>>
      BY <2>7 DEF PublishManifest
    <3>. QED BY <3>1, <3>2, <3>3, <3>4 DEF Terminal
  <2>8. CASE WriteMarker
    BY <2>8 DEF WriteMarker, Goto, Terminal, TargetInv
  <2>9. CASE RemoveStaging
    BY <2>9 DEF RemoveStaging, Goto, Terminal
  <2>10. CASE Announce
    BY <2>10 DEF Announce, Goto, Stop, SetTx, Terminal, TargetInv
  <2>11. ASSUME NEW img \in Images, PublishFile(img) PROVE Undisturbed'
    BY <2>11 DEF PublishFile, Stop, Terminal
  <2>. QED BY <1>4, <2>1, <2>2, <2>3, <2>4, <2>5, <2>6, <2>7, <2>8, <2>9, <2>10, <2>11 DEF Publishing
<1>5. CASE Recording
  <2>1. CASE CheckEvidence
    BY <2>1 DEF CheckEvidence, Goto, Stop, SetTx, PublishedEvidence, Terminal
  <2>2. CASE BeginDbCommit
    BY <2>2 DEF BeginDbCommit, Goto, SetTx, Terminal
  <2>3. CASE InsertRecord
    BY <2>3 DEF InsertRecord, Goto, Terminal
  <2>4. CASE ConsumePlan
    BY <2>4 DEF ConsumePlan, Goto, Terminal
  <2>5. CASE BackOut
    BY <2>5 DEF BackOut, Stop, SetTx, Terminal
  <2>6. CASE LibraryCommitted
    BY <2>6 DEF LibraryCommitted, Goto, SetTx, Terminal
  <2>. QED BY <1>5, <2>1, <2>2, <2>3, <2>4, <2>5, <2>6 DEF Recording
<1>6. CASE Disposal
  <2>1. CASE CommitArchive
    <3>1. txState = "library_committed"
      BY <2>1 DEF CommitArchive
    <3>2. archiveDir = "absent"
      BY <3>1 DEF Presence
    <3>. QED BY <2>1, <3>1, <3>2 DEF CommitArchive, Goto, SetTx
  <2>2. CASE RecoverArchive
    <3>1. txState \in {"library_committed", "source_archiving"} /\ targetDir = "present"
      BY <2>2 DEF RecoverArchive
    <3>2. sourceDir # archiveDir
      BY DEF Presence
    <3>. QED BY <2>2, <3>1, <3>2 DEF RecoverArchive, Goto, SetTx
  <2>3. CASE ArchiveClash
    BY <2>3 DEF ArchiveClash, Stop, SetTx, Terminal
  <2>4. CASE VerifySnapshot
    BY <2>4 DEF VerifySnapshot, Goto, Stop, SetTx, Terminal
  <2>5. CASE RenameToArchive
    BY <2>5 DEF RenameToArchive, Goto, Stop, Terminal, NoFile
  <2>6. CASE VerifyArchive
    BY <2>6 DEF VerifyArchive, Goto, Stop, SetTx, Terminal
  <2>7. CASE SourceArchived
    BY <2>7 DEF SourceArchived, Goto, Stop, SetTx, Terminal
  <2>8. CASE EnterRemoval
    BY <2>8 DEF EnterRemoval, Goto, Stop, SetTx, CommittedEvidence, Terminal, CompleteAlbum
  <2>9. CASE CheckSources
    BY <2>9 DEF CheckSources, Stop, SetTx, Terminal
  <2>10. CASE SourcesRemoved
    BY <2>10 DEF SourcesRemoved, Goto, SetTx, Terminal
  <2>11. CASE Cleanup
    BY <2>11 DEF Cleanup, Stop, Terminal
  <2>12. CASE Recleanup
    BY <2>12 DEF Recleanup, Stop, SetTx, Terminal
  <2>13. ASSUME NEW img \in Images, RemoveSource(img) PROVE Undisturbed'
    BY <2>13 DEF RemoveSource, Stop, SetTx, Terminal
  <2>. QED BY <1>6, <2>1, <2>2, <2>3, <2>4, <2>5, <2>6, <2>7, <2>8, <2>9, <2>10, <2>11, <2>12,
      <2>13 DEF Disposal
<1>7. CASE Fault
  <2>1. CASE DbCommitFails
    BY <2>1 DEF DbCommitFails, Goto, Stop, Terminal
  <2>2. CASE CleanupFails
    BY <2>2 DEF CleanupFails, Stop, SetTx, Terminal
  <2>3. CASE Interrupt
    BY <2>3 DEF Interrupt, Stop, Terminal
  <2>. QED BY <1>7, <2>1, <2>2, <2>3 DEF Fault
<1>8. CASE UNCHANGED vars
  BY <1>8
<1>. QED BY <1>1, <1>2, <1>3, <1>4, <1>5, <1>6, <1>7, <1>8 DEF Work

\* The program's own steps are not counted.
LEMMA NotCounted ==
    ASSUME [CommitStart \/ Recover \/ Work \/ Fault]_vars
    PROVE  UNCHANGED meddles
<1> USE DEF vars, boundVars
<1>1. CASE CommitStart
  BY <1>1 DEF CommitStart
<1>2. CASE Recover
  BY <1>2 DEF Recover, Resume, RecoverStaging, RecoverVerify, RecoverRepublish, RecoverPublishedDir,
      RecoverRestage, RecoverDbCommit, RecoverDisposal, RecoverCleanup
<1>3. CASE Staging
  BY <1>3 DEF Staging, MakeStagingDir, FailTransaction, StagingDone, VerifyStaging, VerifyStagingFails,
      ReuseStaged, SourceUnavailable, BeginCopy, CopyFile, CopyUnreadable, CopyMismatch, MarkVerified
<1>4. CASE Publishing
  BY <1>4 DEF Publishing, WriteManifest, SaveHash, EnterPublishing, PublishPrecheck, StrongRename,
      ConservativeMkdir, PublishManifest, WriteMarker, RemoveStaging, Announce, PublishFile
<1>5. CASE Recording
  BY <1>5 DEF Recording, CheckEvidence, BeginDbCommit, InsertRecord, ConsumePlan, BackOut, LibraryCommitted
<1>6. CASE Disposal
  BY <1>6 DEF Disposal, CommitArchive, RecoverArchive, ArchiveClash, VerifySnapshot, RenameToArchive,
      VerifyArchive, SourceArchived, EnterRemoval, CheckSources, SourcesRemoved, Cleanup, Recleanup,
      RemoveSource
<1>7. CASE Fault
  BY <1>7 DEF Fault, DbCommitFails, CleanupFails, Interrupt
<1>8. CASE UNCHANGED vars
  BY <1>8
<1>. QED BY <1>1, <1>2, <1>3, <1>4, <1>5, <1>6, <1>7, <1>8 DEF Work

\* Every act of the outside is counted.
LEMMA QuietStep ==
    ASSUME IInv, QuietInv, [Next]_vars
    PROVE  QuietInv'
<1>1. CASE Outside
  <2>1. meddles' = meddles + 1
    BY <1>1 DEF Outside, MoveSourceAlbum, ForeignTarget, LoseStaging, LoseTarget, ChangeSource, LoseStaged,
        DamageTarget, Meddle
  <2>. QED BY <2>1 DEF QuietInv, IInv, TypeOK
<1>2. CASE [CommitStart \/ Recover \/ Work \/ Fault]_vars
  <2>1. CASE meddles = 0
    <3>1. Undisturbed
      BY <2>1 DEF QuietInv
    <3>. QED BY <3>1, <1>2, UndisturbedStep DEF QuietInv
  <2>2. UNCHANGED meddles
    BY <1>2, NotCounted
  <2>. QED BY <2>1, <2>2 DEF QuietInv
<1>. QED BY <1>1, <1>2 DEF Next

\* As long as nothing outside the program acts, it keeps to what QuietInv says.
LEMMA QuietInvariant == Spec => []QuietInv
<1>1. Init => QuietInv
  BY ConstantsAssumption DEF Init, QuietInv, Undisturbed, HalfPublished, AllGood, NoFile, AfterRecord
<1>2. IInv /\ QuietInv /\ [Next]_vars => QuietInv'
  BY QuietStep
<1>. QED BY <1>1, <1>2, InductiveInvariant, PTL DEF Spec

\* On storage that renames directories, crashes, cancellations and failed
\* statements alone never bring a transaction to a state that a person has to
\* resolve (the conflict and failed exits of commit and recovery); on any
\* storage nothing does that without a fault.
THEOREM NeverStuckHolds ==
    Spec => [](faults = 0 \/ Strategies = {"strong"} => NeverStuckByItself)
<1>1. QuietInv => (faults = 0 \/ Strategies = {"strong"} => NeverStuckByItself)
  BY DEF QuietInv, Undisturbed, HalfPublished, NeverStuckByItself
<1>. QED BY <1>1, QuietInvariant, PTL

\* Where albums are published file by file, the one thing faults alone can leave
\* to a person is a target directory without a manifest (resume_publishing calls
\* it a conflict): no library row refers to it and the source album is complete.
THEOREM OnlyHalfPublishedIsStuck ==
    Spec => [](meddles = 0 => txState # "failed" /\ (txState = "conflict" => HalfPublished))
<1>1. QuietInv => (meddles = 0 => txState # "failed" /\ (txState = "conflict" => HalfPublished))
  BY DEF QuietInv, Undisturbed
<1>. QED BY <1>1, QuietInvariant, PTL

-----------------------------------------------------------------------------
(***************************************************************************)
(* How an attempt ends.  Converges needs fairness and stays with TLC; what *)
(* it rests on is proved here: an attempt cannot go on for ever, it ends   *)
(* where it should, and no attempt undoes an earlier one.                  *)
(***************************************************************************)

\* How far a step is from the end of its attempt; the steps of the staging loop
\* are equally far.
Distance(step) ==
    CASE step = "mkstaging"                      -> 23
      [] step \in {"stage", "copy", "mark"}      -> 22
      [] step \in {"verify", "reverify"}         -> 21
      [] step = "manifest"                       -> 20
      [] step = "savehash"                       -> 19
      [] step = "topublish"                      -> 18
      [] step = "precheck"                       -> 17
      [] step \in {"rename", "mkdir"}            -> 16
      [] step = "pubcopy"                        -> 15
      [] step \in {"marker", "remarker"}         -> 14
      [] step = "rmstaging"                      -> 13
      [] step = "announce"                       -> 12
      [] step = "evidence"                       -> 11
      [] step = "begincommit"                    -> 10
      [] step = "record"                         -> 9
      [] step = "consume"                        -> 8
      [] step = "committed"                      -> 7
      [] step = "dispose"                        -> 6
      [] step \in {"snapshot", "checksources"}   -> 5
      [] step = "archive"                        -> 4
      [] step \in {"resnap", "remove"}           -> 3
      [] step = "archived"                       -> 2
      [] step = "cleanup"                        -> 1
      [] step \in {"fail", "clash", "backout", "recleanup"} -> 1
      [] step = "idle"                           -> 0

\* Nearer to the end: a later step, or fewer images to do, or the next step for
\* the image at hand.  Images are finitely many, so this cannot go on for ever.
NearerEnd ==
    \/ Distance(pc') < Distance(pc)
    \/ /\ Distance(pc') = Distance(pc)
       /\ \/ todo' \subseteq todo /\ todo' # todo
          \/ todo' = todo /\ <<pc, pc'>> \in {<<"stage", "copy">>, <<"copy", "mark">>}

\* Every step of a worker brings its attempt nearer to the end.
LEMMA NearerStep == ASSUME IInv, Work PROVE NearerEnd
<1> USE DEF NearerEnd, Distance
<1>1. CASE Staging
  <2>1. CASE MakeStagingDir
    BY <2>1 DEF MakeStagingDir
  <2>2. CASE FailTransaction \/ StagingDone \/ VerifyStaging \/ VerifyStagingFails
    BY <2>2 DEF FailTransaction, StagingDone, VerifyStaging, VerifyStagingFails, Goto, Stop
  <2>3. ASSUME NEW img \in Images, ReuseStaged(img) \/ SourceUnavailable(img)
        PROVE  NearerEnd
    BY <2>3 DEF ReuseStaged, SourceUnavailable, Stop
  <2>4. ASSUME NEW img \in Images, BeginCopy(img) PROVE NearerEnd
    BY <2>4 DEF BeginCopy
  <2>5. ASSUME NEW img \in Images, CopyFile(img) \/ CopyUnreadable(img) \/ CopyMismatch(img)
        PROVE  NearerEnd
    BY <2>5 DEF CopyFile, CopyUnreadable, CopyMismatch, Goto, Stop
  <2>6. ASSUME NEW img \in Images, MarkVerified(img) PROVE NearerEnd
    <3>1. img \in todo
      BY <2>6 DEF MarkVerified, IInv, JournalInv
    <3> QED
      BY <2>6, <3>1 DEF MarkVerified
  <2> QED
    BY <1>1, <2>1, <2>2, <2>3, <2>4, <2>5, <2>6 DEF Staging
<1>2. CASE Publishing
  <2>1. CASE WriteManifest \/ SaveHash \/ EnterPublishing \/ PublishPrecheck \/ StrongRename
    BY <2>1 DEF WriteManifest, SaveHash, EnterPublishing, PublishPrecheck, StrongRename, Goto, Stop
  <2>2. CASE ConservativeMkdir \/ PublishManifest \/ WriteMarker \/ RemoveStaging \/ Announce
    BY <2>2 DEF ConservativeMkdir, PublishManifest, WriteMarker, RemoveStaging, Announce, Goto, Stop
  <2>3. ASSUME NEW img \in Images, PublishFile(img) PROVE NearerEnd
    BY <2>3 DEF PublishFile, Stop
  <2> QED
    BY <1>2, <2>1, <2>2, <2>3 DEF Publishing
<1>3. CASE Recording
  BY <1>3 DEF Recording, CheckEvidence, BeginDbCommit, InsertRecord, ConsumePlan, BackOut,
      LibraryCommitted, Goto, Stop
<1>4. CASE Disposal
  <2>1. CASE CommitArchive \/ RecoverArchive \/ ArchiveClash \/ VerifySnapshot \/ RenameToArchive
    BY <2>1 DEF CommitArchive, RecoverArchive, ArchiveClash, VerifySnapshot, RenameToArchive, Goto, Stop
  <2>2. CASE VerifyArchive \/ SourceArchived \/ EnterRemoval \/ CheckSources \/ SourcesRemoved
    BY <2>2 DEF VerifyArchive, SourceArchived, EnterRemoval, CheckSources, SourcesRemoved, Goto, Stop
  <2>3. CASE Cleanup \/ Recleanup
    BY <2>3 DEF Cleanup, Recleanup, Stop
  <2>4. ASSUME NEW img \in Images, RemoveSource(img) PROVE NearerEnd
    BY <2>4 DEF RemoveSource, Stop
  <2> QED
    BY <1>4, <2>1, <2>2, <2>3, <2>4 DEF Disposal
<1> QED
  BY <1>1, <1>2, <1>3, <1>4 DEF Work

\* No attempt of commit or recovery goes round in circles: whatever others do to
\* its files, each of its steps brings it nearer to its end.
THEOREM AttemptsEnd == Spec => [][Work => NearerEnd]_vars
<1>1. IInv /\ [Next]_vars => [Work => NearerEnd]_vars
  BY NearerStep
<1> QED
  BY <1>1, InductiveInvariant, PTL DEF Spec

\* What recovery may count on, besides Undisturbed, while nothing outside acts: it
\* finds what was staged, and the target in the order the publish made it.
Prepared ==
    /\ pc \in {"stage", "copy", "mark"} =>
           staging = "album" /\ \A img \in Images \ todo : staged[img] = "good"
    /\ pc \in {"copy", "mark"} => \E img \in Images : cur = {img}
    /\ pc = "mark" => \A img \in cur : staged[img] = "good"
    /\ \/ txState \in {"verifying", "verified"}
       \/ txState = "publishing" /\ targetDir = "absent"
       => staging = "album" /\ AllGood(staged)
    /\ pc = "precheck" => targetDir = "absent"
    /\ pc \in {"marker", "remarker", "rmstaging", "announce"} =>
           targetManifest = "present" /\ AllGood(target)

PreparedInv == meddles = 0 => Prepared

\* The program's own steps, its failures included, keep it that way.
LEMMA PreparedStep ==
    ASSUME IInv, Undisturbed, Prepared, [CommitStart \/ Recover \/ Work \/ Fault]_vars
    PROVE  Prepared'
<1> USE DEF vars, txVars, libVars, stagingVars, targetVars, sourceVars, workVars, boundVars
<1> USE DEF IInv, TypeOK, StepMatchesState, AllGood, Prepared, StagingSteps, PublishSteps, RecordSteps,
    ArchiveSteps, RemovalSteps
<1>1. CASE CommitStart
  BY <1>1 DEF CommitStart
<1>2. CASE Recover
  <2>1. CASE RecoverStaging(txState) \/ RecoverVerify(txState) \/ RecoverRepublish(txState)
    BY <2>1 DEF RecoverStaging, RecoverVerify, RecoverRepublish, SetTx
  <2>2. CASE RecoverPublishedDir(txState)
    BY <2>2 DEF RecoverPublishedDir, SetTx
  <2>3. CASE RecoverRestage(txState)
    BY <2>3 DEF RecoverRestage, SetTx
  <2>4. CASE RecoverDbCommit(txState) \/ RecoverDisposal(txState) \/ RecoverCleanup(txState)
    BY <2>4 DEF RecoverDbCommit, RecoverDisposal, RecoverCleanup
  <2> QED
    BY <1>2, <2>1, <2>2, <2>3, <2>4 DEF Recover, Resume
<1>3. CASE Staging
  <2>1. CASE MakeStagingDir
    BY <2>1 DEF MakeStagingDir
  <2>2. CASE FailTransaction \/ VerifyStagingFails
    BY <2>2 DEF FailTransaction, VerifyStagingFails, Stop, SetTx
  <2>3. CASE StagingDone
    BY <2>3 DEF StagingDone, Goto, SetTx
  <2>4. CASE VerifyStaging
    BY <2>4 DEF VerifyStaging, Goto, Stop, SetTx
  <2>5. ASSUME NEW img \in Images, ReuseStaged(img) PROVE Prepared'
    BY <2>5 DEF ReuseStaged
  <2>6. ASSUME NEW img \in Images, SourceUnavailable(img) PROVE Prepared'
    BY <2>6 DEF SourceUnavailable, Stop, SetTx
  <2>7. ASSUME NEW img \in Images, BeginCopy(img) PROVE Prepared'
    BY <2>7 DEF BeginCopy
  <2>8. ASSUME NEW img \in Images, CopyFile(img) PROVE Prepared'
    <3>1. cur = {img}
      BY <2>8 DEF CopyFile
    <3> QED
      BY <2>8, <3>1 DEF CopyFile, Goto
  <2>9. ASSUME NEW img \in Images, CopyUnreadable(img) \/ CopyMismatch(img) PROVE Prepared'
    BY <2>9 DEF CopyUnreadable, CopyMismatch, Goto, Stop, SetTx
  <2>10. ASSUME NEW img \in Images, MarkVerified(img) PROVE Prepared'
    BY <2>10 DEF MarkVerified
  <2> QED
    BY <1>3, <2>1, <2>2, <2>3, <2>4, <2>5, <2>6, <2>7, <2>8, <2>9, <2>10 DEF Staging
<1>4. CASE Publishing
  <2>1. CASE WriteManifest \/ SaveHash
    BY <2>1 DEF WriteManifest, SaveHash, Goto
  <2>2. CASE EnterPublishing
    <3>1. targetDir = "absent"
      BY <2>2 DEF EnterPublishing, Undisturbed, HalfPublished, TargetInv, BeforePublish, Presence
    <3> QED
      BY <2>2, <3>1 DEF EnterPublishing, Goto, SetTx
  <2>3. CASE PublishPrecheck
    BY <2>3 DEF PublishPrecheck, Goto, Stop
  <2>4. CASE StrongRename
    <3>1. targetDir = "absent" /\ AllGood(staged) /\ stagedManifest = "present"
      BY <2>4 DEF StrongRename, Undisturbed
    <3> QED
      BY <2>4, <3>1 DEF StrongRename, Goto
  <2>5. CASE ConservativeMkdir
    BY <2>5 DEF ConservativeMkdir
  <2>6. CASE PublishManifest
    BY <2>6 DEF PublishManifest, Goto, Stop, TargetInv, Undisturbed
  <2>7. CASE WriteMarker
    BY <2>7 DEF WriteMarker, Goto
  <2>8. CASE RemoveStaging
    BY <2>8 DEF RemoveStaging, Goto, TargetInv
  <2>9. CASE Announce
    BY <2>9 DEF Announce, Goto, Stop, SetTx
  <2>10. ASSUME NEW img \in Images, PublishFile(img) PROVE Prepared'
    BY <2>10 DEF PublishFile, Stop
  <2> QED
    BY <1>4, <2>1, <2>2, <2>3, <2>4, <2>5, <2>6, <2>7, <2>8, <2>9, <2>10 DEF Publishing
<1>5. CASE Recording
  BY <1>5 DEF Recording, CheckEvidence, BeginDbCommit, InsertRecord, ConsumePlan, BackOut,
      LibraryCommitted, Goto, Stop, SetTx
<1>6. CASE Disposal
  <2>1. CASE CommitArchive \/ RecoverArchive \/ ArchiveClash \/ VerifySnapshot \/ RenameToArchive
             \/ VerifyArchive \/ SourceArchived
    BY <2>1 DEF CommitArchive, RecoverArchive, ArchiveClash, VerifySnapshot, RenameToArchive,
        VerifyArchive, SourceArchived, Goto, Stop, SetTx
  <2>2. CASE EnterRemoval \/ CheckSources \/ SourcesRemoved
    BY <2>2 DEF EnterRemoval, CheckSources, SourcesRemoved, Goto, Stop, SetTx
  <2>3. CASE Cleanup \/ Recleanup
    BY <2>3 DEF Cleanup, Recleanup, Stop, SetTx, Terminal
  <2>4. ASSUME NEW img \in Images, RemoveSource(img) PROVE Prepared'
    BY <2>4 DEF RemoveSource, Stop, SetTx
  <2> QED
    BY <1>6, <2>1, <2>2, <2>3, <2>4 DEF Disposal
<1>7. CASE Fault
  BY <1>7 DEF Fault, DbCommitFails, CleanupFails, Interrupt, Goto, Stop, SetTx
<1>8. CASE UNCHANGED vars
  BY <1>8
<1> QED
  BY <1>1, <1>2, <1>3, <1>4, <1>5, <1>6, <1>7, <1>8 DEF Work

LEMMA PreparedInvariant == Spec => []PreparedInv
<1>1. Init => PreparedInv
  BY DEF Init, PreparedInv, Prepared
<1>2. ASSUME IInv, QuietInv, PreparedInv, [Next]_vars PROVE PreparedInv'
  <2>1. CASE Outside
    <3>1. meddles' = meddles + 1
      BY <2>1 DEF Outside, MoveSourceAlbum, ForeignTarget, LoseStaging, LoseTarget, ChangeSource, LoseStaged,
          DamageTarget, Meddle
    <3>2. meddles \in Nat
      BY <1>2, ConstantsAssumption DEF IInv, TypeOK
    <3> QED
      BY <3>1, <3>2 DEF PreparedInv
  <2>2. CASE [CommitStart \/ Recover \/ Work \/ Fault]_vars
    <3>1. UNCHANGED meddles
      BY <2>2, NotCounted
    <3>2. meddles = 0 => Prepared'
      BY <1>2, <2>2, PreparedStep DEF QuietInv, PreparedInv
    <3> QED
      BY <3>1, <3>2 DEF PreparedInv
  <2> QED
    BY <1>2, <2>1, <2>2 DEF Next
<1> QED
  BY <1>1, <1>2, InductiveInvariant, QuietInvariant, PTL DEF Spec

\* Where an attempt that is not interrupted may end: resume_staging at verified,
\* everything else in the state that ends the transaction.
Arrived ==
    \/ worker = "recover" /\ txState = "verifying" /\ txState' = "verified"
    \/ txState' = Terminal

\* While nothing outside acts, every check on the way succeeds.  (The commit also
\* stops after a failed statement, when it has set the state back to published.)
LEMMA ArrivedStep ==
    ASSUME IInv, Undisturbed, Prepared, Work, pc' = "idle", pc # "backout"
    PROVE  Arrived
<1> USE DEF IInv, TypeOK, StepMatchesState, AllGood, StagingSteps, PublishSteps, RecordSteps, ArchiveSteps,
    RemovalSteps
<1>1. CASE Staging
  <2>1. txState = "staging" => sourceDir = "present" /\ \A img \in Images : source[img] = "good"
    BY DEF RecordInv, NoRestageAfterRecord, Undisturbed, Presence
  <2>2. CASE MakeStagingDir \/ FailTransaction \/ StagingDone
    BY <2>2 DEF MakeStagingDir, FailTransaction, StagingDone, Goto, Undisturbed
  <2>3. CASE VerifyStaging
    BY <2>3 DEF VerifyStaging, Goto, SetTx, ModeOfStep, Arrived
  <2>4. CASE VerifyStagingFails
    BY <2>4 DEF VerifyStagingFails, Prepared
  <2>5. ASSUME NEW img \in Images, SourceUnavailable(img) \/ CopyUnreadable(img) \/ CopyMismatch(img)
        PROVE  FALSE
    BY <2>1, <2>5 DEF SourceUnavailable, CopyUnreadable, CopyMismatch, Readable
  <2>6. ASSUME NEW img \in Images, ReuseStaged(img) \/ BeginCopy(img) \/ CopyFile(img) \/ MarkVerified(img)
        PROVE  FALSE
    BY <2>6 DEF ReuseStaged, BeginCopy, CopyFile, MarkVerified, Goto
  <2> QED
    BY <1>1, <2>2, <2>3, <2>4, <2>5, <2>6 DEF Staging
<1>2. CASE Publishing
  <2>1. CASE WriteManifest \/ SaveHash \/ EnterPublishing \/ ConservativeMkdir \/ WriteMarker \/ RemoveStaging
    BY <2>1 DEF WriteManifest, SaveHash, EnterPublishing, ConservativeMkdir, WriteMarker, RemoveStaging, Goto
  <2>2. CASE PublishPrecheck \/ StrongRename
    BY <2>2 DEF PublishPrecheck, StrongRename, Goto, Prepared, Undisturbed
  <2>3. CASE PublishManifest
    BY <2>3 DEF PublishManifest, Goto, Undisturbed
  <2>4. CASE Announce
    BY <2>4 DEF Announce, Goto, Prepared
  <2>5. ASSUME NEW img \in Images, PublishFile(img) PROVE FALSE
    BY <2>5 DEF PublishFile, Undisturbed
  <2> QED
    BY <1>2, <2>1, <2>2, <2>3, <2>4, <2>5 DEF Publishing
<1>3. CASE Recording
  <2>1. CASE CheckEvidence
    <3>1. txState \in {"published", "db_committing"}
      BY <2>1 DEF CheckEvidence
    <3>2. PublishedEvidence
      BY <3>1 DEF PublishedEvidence, Undisturbed, HalfPublished
    <3> QED
      BY <2>1, <3>2 DEF CheckEvidence, Goto
  <2>2. CASE BeginDbCommit \/ InsertRecord \/ ConsumePlan \/ BackOut \/ LibraryCommitted
    BY <2>2 DEF BeginDbCommit, InsertRecord, ConsumePlan, BackOut, LibraryCommitted, Goto
  <2> QED
    BY <1>3, <2>1, <2>2 DEF Recording
<1>4. CASE Disposal
  <2>1. CASE CommitArchive
    <3>1. sourceDir = "present"
      BY <2>1 DEF CommitArchive, SourceInv, Undisturbed, Presence
    <3> QED
      BY <2>1, <3>1 DEF CommitArchive, Goto
  <2>2. CASE RecoverArchive
    <3>1. targetDir = "present"
      BY <2>2 DEF RecoverArchive, Undisturbed, AfterRecord
    <3> QED
      BY <2>2, <3>1 DEF RecoverArchive, Goto
  <2>3. CASE VerifySnapshot \/ RenameToArchive
    <3>1. archiveDir = "absent" /\ Mode = "copy"
      BY <2>3 DEF VerifySnapshot, RenameToArchive, SourceInv, ModeOfStep
    <3>2. sourceDir = "present" /\ \A img \in Images : source[img] = "good"
      BY <3>1 DEF Undisturbed, SourceInv
    <3> QED
      BY <2>3, <3>2 DEF VerifySnapshot, RenameToArchive, Goto
  <2>4. CASE ArchiveClash \/ VerifyArchive
    BY <2>4 DEF ArchiveClash, VerifyArchive, Goto, Undisturbed, SourceInv
  <2>5. CASE SourceArchived
    BY <2>5 DEF SourceArchived, SetTx, Arrived, Terminal, ModeOfStep
  <2>6. CASE EnterRemoval
    <3>1. CommittedEvidence
      BY <2>6 DEF EnterRemoval, CommittedEvidence, CompleteAlbum, Undisturbed, HalfPublished, RecordInv, AfterRecord
    <3> QED
      BY <2>6, <3>1 DEF EnterRemoval, Goto
  <2>7. pc \in {"checksources", "remove"} =>
            sourceDir = "present" /\ \A img \in Images : source[img] \in {"good", "removed"}
    BY DEF ModeOfStep, SourceInv, Undisturbed
  <2>8. CASE CheckSources
    BY <2>7, <2>8 DEF CheckSources
  <2>9. ASSUME NEW img \in Images, RemoveSource(img) PROVE FALSE
    BY <2>7, <2>9 DEF RemoveSource
  <2>10. CASE SourcesRemoved
    BY <2>10 DEF SourcesRemoved, Goto
  <2>11. CASE Cleanup
    BY <2>11 DEF Cleanup, txVars, Arrived
  <2>12. CASE Recleanup
    BY <2>12 DEF Recleanup, SetTx, Arrived
  <2> QED
    BY <1>4, <2>1, <2>2, <2>3, <2>4, <2>5, <2>6, <2>8, <2>9, <2>10, <2>11, <2>12 DEF Disposal
<1> QED
  BY <1>1, <1>2, <1>3, <1>4 DEF Work

\* An attempt of commit or recovery that nothing interrupts or disturbs gets where
\* it should, whatever earlier attempts were interrupted, and wherever.
THEOREM AttemptsArrive ==
    Spec => [][meddles = 0 /\ Work /\ pc' = "idle" /\ pc # "backout" => Arrived]_vars
<1>1. IInv /\ QuietInv /\ PreparedInv /\ [Next]_vars =>
          [meddles = 0 /\ Work /\ pc' = "idle" /\ pc # "backout" => Arrived]_vars
  BY ArrivedStep DEF QuietInv, PreparedInv
<1> QED
  BY <1>1, InductiveInvariant, QuietInvariant, PreparedInvariant, PTL DEF Spec

\* How far an import has come, by its persisted state.
Progress(state) ==
    CASE state = "none"                                           -> 0
      [] state = "staging"                                        -> 1
      [] state \in {"verifying", "verified"}                      -> 2
      [] state = "publishing"                                     -> 3
      [] state \in {"published", "db_committing"}                 -> 4
      [] state = "library_committed"                              -> 5
      [] state \in {"source_archiving", "source_files_removing"}  -> 6
      [] state \in {"source_archived", "source_files_removed", "cleanup_required"} -> 7
      [] state \in {"conflict", "failed"}                         -> 8

\* The one step back is to stage again an album that is neither staged nor
\* published any more, and that takes somebody else.
LEMMA ProgressStep ==
    ASSUME IInv, Prepared, [CommitStart \/ Recover \/ Work \/ Fault]_vars
    PROVE  Progress(txState) <= Progress(txState')
<1> USE DEF vars, txVars, IInv, TypeOK, TxStates, StepMatchesState, StagingSteps, PublishSteps, RecordSteps,
    ArchiveSteps, RemovalSteps, Progress
<1>1. CASE UNCHANGED txState
  BY <1>1
<1>2. CASE CommitStart
  BY <1>2 DEF CommitStart
<1>3. CASE Recover
  <2>1. CASE RecoverRestage(txState)
    BY <2>1 DEF RecoverRestage, Prepared
  <2>2. CASE RecoverStaging(txState) \/ RecoverPublishedDir(txState)
    BY <2>2 DEF RecoverStaging, RecoverPublishedDir, SetTx
  <2>3. CASE RecoverVerify(txState) \/ RecoverRepublish(txState) \/ RecoverDbCommit(txState)
             \/ RecoverDisposal(txState) \/ RecoverCleanup(txState)
    BY <1>1, <2>3 DEF RecoverVerify, RecoverRepublish, RecoverDbCommit, RecoverDisposal, RecoverCleanup
  <2> QED
    BY <1>3, <2>1, <2>2, <2>3 DEF Recover, Resume
<1>4. CASE Staging
  <2>1. CASE FailTransaction \/ StagingDone \/ VerifyStaging
    BY <2>1 DEF FailTransaction, StagingDone, VerifyStaging, SetTx
  <2>2. ASSUME NEW img \in Images, SourceUnavailable(img) \/ CopyMismatch(img)
        PROVE  Progress(txState) <= Progress(txState')
    BY <2>2 DEF SourceUnavailable, CopyMismatch, SetTx
  <2>3. CASE MakeStagingDir \/ VerifyStagingFails \/ \E img \in Images : ReuseStaged(img) \/ BeginCopy(img)
             \/ CopyFile(img) \/ CopyUnreadable(img) \/ MarkVerified(img)
    BY <1>1, <2>3 DEF MakeStagingDir, VerifyStagingFails, ReuseStaged, BeginCopy, CopyFile, CopyUnreadable,
        MarkVerified
  <2> QED
    BY <1>4, <2>1, <2>2, <2>3 DEF Staging
<1>5. CASE Publishing
  <2>1. CASE EnterPublishing \/ Announce
    BY <2>1 DEF EnterPublishing, Announce, SetTx
  <2>2. CASE WriteManifest \/ SaveHash \/ PublishPrecheck \/ StrongRename \/ ConservativeMkdir
             \/ PublishManifest \/ WriteMarker \/ RemoveStaging \/ \E img \in Images : PublishFile(img)
    BY <1>1, <2>2 DEF WriteManifest, SaveHash, PublishPrecheck, StrongRename, ConservativeMkdir,
        PublishManifest, WriteMarker, RemoveStaging, PublishFile
  <2> QED
    BY <1>5, <2>1, <2>2 DEF Publishing
<1>6. CASE Recording
  BY <1>6 DEF Recording, CheckEvidence, BeginDbCommit, InsertRecord, ConsumePlan, BackOut,
      LibraryCommitted, SetTx
<1>7. CASE Disposal
  <2>1. CASE CommitArchive \/ RecoverArchive \/ ArchiveClash \/ VerifySnapshot \/ VerifyArchive
             \/ SourceArchived \/ RenameToArchive
    BY <2>1 DEF CommitArchive, RecoverArchive, ArchiveClash, VerifySnapshot, VerifyArchive,
        SourceArchived, RenameToArchive, SetTx
  <2>2. CASE EnterRemoval \/ CheckSources \/ SourcesRemoved \/ Cleanup \/ Recleanup
    BY <2>2 DEF EnterRemoval, CheckSources, SourcesRemoved, Cleanup, Recleanup, SetTx, Terminal
  <2>3. ASSUME NEW img \in Images, RemoveSource(img)
        PROVE  Progress(txState) <= Progress(txState')
    BY <2>3 DEF RemoveSource, SetTx
  <2> QED
    BY <1>7, <2>1, <2>2, <2>3 DEF Disposal
<1>8. CASE Fault
  BY <1>8 DEF Fault, DbCommitFails, CleanupFails, Interrupt, SetTx, Terminal
<1> QED
  BY <1>1, <1>2, <1>3, <1>4, <1>5, <1>6, <1>7, <1>8 DEF Work

\* As long as nothing outside acts, no retry, failure or crash takes a transaction
\* back to an earlier phase than the one it has reached.
THEOREM NeverGoesBack ==
    Spec => [][meddles = 0 => Progress(txState) <= Progress(txState')]_vars
<1>1. ASSUME IInv, PreparedInv, [Next]_vars, meddles = 0
      PROVE  Progress(txState) <= Progress(txState')
  <2>1. CASE Outside
    <3>1. UNCHANGED txState
      BY <2>1 DEF Outside, MoveSourceAlbum, ForeignTarget, LoseStaging, LoseTarget, ChangeSource, LoseStaged,
          DamageTarget, txVars
    <3>2. txState \in TxStates
      BY <1>1 DEF IInv, TypeOK
    <3> QED
      BY <3>1, <3>2 DEF Progress, TxStates
  <2>2. CASE [CommitStart \/ Recover \/ Work \/ Fault]_vars
    BY <1>1, <2>2, ProgressStep DEF PreparedInv
  <2> QED
    BY <1>1, <2>1, <2>2 DEF Next
<1>2. IInv /\ PreparedInv /\ [Next]_vars => [meddles = 0 => Progress(txState) <= Progress(txState')]_vars
  BY <1>1
<1> QED
  BY <1>2, InductiveInvariant, PreparedInvariant, PTL DEF Spec

-----------------------------------------------------------------------------
(***************************************************************************)
(* The action properties.                                                  *)
(***************************************************************************)

\* The library rows appear in one step, and that step finds the album complete.
LEMMA RecordOnlyStep == IInv /\ [Next]_vars => (record' = "present" /\ record = "absent" =>
    CompleteAlbum)
<1> SUFFICES ASSUME IInv, [Next]_vars PROVE (record' = "present" /\ record = "absent" =>
    CompleteAlbum)
  OBVIOUS
<1> USE DEF vars, txVars, libVars, stagingVars, targetVars, sourceVars, workVars, boundVars
<1> USE DEF IInv, RecordInv, RecordSteps
<1>1. CASE CommitStart
  BY <1>1 DEF CommitStart
<1>2. CASE Recover
  BY <1>2 DEF Recover, Resume, RecoverStaging, RecoverVerify, RecoverRepublish,
      RecoverPublishedDir, RecoverRestage, RecoverDbCommit, RecoverDisposal, RecoverCleanup, SetTx
<1>3. CASE Staging
  BY <1>3 DEF Staging, MakeStagingDir, FailTransaction, StagingDone, VerifyStaging,
      VerifyStagingFails, ReuseStaged, SourceUnavailable, BeginCopy, CopyFile, CopyUnreadable,
      CopyMismatch, MarkVerified, Goto, Stop, SetTx
<1>4. CASE Publishing
  BY <1>4 DEF Publishing, WriteManifest, SaveHash, EnterPublishing, PublishPrecheck,
      StrongRename, ConservativeMkdir, PublishManifest, WriteMarker, RemoveStaging, Announce,
      PublishFile, Goto, Stop, SetTx
<1>5. CASE Recording
  <2>1. CASE InsertRecord
    BY <2>1 DEF InsertRecord, Goto
  <2>2. CASE CheckEvidence \/ BeginDbCommit \/ ConsumePlan \/ BackOut \/ LibraryCommitted
    BY <2>2 DEF CheckEvidence, BeginDbCommit, ConsumePlan, BackOut, LibraryCommitted, Goto, Stop,
        SetTx, PublishedEvidence
  <2>. QED BY <1>5, <2>1, <2>2 DEF Recording
<1>6. CASE Disposal
  BY <1>6 DEF Disposal, CommitArchive, RecoverArchive, ArchiveClash, VerifySnapshot,
      RenameToArchive, VerifyArchive, SourceArchived, EnterRemoval, CheckSources, SourcesRemoved,
      Cleanup, Recleanup, RemoveSource, Goto, Stop, SetTx
<1>7. CASE Fault
  BY <1>7 DEF Fault, DbCommitFails, CleanupFails, Interrupt, Goto, Stop, SetTx
<1>8. CASE Outside
  BY <1>8 DEF Outside, MoveSourceAlbum, ForeignTarget, LoseStaging, LoseTarget, ChangeSource,
      LoseStaged, DamageTarget, Meddle
<1>9. CASE UNCHANGED vars
  BY <1>9
<1>. QED BY <1>1, <1>2, <1>3, <1>4, <1>5, <1>6, <1>7, <1>8, <1>9 DEF Next, Work

\* Library rows are inserted only for an album that is published complete and
\* sealed, on the commit path and on every recovery path.
THEOREM RecordOnlyCompleteAlbumHolds == Spec => RecordOnlyCompleteAlbum
<1>1. IInv /\ [Next]_vars => [record' = "present" /\ record = "absent" => CompleteAlbum]_vars
  BY RecordOnlyStep
<1>. QED BY <1>1, InductiveInvariant, PTL DEF Spec, RecordOnlyCompleteAlbum

\* What one step may do to the source album and its archive.
DisposalStepOK ==
    /\ archiveDir' = "present" /\ archiveDir = "absent" => record = "present"
    /\ \A img \in Images :
           source'[img] = "removed" /\ source[img] # "removed" => record = "present" /\ CompleteAlbum

\* Both ways of disposing of the source come after the record.
LEMMA DisposalStep == IInv /\ [Next]_vars => DisposalStepOK
<1> SUFFICES ASSUME IInv, [Next]_vars PROVE DisposalStepOK
  OBVIOUS
<1> USE DEF vars, txVars, libVars, stagingVars, targetVars, sourceVars, workVars, boundVars
<1> USE DEF IInv, TypeOK, StepMatchesState, RecordInv, SourceInv, ArchiveSteps, RemovalSteps,
    RecordSteps, AfterRecord, DisposalStepOK
<1>1. CASE CommitStart
  BY <1>1 DEF CommitStart
<1>2. CASE Recover
  BY <1>2 DEF Recover, Resume, RecoverStaging, RecoverVerify, RecoverRepublish,
      RecoverPublishedDir, RecoverRestage, RecoverDbCommit, RecoverDisposal, RecoverCleanup, SetTx
<1>3. CASE Staging
  BY <1>3 DEF Staging, MakeStagingDir, FailTransaction, StagingDone, VerifyStaging,
      VerifyStagingFails, ReuseStaged, SourceUnavailable, BeginCopy, CopyFile, CopyUnreadable,
      CopyMismatch, MarkVerified, Goto, Stop, SetTx
<1>4. CASE Publishing
  BY <1>4 DEF Publishing, WriteManifest, SaveHash, EnterPublishing, PublishPrecheck,
      StrongRename, ConservativeMkdir, PublishManifest, WriteMarker, RemoveStaging, Announce,
      PublishFile, Goto, Stop, SetTx
<1>5. CASE Recording
  BY <1>5 DEF Recording, CheckEvidence, BeginDbCommit, InsertRecord, ConsumePlan, BackOut,
      LibraryCommitted, Goto, Stop, SetTx
<1>6. CASE Disposal
  <2>1. CASE RenameToArchive
    BY <2>1 DEF RenameToArchive, Goto, Stop, NoFile
  <2>2. ASSUME NEW img \in Images, RemoveSource(img) PROVE DisposalStepOK
    BY <2>2 DEF RemoveSource, Stop, SetTx
  <2>3. CASE CommitArchive \/ RecoverArchive \/ ArchiveClash \/ VerifySnapshot \/ VerifyArchive
      \/ SourceArchived \/ EnterRemoval \/ CheckSources \/ SourcesRemoved \/ Cleanup \/ Recleanup
    BY <2>3 DEF CommitArchive, RecoverArchive, ArchiveClash, VerifySnapshot, VerifyArchive,
        SourceArchived, EnterRemoval, CheckSources, SourcesRemoved, Cleanup, Recleanup, Goto,
        Stop, SetTx, Terminal, CommittedEvidence
  <2>. QED BY <1>6, <2>1, <2>2, <2>3 DEF Disposal
<1>7. CASE Fault
  BY <1>7 DEF Fault, DbCommitFails, CleanupFails, Interrupt, Goto, Stop, SetTx
<1>8. CASE Outside
  <2>1. CASE MoveSourceAlbum
    BY <2>1 DEF MoveSourceAlbum, Meddle
  <2>2. ASSUME NEW img \in Images, ChangeSource(img) PROVE DisposalStepOK
    BY <2>2 DEF ChangeSource, Meddle, Content
  <2>3. CASE ForeignTarget \/ LoseStaging \/ LoseTarget \/ (\E img \in Images : LoseStaged(img)
      \/ DamageTarget(img))
    BY <2>3 DEF ForeignTarget, LoseStaging, LoseTarget, LoseStaged, DamageTarget, Meddle
  <2>. QED BY <1>8, <2>1, <2>2, <2>3 DEF Outside
<1>9. CASE UNCHANGED vars
  BY <1>9
<1>. QED BY <1>1, <1>2, <1>3, <1>4, <1>5, <1>6, <1>7, <1>8, <1>9 DEF Next, Work

\* The source album is archived, and a source file removed, only after the library
\* rows are committed; a file is removed only while the album is complete.
THEOREM DisposalOnlyAfterRecordHolds == Spec => DisposalOnlyAfterRecord
<1>1. IInv /\ [Next]_vars => [DisposalStepOK]_vars
  BY DisposalStep
<1>. QED BY <1>1, InductiveInvariant, PTL DEF Spec, DisposalOnlyAfterRecord, DisposalStepOK

\* What one step may do to a transaction that has ended.
TerminalStepOK ==
    /\ txState = Terminal => txState' \in {Terminal, "cleanup_required"}
    /\ txState = "cleanup_required" => txState' \in {Terminal, "cleanup_required"}
    /\ txState = "failed" => txState' = "failed"

\* Every step keeps a transaction that has ended at its end.
LEMMA TerminalStep == IInv /\ [Next]_vars => TerminalStepOK
<1> SUFFICES ASSUME IInv, [Next]_vars PROVE TerminalStepOK
  OBVIOUS
<1> USE DEF vars, txVars, libVars, stagingVars, targetVars, sourceVars, workVars, boundVars
<1> USE DEF IInv, TypeOK, StepMatchesState, ModeOfStep, TerminalStepOK, Terminal, StagingSteps,
    PublishSteps, RecordSteps, ArchiveSteps, RemovalSteps
<1>1. CASE CommitStart
  BY <1>1 DEF CommitStart
<1>2. CASE Recover
  <2>1. CASE RecoverStaging(txState)
    BY <2>1 DEF RecoverStaging, SetTx
  <2>2. CASE RecoverPublishedDir(txState)
    BY <2>2 DEF RecoverPublishedDir, SetTx
  <2>3. CASE RecoverRestage(txState)
    BY <2>3 DEF RecoverRestage, SetTx
  <2>4. CASE RecoverVerify(txState) \/ RecoverRepublish(txState) \/ RecoverDbCommit(txState) \/
      RecoverDisposal(txState) \/ RecoverCleanup(txState)
    BY <2>4 DEF RecoverVerify, RecoverRepublish, RecoverDbCommit, RecoverDisposal, RecoverCleanup
  <2>. QED BY <1>2, <2>1, <2>2, <2>3, <2>4 DEF Recover, Resume
<1>3. CASE Staging
  <2>1. CASE FailTransaction
    BY <2>1 DEF FailTransaction, Stop, SetTx
  <2>2. CASE StagingDone
    BY <2>2 DEF StagingDone, Goto, SetTx
  <2>3. CASE VerifyStaging
    BY <2>3 DEF VerifyStaging, Goto, Stop, SetTx
  <2>4. ASSUME NEW img \in Images, SourceUnavailable(img) PROVE TerminalStepOK
    BY <2>4 DEF SourceUnavailable, Stop, SetTx, Readable
  <2>5. ASSUME NEW img \in Images, CopyMismatch(img) PROVE TerminalStepOK
    BY <2>5 DEF CopyMismatch, Goto, Stop, SetTx, Readable
  <2>6. CASE MakeStagingDir \/ VerifyStagingFails \/ (\E img \in Images : ReuseStaged(img) \/
      BeginCopy(img) \/ CopyFile(img) \/ CopyUnreadable(img) \/ MarkVerified(img))
    BY <2>6 DEF MakeStagingDir, VerifyStagingFails, ReuseStaged, BeginCopy, CopyFile,
        CopyUnreadable, MarkVerified, Goto, Stop, Readable
  <2>. QED BY <1>3, <2>1, <2>2, <2>3, <2>4, <2>5, <2>6 DEF Staging
<1>4. CASE Publishing
  <2>1. CASE EnterPublishing
    BY <2>1 DEF EnterPublishing, Goto, SetTx
  <2>2. CASE Announce
    BY <2>2 DEF Announce, Goto, Stop, SetTx
  <2>3. CASE WriteManifest \/ SaveHash \/ PublishPrecheck \/ StrongRename \/ ConservativeMkdir \/
      PublishManifest \/ WriteMarker \/ RemoveStaging \/ (\E img \in Images : PublishFile(img))
    BY <2>3 DEF WriteManifest, SaveHash, PublishPrecheck, StrongRename, ConservativeMkdir,
        PublishManifest, WriteMarker, RemoveStaging, PublishFile, Goto, Stop
  <2>. QED BY <1>4, <2>1, <2>2, <2>3 DEF Publishing
<1>5. CASE Recording
  <2>1. CASE CheckEvidence
    BY <2>1 DEF CheckEvidence, Goto, Stop, SetTx, PublishedEvidence
  <2>2. CASE BeginDbCommit
    BY <2>2 DEF BeginDbCommit, Goto, SetTx
  <2>3. CASE BackOut
    BY <2>3 DEF BackOut, Stop, SetTx
  <2>4. CASE LibraryCommitted
    BY <2>4 DEF LibraryCommitted, Goto, SetTx
  <2>5. CASE InsertRecord \/ ConsumePlan
    BY <2>5 DEF InsertRecord, ConsumePlan, Goto
  <2>. QED BY <1>5, <2>1, <2>2, <2>3, <2>4, <2>5 DEF Recording
<1>6. CASE Disposal
  <2>1. CASE CommitArchive
    BY <2>1 DEF CommitArchive, Goto, Stop, SetTx
  <2>2. CASE RecoverArchive
    BY <2>2 DEF RecoverArchive, Goto, Stop, SetTx
  <2>3. CASE ArchiveClash
    BY <2>3 DEF ArchiveClash, Stop, SetTx
  <2>4. CASE VerifySnapshot
    BY <2>4 DEF VerifySnapshot, Goto, Stop, SetTx
  <2>5. CASE VerifyArchive
    BY <2>5 DEF VerifyArchive, Goto, Stop, SetTx
  <2>6. CASE SourceArchived
    BY <2>6 DEF SourceArchived, Goto, Stop, SetTx
  <2>7. CASE EnterRemoval
    BY <2>7 DEF EnterRemoval, Goto, Stop, SetTx, CommittedEvidence
  <2>8. CASE CheckSources
    BY <2>8 DEF CheckSources, Stop, SetTx
  <2>9. CASE SourcesRemoved
    BY <2>9 DEF SourcesRemoved, Goto, SetTx
  <2>10. CASE Recleanup
    BY <2>10 DEF Recleanup, Stop, SetTx, Terminal
  <2>11. ASSUME NEW img \in Images, RemoveSource(img) PROVE TerminalStepOK
    BY <2>11 DEF RemoveSource, Stop, SetTx
  <2>12. CASE RenameToArchive \/ Cleanup
    BY <2>12 DEF RenameToArchive, Cleanup, Goto, Stop
  <2>. QED BY <1>6, <2>1, <2>2, <2>3, <2>4, <2>5, <2>6, <2>7, <2>8, <2>9, <2>10, <2>11, <2>12 DEF
      Disposal
<1>7. CASE Fault
  <2>1. CASE CleanupFails
    BY <2>1 DEF CleanupFails, Stop, SetTx
  <2>2. CASE DbCommitFails \/ Interrupt
    BY <2>2 DEF DbCommitFails, Interrupt, Goto, Stop
  <2>. QED BY <1>7, <2>1, <2>2 DEF Fault
<1>8. CASE Outside
  BY <1>8 DEF Outside, MoveSourceAlbum, ForeignTarget, LoseStaging, LoseTarget, ChangeSource,
      LoseStaged, DamageTarget, Meddle
<1>9. CASE UNCHANGED vars
  BY <1>9
<1>. QED BY <1>1, <1>2, <1>3, <1>4, <1>5, <1>6, <1>7, <1>8, <1>9 DEF Next, Work

\* A finished or failed transaction is not disturbed by any later commit, recovery
\* or interruption of them.
THEOREM TerminalStaysHolds == Spec => TerminalStays
<1>1. IInv /\ [Next]_vars => [TerminalStepOK]_vars
  BY TerminalStep
<1>. QED BY <1>1, InductiveInvariant, PTL DEF Spec, TerminalStays, TerminalStepOK

\* What one step may do to the last good copy of an image.
LastCopyOK == meddles' = meddles => \A img \in Images : HasCopy(img) => HasCopy(img)'

\* A step that is not the outside world's leaves every image a good copy it had.
LEMMA LastCopyStep == IInv /\ [Next]_vars => LastCopyOK
<1> SUFFICES ASSUME IInv, [Next]_vars PROVE LastCopyOK
  OBVIOUS
<1> USE DEF vars, txVars, libVars, stagingVars, targetVars, sourceVars, workVars, boundVars
<1> USE DEF IInv, TypeOK, Presence, StepMatchesState, RecordInv, SourceInv, TargetInv, AllGood,
    CompleteAlbum, LastCopyOK, HasCopy, StagingSteps, PublishSteps, RecordSteps, ArchiveSteps,
    RemovalSteps
<1>1. CASE CommitStart
  BY <1>1 DEF CommitStart
<1>2. CASE Recover
  BY <1>2 DEF Recover, Resume, RecoverStaging, RecoverVerify, RecoverRepublish,
      RecoverPublishedDir, RecoverRestage, RecoverDbCommit, RecoverDisposal, RecoverCleanup, SetTx
<1>3. CASE Staging
  BY <1>3 DEF Staging, MakeStagingDir, FailTransaction, StagingDone, VerifyStaging,
      VerifyStagingFails, ReuseStaged, SourceUnavailable, BeginCopy, CopyFile, CopyUnreadable,
      CopyMismatch, MarkVerified, Goto, Stop, SetTx
<1>4. CASE Publishing
  <2>1. CASE StrongRename
    BY <2>1 DEF StrongRename, Goto, Stop
  <2>2. CASE ConservativeMkdir
    BY <2>2 DEF ConservativeMkdir
  <2>3. ASSUME NEW img \in Images, PublishFile(img) PROVE LastCopyOK
    BY <2>3 DEF PublishFile, Stop
  <2>4. CASE WriteManifest \/ SaveHash \/ EnterPublishing \/ PublishPrecheck \/ PublishManifest
      \/ WriteMarker \/ RemoveStaging \/ Announce
    BY <2>4 DEF WriteManifest, SaveHash, EnterPublishing, PublishPrecheck, PublishManifest,
        WriteMarker, RemoveStaging, Announce, Goto, Stop, SetTx
  <2>. QED BY <1>4, <2>1, <2>2, <2>3, <2>4 DEF Publishing
<1>5. CASE Recording
  BY <1>5 DEF Recording, CheckEvidence, BeginDbCommit, InsertRecord, ConsumePlan, BackOut,
      LibraryCommitted, Goto, Stop, SetTx
<1>6. CASE Disposal
  <2>1. CASE RenameToArchive
    BY <2>1 DEF RenameToArchive, Goto, Stop
  <2>2. ASSUME NEW img \in Images, RemoveSource(img) PROVE LastCopyOK
    BY <2>2 DEF RemoveSource, Stop, SetTx
  <2>3. CASE CommitArchive \/ RecoverArchive \/ ArchiveClash \/ VerifySnapshot \/ VerifyArchive
      \/ SourceArchived \/ EnterRemoval \/ CheckSources \/ SourcesRemoved \/ Cleanup \/ Recleanup
    BY <2>3 DEF CommitArchive, RecoverArchive, ArchiveClash, VerifySnapshot, VerifyArchive,
        SourceArchived, EnterRemoval, CheckSources, SourcesRemoved, Cleanup, Recleanup, Goto,
        Stop, SetTx, Terminal, CommittedEvidence
  <2>. QED BY <1>6, <2>1, <2>2, <2>3 DEF Disposal
<1>7. CASE Fault
  BY <1>7 DEF Fault, DbCommitFails, CleanupFails, Interrupt, Goto, Stop, SetTx
<1>8. CASE Outside
  <2>1. CASE MoveSourceAlbum
    BY ConstantsAssumption, <2>1 DEF MoveSourceAlbum, Meddle
  <2>2. CASE ForeignTarget
    BY ConstantsAssumption, <2>2 DEF ForeignTarget, Meddle
  <2>3. CASE LoseTarget
    BY ConstantsAssumption, <2>3 DEF LoseTarget, Meddle
  <2>4. ASSUME NEW img \in Images, ChangeSource(img) PROVE LastCopyOK
    BY ConstantsAssumption, <2>4 DEF ChangeSource, Meddle
  <2>5. ASSUME NEW img \in Images, DamageTarget(img) PROVE LastCopyOK
    BY ConstantsAssumption, <2>5 DEF DamageTarget, Meddle
  <2>6. CASE LoseStaging \/ (\E img \in Images : LoseStaged(img))
    BY <2>6 DEF LoseStaging, LoseStaged, Meddle
  <2>. QED BY <1>8, <2>1, <2>2, <2>3, <2>4, <2>5, <2>6 DEF Outside
<1>9. CASE UNCHANGED vars
  BY <1>9
<1>. QED BY <1>1, <1>2, <1>3, <1>4, <1>5, <1>6, <1>7, <1>8, <1>9 DEF Next, Work

\* The program itself never destroys the last good copy of an image: not in the
\* archive rename, not in the removal of source files, not in any recovery.
THEOREM LastCopyNeverDestroyedHolds == Spec => LastCopyNeverDestroyed
<1>1. IInv /\ [Next]_vars => [LastCopyOK]_vars
  BY LastCopyStep
<1>. QED BY <1>1, InductiveInvariant, PTL DEF Spec, LastCopyNeverDestroyed, LastCopyOK

-----------------------------------------------------------------------------
(***************************************************************************)
(* FileTransaction implements AlbumImport.                                 *)
(***************************************************************************)

\* Every step is a step of the abstract import or a stutter.
LEMMA ImportStep == IInv /\ [Next]_vars => [Import!ImportNext]_(Import!importVars)
<1> SUFFICES ASSUME IInv, [Next]_vars PROVE [Import!ImportNext]_(Import!importVars)
  OBVIOUS
<1> USE DEF vars, txVars, libVars, stagingVars, targetVars, sourceVars, workVars, boundVars
<1> USE DEF IInv, TypeOK, Presence, StepMatchesState, ModeOfStep, RecordInv,
    NoRestageAfterRecord, SourceInv, TargetInv, TerminalMeansDone, CompleteAlbum, AfterRecord,
    Import!importVars, Import!ImportNext, Import!Publish, Import!Catalogue, Import!Archive,
    Import!RemoveImage, Import!Finish, Import!Damage, StagingSteps, PublishSteps, RecordSteps,
    ArchiveSteps, RemovalSteps
<1>1. CASE CommitStart
  BY <1>1 DEF CommitStart, Terminal
<1>2. CASE Recover
  <2>1. CASE RecoverStaging(txState)
    BY <2>1 DEF RecoverStaging, SetTx, Terminal
  <2>2. CASE RecoverPublishedDir(txState)
    BY <2>2 DEF RecoverPublishedDir, SetTx, Terminal
  <2>3. CASE RecoverRestage(txState)
    BY <2>3 DEF RecoverRestage, SetTx, Terminal
  <2>4. CASE RecoverVerify(txState) \/ RecoverRepublish(txState) \/ RecoverDbCommit(txState) \/
      RecoverDisposal(txState) \/ RecoverCleanup(txState)
    BY <2>4 DEF RecoverVerify, RecoverRepublish, RecoverDbCommit, RecoverDisposal, RecoverCleanup
  <2>. QED BY <1>2, <2>1, <2>2, <2>3, <2>4 DEF Recover, Resume
<1>3. CASE Staging
  <2>1. CASE FailTransaction
    BY <2>1 DEF FailTransaction, Stop, SetTx, Terminal
  <2>2. CASE StagingDone
    BY <2>2 DEF StagingDone, Goto, SetTx, Terminal
  <2>3. CASE VerifyStaging
    BY <2>3 DEF VerifyStaging, Goto, Stop, SetTx, Terminal
  <2>4. ASSUME NEW img \in Images, SourceUnavailable(img) PROVE
      [Import!ImportNext]_(Import!importVars)
    BY <2>4 DEF SourceUnavailable, Stop, SetTx, Readable, Terminal
  <2>5. ASSUME NEW img \in Images, CopyMismatch(img) PROVE [Import!ImportNext]_(Import!importVars)
    BY <2>5 DEF CopyMismatch, Goto, Stop, SetTx, Readable, Terminal
  <2>6. CASE MakeStagingDir \/ VerifyStagingFails \/ (\E img \in Images : ReuseStaged(img) \/
      BeginCopy(img) \/ CopyFile(img) \/ CopyUnreadable(img) \/ MarkVerified(img))
    BY <2>6 DEF MakeStagingDir, VerifyStagingFails, ReuseStaged, BeginCopy, CopyFile,
        CopyUnreadable, MarkVerified, Goto, Stop, Readable
  <2>. QED BY <1>3, <2>1, <2>2, <2>3, <2>4, <2>5, <2>6 DEF Staging
<1>4. CASE Publishing
  <2>1. CASE EnterPublishing
    BY <2>1 DEF EnterPublishing, Goto, SetTx, Terminal
  <2>2. CASE StrongRename
    BY <2>2 DEF StrongRename, Goto, Stop, Terminal
  <2>3. CASE ConservativeMkdir
    BY <2>3 DEF ConservativeMkdir, Terminal
  <2>4. CASE PublishManifest
    BY <2>4 DEF PublishManifest, Goto, Stop, Terminal
  <2>5. CASE WriteMarker
    BY <2>5 DEF WriteMarker, Goto, Terminal
  <2>6. CASE Announce
    BY <2>6 DEF Announce, Goto, Stop, SetTx, Terminal
  <2>7. ASSUME NEW img \in Images, PublishFile(img) PROVE [Import!ImportNext]_(Import!importVars)
    BY <2>7 DEF PublishFile, Stop, Terminal
  <2>8. CASE WriteManifest \/ SaveHash \/ PublishPrecheck \/ RemoveStaging
    BY <2>8 DEF WriteManifest, SaveHash, PublishPrecheck, RemoveStaging, Goto, Stop
  <2>. QED BY <1>4, <2>1, <2>2, <2>3, <2>4, <2>5, <2>6, <2>7, <2>8 DEF Publishing
<1>5. CASE Recording
  <2>1. CASE CheckEvidence
    BY <2>1 DEF CheckEvidence, Goto, Stop, SetTx, PublishedEvidence, Terminal
  <2>2. CASE BeginDbCommit
    BY <2>2 DEF BeginDbCommit, Goto, SetTx, Terminal
  <2>3. CASE InsertRecord
    BY <2>3 DEF InsertRecord, Goto, Terminal
  <2>4. CASE BackOut
    BY <2>4 DEF BackOut, Stop, SetTx, Terminal
  <2>5. CASE LibraryCommitted
    BY <2>5 DEF LibraryCommitted, Goto, SetTx, Terminal
  <2>6. CASE ConsumePlan
    BY <2>6 DEF ConsumePlan, Goto
  <2>. QED BY <1>5, <2>1, <2>2, <2>3, <2>4, <2>5, <2>6 DEF Recording
<1>6. CASE Disposal
  <2>1. CASE CommitArchive
    BY <2>1 DEF CommitArchive, Goto, Stop, SetTx, Terminal
  <2>2. CASE RecoverArchive
    BY <2>2 DEF RecoverArchive, Goto, Stop, SetTx, Terminal
  <2>3. CASE ArchiveClash
    BY <2>3 DEF ArchiveClash, Stop, SetTx, Terminal
  <2>4. CASE VerifySnapshot
    BY <2>4 DEF VerifySnapshot, Goto, Stop, SetTx, Terminal
  <2>5. CASE RenameToArchive
    BY <2>5 DEF RenameToArchive, Goto, Stop, NoFile, AllGood, Terminal
  <2>6. CASE VerifyArchive
    BY <2>6 DEF VerifyArchive, Goto, Stop, SetTx, Terminal
  <2>7. CASE SourceArchived
    BY <2>7 DEF SourceArchived, Goto, Stop, SetTx, AllGood, Terminal
  <2>8. CASE EnterRemoval
    BY <2>8 DEF EnterRemoval, Goto, Stop, SetTx, CommittedEvidence, Terminal
  <2>9. CASE CheckSources
    BY <2>9 DEF CheckSources, Stop, SetTx, Terminal
  <2>10. CASE SourcesRemoved
    BY <2>10 DEF SourcesRemoved, Goto, SetTx, AllGood, Terminal
  <2>11. CASE Recleanup
    BY ConstantsAssumption, <2>11 DEF Recleanup, Stop, SetTx, Terminal, Terminal
  <2>12. ASSUME NEW img \in Images, RemoveSource(img) PROVE [Import!ImportNext]_(Import!importVars)
    BY ConstantsAssumption, <2>12 DEF RemoveSource, Stop, SetTx, Terminal
  <2>13. CASE Cleanup
    BY <2>13 DEF Cleanup, Stop
  <2>. QED BY <1>6, <2>1, <2>2, <2>3, <2>4, <2>5, <2>6, <2>7, <2>8, <2>9, <2>10, <2>11, <2>12,
      <2>13 DEF Disposal
<1>7. CASE Fault
  <2>1. CASE CleanupFails
    BY <2>1 DEF CleanupFails, Stop, SetTx, Terminal
  <2>2. CASE DbCommitFails \/ Interrupt
    BY <2>2 DEF DbCommitFails, Interrupt, Goto, Stop
  <2>. QED BY <1>7, <2>1, <2>2 DEF Fault
<1>8. CASE Outside
  <2>1. CASE MoveSourceAlbum
    BY <2>1 DEF MoveSourceAlbum, Meddle, Terminal
  <2>2. CASE ForeignTarget
    BY <2>2 DEF ForeignTarget, Meddle, Terminal
  <2>3. CASE LoseTarget
    BY <2>3 DEF LoseTarget, Meddle, Terminal
  <2>4. ASSUME NEW img \in Images, ChangeSource(img) PROVE [Import!ImportNext]_(Import!importVars)
    BY <2>4 DEF ChangeSource, Meddle, Content, Terminal
  <2>5. ASSUME NEW img \in Images, DamageTarget(img) PROVE [Import!ImportNext]_(Import!importVars)
    BY <2>5 DEF DamageTarget, Meddle, AllGood, Terminal
  <2>6. CASE LoseStaging \/ (\E img \in Images : LoseStaged(img))
    BY <2>6 DEF LoseStaging, LoseStaged, Meddle
  <2>. QED BY <1>8, <2>1, <2>2, <2>3, <2>4, <2>5, <2>6 DEF Outside
<1>9. CASE UNCHANGED vars
  BY <1>9
<1>. QED BY <1>1, <1>2, <1>3, <1>4, <1>5, <1>6, <1>7, <1>8, <1>9 DEF Next, Work

\* Commit and recovery, however interleaved with faults and with the outside world,
\* implement the abstract import of an album.
THEOREM Refinement == Spec => ImplementsImport
<1>1. Init => Import!ImportInit
  BY DEF Init, Import!ImportInit, CompleteAlbum, Terminal
<1>. QED BY <1>1, ImportStep, InductiveInvariant, PTL DEF Spec, ImplementsImport, Import!ImportSpec
=============================================================================
