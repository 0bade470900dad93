------------------------ MODULE SourceCleanup_proofs ------------------------
(***************************************************************************)
(* Proofs about SourceCleanup for every set of images, every kind of       *)
(* meddling and every number of faults.  CleanupInv is inductive; that a   *)
(* quarantined file is tracked, and that nothing is left when the removal  *)
(* reports its end, needs a drive that stays plugged in.                   *)
(* NeverConflictsByItself holds up to the first fault and until the        *)
(* second, and so does that an attempt left to itself removes all.         *)
(***************************************************************************)
EXTENDS SourceCleanup, TLAPS

\* Every step keeps every variable within its type.
LEMMA CleanupTypeStep == CleanupTypeOK /\ [CleanupNext]_cleanupVars => CleanupTypeOK'
<1> SUFFICES ASSUME CleanupTypeOK, [CleanupNext]_cleanupVars PROVE CleanupTypeOK'
  OBVIOUS
<1> USE DEF cleanupVars, rows, files, work, bounds
<1> USE DEF CleanupTypeOK, Contents, RowStates
<1>1. CASE CleanupWork
  <2>1. CASE Begin
    BY <2>1 DEF Begin
  <2>2. CASE InspectDone
    BY <2>2 DEF InspectDone, At
  <2>3. CASE CheckSnapshot
    BY <2>3 DEF CheckSnapshot, Return, At
  <2>4. CASE Finish
    BY <2>4 DEF Finish, Return
  <2>5. CASE GiveUp
    BY <2>5 DEF GiveUp, Return
  <2>6. ASSUME NEW img \in Images, Inspect(img) PROVE CleanupTypeOK'
    BY <2>6 DEF Inspect, Exists, RowConflict, SetRow, At
  <2>7. ASSUME NEW img \in Images, SkipRemoved(img) PROVE CleanupTypeOK'
    BY <2>7 DEF SkipRemoved, Exists, SetRow, NextFile, RowConflict, At
  <2>8. ASSUME NEW img \in Images, ResumeQuarantined(img) PROVE CleanupTypeOK'
    BY <2>8 DEF ResumeQuarantined, Exists
  <2>9. ASSUME NEW img \in Images, Isolate(img) PROVE CleanupTypeOK'
    BY <2>9 DEF Isolate, Exists, SetRow, RowConflict, At
  <2>10. ASSUME NEW img \in Images, Rename(img) PROVE CleanupTypeOK'
    BY <2>10 DEF Rename, Exists, At, RowConflict, SetRow
  <2>11. ASSUME NEW img \in Images, Isolated(img) PROVE CleanupTypeOK'
    BY <2>11 DEF Isolated, SetRow, At
  <2>12. ASSUME NEW img \in Images, Verify(img) PROVE CleanupTypeOK'
    BY <2>12 DEF Verify, Exists, SetRow, NextFile, At, RowConflict
  <2>13. ASSUME NEW img \in Images, Unlink(img) PROVE CleanupTypeOK'
    BY <2>13 DEF Unlink, Exists, Return, SetRow, At
  <2>14. ASSUME NEW img \in Images, Unlinked(img) PROVE CleanupTypeOK'
    BY <2>14 DEF Unlinked, SetRow, NextFile
  <2>. QED BY <1>1, <2>1, <2>2, <2>3, <2>4, <2>5, <2>6, <2>7, <2>8, <2>9, <2>10, <2>11, <2>12,
      <2>13, <2>14 DEF CleanupWork
<1>2. CASE User
  <2>1. CASE ChangeOthers
    BY CleanupConstants, <2>1 DEF ChangeOthers, Meddle
  <2>2. CASE Unplug
    BY CleanupConstants, <2>2 DEF Unplug, Meddle
  <2>3. ASSUME NEW img \in Images, EditOriginal(img) PROVE CleanupTypeOK'
    BY CleanupConstants, <2>3 DEF EditOriginal, Meddle
  <2>4. ASSUME NEW img \in Images, TouchQuarantined(img) PROVE CleanupTypeOK'
    BY CleanupConstants, <2>4 DEF TouchQuarantined, Exists, Meddle
  <2>. QED BY <1>2, <2>1, <2>2, <2>3, <2>4 DEF User
<1>3. CASE Crash
  BY CleanupConstants, <1>3 DEF Crash, Return
<1>4. CASE PlugIn
  BY <1>4 DEF PlugIn
<1>5. ASSUME NEW img \in Images, FileCallFails(img) PROVE CleanupTypeOK'
  BY CleanupConstants, <1>5 DEF FileCallFails, Exists, Return, SetRow
<1>6. CASE UNCHANGED cleanupVars
  BY <1>6
<1>. QED BY <1>1, <1>2, <1>3, <1>4, <1>5, <1>6 DEF CleanupNext

\* The worker holds one file at a time, and those it is done with are removed.
LEMMA WorkStep == CleanupTypeOK /\ WorkInv /\ [CleanupNext]_cleanupVars => WorkInv'
<1> SUFFICES ASSUME CleanupTypeOK /\ WorkInv, [CleanupNext]_cleanupVars PROVE WorkInv'
  OBVIOUS
<1> USE DEF cleanupVars, rows, files, work, bounds
<1> USE DEF CleanupTypeOK, WorkInv, FileSteps
<1>1. CASE CleanupWork
  <2>1. CASE Begin
    BY <2>1 DEF Begin
  <2>2. CASE InspectDone
    BY <2>2 DEF InspectDone, At
  <2>3. CASE CheckSnapshot
    BY <2>3 DEF CheckSnapshot, Return, At
  <2>4. CASE Finish
    BY <2>4 DEF Finish, Return
  <2>5. CASE GiveUp
    BY <2>5 DEF GiveUp, Return
  <2>6. ASSUME NEW img \in Images, Inspect(img) PROVE WorkInv'
    BY <2>6 DEF Inspect, Exists, RowConflict, SetRow, At
  <2>7. ASSUME NEW img \in Images, SkipRemoved(img) PROVE WorkInv'
    BY <2>7 DEF SkipRemoved, Exists, SetRow, NextFile, RowConflict, At
  <2>8. ASSUME NEW img \in Images, ResumeQuarantined(img) PROVE WorkInv'
    BY <2>8 DEF ResumeQuarantined, Exists
  <2>9. ASSUME NEW img \in Images, Isolate(img) PROVE WorkInv'
    BY <2>9 DEF Isolate, Exists, SetRow, RowConflict, At
  <2>10. ASSUME NEW img \in Images, Rename(img) PROVE WorkInv'
    BY <2>10 DEF Rename, Exists, At, RowConflict, SetRow
  <2>11. ASSUME NEW img \in Images, Isolated(img) PROVE WorkInv'
    BY <2>11 DEF Isolated, SetRow, At
  <2>12. ASSUME NEW img \in Images, Verify(img) PROVE WorkInv'
    BY <2>12 DEF Verify, Exists, SetRow, NextFile, At, RowConflict
  <2>13. ASSUME NEW img \in Images, Unlink(img) PROVE WorkInv'
    BY <2>13 DEF Unlink, Exists, Return, SetRow, At
  <2>14. ASSUME NEW img \in Images, Unlinked(img) PROVE WorkInv'
    BY <2>14 DEF Unlinked, SetRow, NextFile
  <2>. QED BY <1>1, <2>1, <2>2, <2>3, <2>4, <2>5, <2>6, <2>7, <2>8, <2>9, <2>10, <2>11, <2>12,
      <2>13, <2>14 DEF CleanupWork
<1>2. CASE User
  BY <1>2 DEF User, ChangeOthers, Unplug, EditOriginal, TouchQuarantined, Exists, Meddle
<1>3. CASE Crash
  BY <1>3 DEF Crash, Return
<1>4. CASE PlugIn
  BY <1>4 DEF PlugIn
<1>5. ASSUME NEW img \in Images, FileCallFails(img) PROVE WorkInv'
  BY <1>5 DEF FileCallFails, Exists, Return, SetRow
<1>6. CASE UNCHANGED cleanupVars
  BY <1>6
<1>. QED BY <1>1, <1>2, <1>3, <1>4, <1>5, <1>6 DEF CleanupNext

\* Row and quarantine of the file in hand match the step the worker is at.
LEMMA FileStep == CleanupTypeOK /\ WorkInv /\ FileInv /\ [CleanupNext]_cleanupVars => FileInv'
<1> SUFFICES ASSUME CleanupTypeOK /\ WorkInv /\ FileInv, [CleanupNext]_cleanupVars PROVE FileInv'
  OBVIOUS
<1> USE DEF cleanupVars, rows, files, work, bounds
<1> USE DEF CleanupTypeOK, WorkInv, FileInv, FileSteps, Contents, RowStates
<1>1. CASE CleanupWork
  <2>1. CASE Begin
    BY <2>1 DEF Begin
  <2>2. CASE InspectDone
    BY <2>2 DEF InspectDone, At
  <2>3. CASE CheckSnapshot
    BY <2>3 DEF CheckSnapshot, Return, At
  <2>4. CASE Finish
    BY <2>4 DEF Finish, Return
  <2>5. CASE GiveUp
    BY <2>5 DEF GiveUp, Return
  <2>6. ASSUME NEW img \in Images, Inspect(img) PROVE FileInv'
    BY <2>6 DEF Inspect, Exists, RowConflict, SetRow, At
  <2>7. ASSUME NEW img \in Images, SkipRemoved(img) PROVE FileInv'
    BY <2>7 DEF SkipRemoved, Exists, SetRow, NextFile, RowConflict, At
  <2>8. ASSUME NEW img \in Images, ResumeQuarantined(img) PROVE FileInv'
    BY <2>8 DEF ResumeQuarantined, Exists
  <2>9. ASSUME NEW img \in Images, Isolate(img) PROVE FileInv'
    BY <2>9 DEF Isolate, Exists, SetRow, RowConflict, At
  <2>10. ASSUME NEW img \in Images, Rename(img) PROVE FileInv'
    BY <2>10 DEF Rename, Exists, At, RowConflict, SetRow
  <2>11. ASSUME NEW img \in Images, Isolated(img) PROVE FileInv'
    BY <2>11 DEF Isolated, SetRow, At
  <2>12. ASSUME NEW img \in Images, Verify(img) PROVE FileInv'
    BY <2>12 DEF Verify, Exists, SetRow, NextFile, At, RowConflict
  <2>13. ASSUME NEW img \in Images, Unlink(img) PROVE FileInv'
    BY <2>13 DEF Unlink, Exists, Return, SetRow, At
  <2>14. ASSUME NEW img \in Images, Unlinked(img) PROVE FileInv'
    BY <2>14 DEF Unlinked, SetRow, NextFile
  <2>. QED BY <1>1, <2>1, <2>2, <2>3, <2>4, <2>5, <2>6, <2>7, <2>8, <2>9, <2>10, <2>11, <2>12,
      <2>13, <2>14 DEF CleanupWork
<1>2. CASE User
  <2>1. ASSUME NEW img \in Images, TouchQuarantined(img) PROVE FileInv'
    BY <2>1 DEF TouchQuarantined, Exists, Meddle
  <2>2. CASE ChangeOthers \/ Unplug \/ (\E img \in Images : EditOriginal(img))
    BY <2>2 DEF ChangeOthers, Unplug, EditOriginal, Meddle
  <2>. QED BY <1>2, <2>1, <2>2 DEF User
<1>3. CASE Crash
  BY <1>3 DEF Crash, Return
<1>4. CASE PlugIn
  BY <1>4 DEF PlugIn
<1>5. ASSUME NEW img \in Images, FileCallFails(img) PROVE FileInv'
  BY <1>5 DEF FileCallFails, Exists, Return, SetRow
<1>6. CASE UNCHANGED cleanupVars
  BY <1>6
<1>. QED BY <1>1, <1>2, <1>3, <1>4, <1>5, <1>6 DEF CleanupNext

\* With the drive plugged in no row forgets a quarantined file.
LEMMA TrackingStep == CleanupInv /\ [CleanupNext]_cleanupVars => TrackingInv'
<1> SUFFICES ASSUME CleanupInv, [CleanupNext]_cleanupVars PROVE TrackingInv'
  OBVIOUS
<1> USE DEF cleanupVars, rows, files, work, bounds
<1> USE DEF CleanupTypeOK, WorkInv, FileInv, TrackingInv, QuarantineIsTracked,
    ReportsOnlyWhatIsGone, FileSteps, CleanupInv
<1>1. CASE CleanupWork
  <2>1. CASE Begin
    BY <2>1 DEF Begin
  <2>2. CASE InspectDone
    BY <2>2 DEF InspectDone, At
  <2>3. CASE CheckSnapshot
    BY <2>3 DEF CheckSnapshot, Return, At
  <2>4. CASE Finish
    BY <2>4 DEF Finish, Return
  <2>5. CASE GiveUp
    BY <2>5 DEF GiveUp, Return
  <2>6. ASSUME NEW img \in Images, Inspect(img) PROVE TrackingInv'
    BY <2>6 DEF Inspect, Exists, RowConflict, SetRow, At
  <2>7. ASSUME NEW img \in Images, SkipRemoved(img) PROVE TrackingInv'
    BY <2>7 DEF SkipRemoved, Exists, SetRow, NextFile, RowConflict, At
  <2>8. ASSUME NEW img \in Images, ResumeQuarantined(img) PROVE TrackingInv'
    BY <2>8 DEF ResumeQuarantined, Exists
  <2>9. ASSUME NEW img \in Images, Isolate(img) PROVE TrackingInv'
    BY <2>9 DEF Isolate, Exists, SetRow, RowConflict, At
  <2>10. ASSUME NEW img \in Images, Rename(img) PROVE TrackingInv'
    BY <2>10 DEF Rename, Exists, At, RowConflict, SetRow
  <2>11. ASSUME NEW img \in Images, Isolated(img) PROVE TrackingInv'
    BY <2>11 DEF Isolated, SetRow, At
  <2>12. ASSUME NEW img \in Images, Verify(img) PROVE TrackingInv'
    BY <2>12 DEF Verify, Exists, SetRow, NextFile, At, RowConflict
  <2>13. ASSUME NEW img \in Images, Unlink(img) PROVE TrackingInv'
    BY <2>13 DEF Unlink, Exists, Return, SetRow, At
  <2>14. ASSUME NEW img \in Images, Unlinked(img) PROVE TrackingInv'
    BY <2>14 DEF Unlinked, SetRow, NextFile
  <2>. QED BY <1>1, <2>1, <2>2, <2>3, <2>4, <2>5, <2>6, <2>7, <2>8, <2>9, <2>10, <2>11, <2>12,
      <2>13, <2>14 DEF CleanupWork
<1>2. CASE User
  <2>1. CASE Unplug
    BY <2>1 DEF Unplug, Meddle
  <2>2. ASSUME NEW img \in Images, TouchQuarantined(img) PROVE TrackingInv'
    BY <2>2 DEF TouchQuarantined, Exists, Meddle
  <2>3. CASE ChangeOthers \/ (\E img \in Images : EditOriginal(img))
    BY <2>3 DEF ChangeOthers, EditOriginal, Meddle
  <2>. QED BY <1>2, <2>1, <2>2, <2>3 DEF User
<1>3. CASE Crash
  BY <1>3 DEF Crash, Return
<1>4. CASE PlugIn
  BY <1>4 DEF PlugIn
<1>5. ASSUME NEW img \in Images, FileCallFails(img) PROVE TrackingInv'
  BY <1>5 DEF FileCallFails, Exists, Return, SetRow
<1>6. CASE UNCHANGED cleanupVars
  BY <1>6
<1>. QED BY <1>1, <1>2, <1>3, <1>4, <1>5, <1>6 DEF CleanupNext

\* CleanupInv holds in every reachable state.
THEOREM CleanupInvariant == CleanupSpec => []CleanupInv
<1>1. CleanupInit => CleanupInv
  <2> SUFFICES ASSUME CleanupInit PROVE CleanupInv
    OBVIOUS
  <2> USE DEF CleanupInit
  <2>1. CleanupTypeOK
    BY CleanupConstants DEF CleanupTypeOK, Contents, RowStates
  <2>2. WorkInv /\ FileInv
    BY DEF WorkInv, FileInv, FileSteps
  <2>3. TrackingInv
    BY DEF TrackingInv, QuarantineIsTracked, ReportsOnlyWhatIsGone
  <2>. QED BY <2>1, <2>2, <2>3 DEF CleanupInv
<1>2. CleanupInv /\ [CleanupNext]_cleanupVars => CleanupInv'
  BY CleanupTypeStep, WorkStep, FileStep, TrackingStep DEF CleanupInv
<1>. QED BY <1>1, <1>2, PTL DEF CleanupSpec

\* Every variable keeps its type.
THEOREM CleanupTypeCorrect == CleanupSpec => []CleanupTypeOK
<1>1. CleanupInv => CleanupTypeOK BY DEF CleanupInv
<1>. QED BY <1>1, CleanupInvariant, PTL

\* No crash leaves a file in quarantine that no row refers to, as long as the source
\* album stays within reach.
THEOREM QuarantineIsTrackedHolds ==
    ASSUME "unplug" \notin Meddling PROVE CleanupSpec => []QuarantineIsTracked
<1>1. CleanupInv => QuarantineIsTracked BY DEF CleanupInv, TrackingInv
<1>. QED BY <1>1, CleanupInvariant, PTL

\* source_files_removed is reported only when every file is gone, as long as the
\* source album stays within reach.
THEOREM ReportsOnlyWhatIsGoneHolds ==
    ASSUME "unplug" \notin Meddling PROVE CleanupSpec => []ReportsOnlyWhatIsGone
<1>1. CleanupInv => ReportsOnlyWhatIsGone BY DEF CleanupInv, TrackingInv
<1>. QED BY <1>1, CleanupInvariant, PTL

-----------------------------------------------------------------------------
(***************************************************************************)
(* The removal as the last part of an import: FileTransaction's            *)
(* RemoveSource and SourcesRemoved are this module, step by step, from the *)
(* moment the rows are in the library.                                     *)
(***************************************************************************)
Removal == INSTANCE AlbumImport WITH
    Mode      <- "move",
    shelf     <- "complete",
    catalogue <- "present",
    archived  <- "absent",
    removed   <- {img \in Images : state[img] = "removed"},
    report    <- IF tx = "removed" THEN "done" ELSE "open"

\* A row that changes is the row of one image, and it never leaves "removed".
RowsChange(img) ==
    /\ tx' = tx
    /\ state' = [state EXCEPT ![img] = state'[img]]
    /\ state[img] = "removed" => state'[img] = "removed"

\* One row changes, or the transaction reports its end with every row removed, or
\* nothing the import shows changes.
LEMMA RowsStep ==
    ASSUME "unplug" \notin Meddling, CleanupInv, [CleanupNext]_cleanupVars
    PROVE  \/ \E img \in Images : RowsChange(img)
           \/ state' = state /\ tx' # "removed" /\ tx # "removed"
           \/ state' = state /\ tx' = "removed" /\ \A img \in Images : state[img] = "removed"
           \/ state' = state /\ tx' = tx
<1> USE DEF cleanupVars, rows, files, work, bounds
<1> USE DEF CleanupTypeOK, WorkInv, FileInv, FileSteps, TrackingInv, QuarantineIsTracked, CleanupInv, RowsChange
<1>1. CASE CleanupWork
  <2>1. CASE Begin \/ InspectDone \/ CheckSnapshot
    BY <2>1 DEF Begin, InspectDone, CheckSnapshot
  <2>2. CASE Finish
    BY <2>2 DEF Finish
  <2>3. CASE GiveUp
    BY <2>3 DEF GiveUp
  <2>4. ASSUME NEW img \in Images, Inspect(img) PROVE tx' = tx /\ (state' = state \/ RowsChange(img))
    BY <2>4 DEF Inspect, Exists, RowConflict, SetRow
  <2>5. ASSUME NEW img \in Images, SkipRemoved(img) PROVE tx' = tx /\ (state' = state \/ RowsChange(img))
    BY <2>5 DEF SkipRemoved, Exists, RowConflict, SetRow
  <2>6. ASSUME NEW img \in Images, ResumeQuarantined(img) PROVE tx' = tx /\ state' = state
    BY <2>6 DEF ResumeQuarantined
  <2>7. ASSUME NEW img \in Images, Isolate(img) PROVE tx' = tx /\ RowsChange(img)
    BY <2>7 DEF Isolate, RowConflict, SetRow
  <2>8. ASSUME NEW img \in Images, Rename(img) PROVE tx' = tx /\ (state' = state \/ RowsChange(img))
    BY <2>8 DEF Rename, RowConflict, SetRow
  <2>9. ASSUME NEW img \in Images, Isolated(img) PROVE RowsChange(img)
    BY <2>9 DEF Isolated, SetRow
  <2>10. ASSUME NEW img \in Images, Verify(img) PROVE tx' = tx /\ (state' = state \/ RowsChange(img))
    BY <2>10 DEF Verify, RowConflict, SetRow
  <2>11. ASSUME NEW img \in Images, Unlink(img) PROVE tx' = tx /\ (state' = state \/ RowsChange(img))
    BY <2>11 DEF Unlink, SetRow
  <2>12. ASSUME NEW img \in Images, Unlinked(img) PROVE RowsChange(img)
    BY <2>12 DEF Unlinked, SetRow
  <2>. QED BY <1>1, <2>1, <2>2, <2>3, <2>4, <2>5, <2>6, <2>7, <2>8, <2>9, <2>10, <2>11, <2>12
      DEF CleanupWork
<1>2. CASE User \/ Crash \/ PlugIn
  BY <1>2 DEF User, ChangeOthers, Unplug, EditOriginal, TouchQuarantined, Crash, PlugIn
<1>3. ASSUME NEW img \in Images, FileCallFails(img) PROVE RowsChange(img)
  BY <1>3 DEF FileCallFails, SetRow
<1>4. CASE UNCHANGED cleanupVars
  BY <1>4
<1>. QED BY <1>1, <1>2, <1>3, <1>4 DEF CleanupNext

\* Whatever interrupts it and whatever the user does, a removal on a drive that
\* stays plugged in only ever takes the steps an import may take: images go one by
\* one and stay gone, and the end is reported when all of them are.
THEOREM RemovalImplementsImport ==
    ASSUME "unplug" \notin Meddling
    PROVE  CleanupSpec => [][Removal!ImportNext]_(Removal!importVars)
<1>1. CleanupInv /\ [CleanupNext]_cleanupVars => [Removal!ImportNext]_(Removal!importVars)
  <2> SUFFICES ASSUME CleanupInv, [CleanupNext]_cleanupVars PROVE [Removal!ImportNext]_(Removal!importVars)
    OBVIOUS
  <2> DEFINE Removed == {img \in Images : state[img] = "removed"}
  <2>1. ASSUME NEW img \in Images, RowsChange(img) PROVE [Removal!ImportNext]_(Removal!importVars)
    <3>1. Removed' = Removed \/ Removed' = Removed \cup {img}
      BY <2>1 DEF RowsChange, CleanupInv, CleanupTypeOK
    <3>2. tx' = tx
      BY <2>1 DEF RowsChange
    <3>3. CASE Removed' = Removed
      BY <3>2, <3>3 DEF Removal!importVars
    <3>4. CASE Removed' = Removed \cup {img}
      BY <3>2, <3>4 DEF Removal!importVars, Removal!ImportNext, Removal!RemoveImage
    <3>. QED BY <3>1, <3>3, <3>4
  <2>2. CASE state' = state /\ tx' = "removed" /\ \A img \in Images : state[img] = "removed"
    <3>1. Removed = Images /\ Removed' = Removed
      BY <2>2
    <3>. QED BY <2>2, <3>1 DEF Removal!importVars, Removal!ImportNext, Removal!Finish
  <2>3. CASE state' = state /\ (tx' = tx \/ (tx' # "removed" /\ tx # "removed"))
    BY <2>3 DEF Removal!importVars
  <2>. QED BY <2>1, <2>2, <2>3, RowsStep
<1>. QED BY <1>1, CleanupInvariant, PTL DEF CleanupSpec

-----------------------------------------------------------------------------
\* What one step may do to files of the user's own.
UserFilesStep ==
    meddles' = meddles => \A img \in Images :
        /\ source[img] = "user" => "user" \in {source'[img], quarantine'[img]}
        /\ quarantine[img] = "user" => quarantine'[img] = "user"

\* A step that is not the user's keeps the user's files.
LEMMA UserFilesLemma == CleanupInv /\ [CleanupNext]_cleanupVars => UserFilesStep
<1> SUFFICES ASSUME CleanupInv, [CleanupNext]_cleanupVars PROVE UserFilesStep
  OBVIOUS
<1> USE DEF cleanupVars, rows, files, work, bounds
<1> USE DEF CleanupTypeOK, FileInv, CleanupInv, UserFilesStep
<1>1. CASE CleanupWork
  <2>1. ASSUME NEW img \in Images, Rename(img) PROVE UserFilesStep
    BY <2>1 DEF Rename, Exists, At, RowConflict, SetRow
  <2>2. ASSUME NEW img \in Images, Unlink(img) PROVE UserFilesStep
    BY <2>2 DEF Unlink, Exists, Return, SetRow, At
  <2>3. CASE Begin \/ InspectDone \/ CheckSnapshot \/ Finish \/ GiveUp \/ (\E img \in Images :
      Inspect(img) \/ SkipRemoved(img) \/ ResumeQuarantined(img) \/ Isolate(img) \/ Isolated(img)
      \/ Verify(img) \/ Unlinked(img))
    BY <2>3 DEF Begin, InspectDone, CheckSnapshot, Finish, GiveUp, Inspect, SkipRemoved,
        ResumeQuarantined, Isolate, Isolated, Verify, Unlinked, At, Exists, NextFile, Return,
        RowConflict, SetRow
  <2>. QED BY <1>1, <2>1, <2>2, <2>3 DEF CleanupWork
<1>2. CASE User
  <2>1. ASSUME NEW img \in Images, EditOriginal(img) PROVE UserFilesStep
    BY CleanupConstants, <2>1 DEF EditOriginal, Meddle
  <2>2. ASSUME NEW img \in Images, TouchQuarantined(img) PROVE UserFilesStep
    BY CleanupConstants, <2>2 DEF TouchQuarantined, Exists, Meddle
  <2>3. CASE ChangeOthers \/ Unplug
    BY <2>3 DEF ChangeOthers, Unplug, Meddle
  <2>. QED BY <1>2, <2>1, <2>2, <2>3 DEF User
<1>3. CASE Crash
  BY <1>3 DEF Crash, Return
<1>4. CASE PlugIn
  BY <1>4 DEF PlugIn
<1>5. ASSUME NEW img \in Images, FileCallFails(img) PROVE UserFilesStep
  BY <1>5 DEF FileCallFails, Exists, Return, SetRow
<1>6. CASE UNCHANGED cleanupVars
  BY <1>6
<1>. QED BY <1>1, <1>2, <1>3, <1>4, <1>5, <1>6 DEF CleanupNext

\* What the user wrote to an original path survives the removal, whatever the user,
\* the drive and the faults do and whenever they do it.
THEOREM UserFilesKeptHolds == CleanupSpec => UserFilesKept
<1>1. CleanupInv /\ [CleanupNext]_cleanupVars => [UserFilesStep]_cleanupVars
  BY UserFilesLemma
<1>. QED BY <1>1, CleanupInvariant, PTL DEF CleanupSpec, UserFilesKept, UserFilesStep

\* What one step may do to an original path whose file is in quarantine.
ReplacementStep ==
    meddles' = meddles => \A img \in Images :
        quarantine[img] # "none" => source'[img] = source[img]

\* A step that is not the user's leaves that path alone.
LEMMA ReplacementLemma == CleanupInv /\ [CleanupNext]_cleanupVars => ReplacementStep
<1> SUFFICES ASSUME CleanupInv, [CleanupNext]_cleanupVars PROVE ReplacementStep
  OBVIOUS
<1> USE DEF cleanupVars, rows, files, work, bounds
<1> USE DEF CleanupTypeOK, FileInv, CleanupInv, ReplacementStep
<1>1. CASE CleanupWork
  <2>1. ASSUME NEW img \in Images, Rename(img) PROVE ReplacementStep
    BY <2>1 DEF Rename, Exists, At, RowConflict, SetRow
  <2>2. CASE Begin \/ InspectDone \/ CheckSnapshot \/ Finish \/ GiveUp \/ (\E img \in Images :
      Inspect(img) \/ SkipRemoved(img) \/ ResumeQuarantined(img) \/ Isolate(img) \/ Isolated(img)
      \/ Verify(img) \/ Unlink(img) \/ Unlinked(img))
    BY <2>2 DEF Begin, InspectDone, CheckSnapshot, Finish, GiveUp, Inspect, SkipRemoved,
        ResumeQuarantined, Isolate, Isolated, Verify, Unlink, Unlinked, At, Exists, NextFile,
        Return, RowConflict, SetRow
  <2>. QED BY <1>1, <2>1, <2>2 DEF CleanupWork
<1>2. CASE User
  <2>1. ASSUME NEW img \in Images, EditOriginal(img) PROVE ReplacementStep
    BY CleanupConstants, <2>1 DEF EditOriginal, Meddle
  <2>2. ASSUME NEW img \in Images, TouchQuarantined(img) PROVE ReplacementStep
    BY CleanupConstants, <2>2 DEF TouchQuarantined, Exists, Meddle
  <2>3. CASE ChangeOthers \/ Unplug
    BY <2>3 DEF ChangeOthers, Unplug, Meddle
  <2>. QED BY <1>2, <2>1, <2>2, <2>3 DEF User
<1>3. CASE Crash
  BY <1>3 DEF Crash, Return
<1>4. CASE PlugIn
  BY <1>4 DEF PlugIn
<1>5. ASSUME NEW img \in Images, FileCallFails(img) PROVE ReplacementStep
  BY <1>5 DEF FileCallFails, Exists, Return, SetRow
<1>6. CASE UNCHANGED cleanupVars
  BY <1>6
<1>. QED BY <1>1, <1>2, <1>3, <1>4, <1>5, <1>6 DEF CleanupNext

\* A replacement the user creates at the original path is not moved or deleted.
THEOREM ReplacementNotMovedHolds == CleanupSpec => ReplacementNotMoved
<1>1. CleanupInv /\ [CleanupNext]_cleanupVars => [ReplacementStep]_cleanupVars
  BY ReplacementLemma
<1>. QED BY <1>1, CleanupInvariant, PTL DEF CleanupSpec, ReplacementNotMoved, ReplacementStep

-----------------------------------------------------------------------------
(***************************************************************************)
(* The removal left to itself.  One fault is what it tolerates: a second   *)
(* one, between the unlink of a file resumed from quarantine and the row   *)
(* that says so, leaves a "removing" row without a file.                   *)
(***************************************************************************)

\* Row and file of an image agree while nobody else touches the album.
RowMatchesFile(img) ==
    /\ state[img] # "conflict"
    /\ state[img] = "pending" => source[img] = "plan" /\ quarantine[img] = "none"
    /\ state[img] = "removing" =>
           \/ source[img] = "plan" /\ quarantine[img] = "none"
           \/ source[img] = "none" /\ quarantine[img] = "plan"
           \/ /\ source[img] = "none" /\ quarantine[img] = "none"
              /\ faults # 0 /\ img \in cur /\ pc = "unlinked"
    /\ state[img] = "verifying" => source[img] = "none" /\ quarantine[img] \in {"none", "plan"}
    /\ state[img] = "removed" => source[img] = "none" /\ quarantine[img] = "none"
    \* Only an earlier fault leaves a quarantined file to a row that says removing.
    /\ state[img] = "removing" /\ quarantine[img] = "plan" =>
           faults # 0 \/ (img \in cur /\ pc = "isolated")

\* The same for the file the worker has in hand.
StepMatchesFile(img) ==
    /\ pc = "rename" => source[img] = "plan"
    /\ pc = "isolated" => source[img] = "none" /\ quarantine[img] = "plan"
    /\ pc \in {"verify", "unlink"} => source[img] = "none" /\ quarantine[img] = "plan"
    /\ pc = "unlinked" => source[img] = "none" /\ quarantine[img] = "none"

SelfInv ==
    meddles = 0 /\ faults <= 1 =>
        /\ drive = "online" /\ others = "same"
        /\ tx # "conflict" /\ pc # "conflict"
        /\ \A img \in Images : RowMatchesFile(img)
        /\ \A img \in cur : StepMatchesFile(img)
        /\ pc = "inspect" => \A img \in Images \ todo : img \notin ignored => source[img] = "plan"
        /\ pc = "snapshot" => \A img \in Images \ ignored : source[img] = "plan"

\* No step of the worker, and no single fault, takes row and file apart.
LEMMA SelfStep == CleanupInv /\ SelfInv /\ [CleanupNext]_cleanupVars => SelfInv'
<1> SUFFICES ASSUME CleanupInv, SelfInv, [CleanupNext]_cleanupVars, meddles' = 0, faults' <= 1
             PROVE  SelfInv'
  BY DEF SelfInv
<1> USE DEF cleanupVars, rows, files, work, bounds
<1> USE DEF CleanupTypeOK, Contents, RowStates, WorkInv, FileInv, FileSteps, CleanupInv
<1> USE DEF SelfInv, RowMatchesFile, StepMatchesFile
<1>1. CASE CleanupWork
  <2>1. CASE Begin
    BY <2>1 DEF Begin
  <2>2. CASE InspectDone
    BY <2>2 DEF InspectDone, At
  <2>3. CASE CheckSnapshot
    BY <2>3 DEF CheckSnapshot, Return, At
  <2>4. CASE Finish
    BY <2>4 DEF Finish, Return
  <2>5. CASE GiveUp
    BY <2>5 DEF GiveUp, Return
  <2>6. ASSUME NEW img \in Images, Inspect(img) PROVE SelfInv'
    BY <2>6 DEF Inspect, Exists, RowConflict, SetRow, At
  <2>7. ASSUME NEW img \in Images, SkipRemoved(img) PROVE SelfInv'
    BY <2>7 DEF SkipRemoved, Exists, SetRow, NextFile, RowConflict, At
  <2>8. ASSUME NEW img \in Images, ResumeQuarantined(img) PROVE SelfInv'
    BY <2>8 DEF ResumeQuarantined, Exists
  <2>9. ASSUME NEW img \in Images, Isolate(img) PROVE SelfInv'
    BY <2>9 DEF Isolate, Exists, SetRow, RowConflict, At
  <2>10. ASSUME NEW img \in Images, Rename(img) PROVE SelfInv'
    BY <2>10 DEF Rename, Exists, At, RowConflict, SetRow
  <2>11. ASSUME NEW img \in Images, Isolated(img) PROVE SelfInv'
    <3>1. cur = {img} /\ state[img] = "removing" /\ source[img] = "none" /\ quarantine[img] = "plan"
      BY <2>11 DEF Isolated
    <3>2. /\ state' = [state EXCEPT ![img] = "verifying"] /\ pc' = "verify"
          /\ UNCHANGED <<tx, source, quarantine, others, drive, todo, cur, ignored, faults, meddles>>
      BY <2>11 DEF Isolated, SetRow, At
    <3>3. \A other \in Images : RowMatchesFile(other)'
      <4>1. RowMatchesFile(img)'
        BY <3>1, <3>2
      <4>2. ASSUME NEW other \in Images, other # img PROVE RowMatchesFile(other)'
        <5>1. RowMatchesFile(other) /\ pc = "isolated"
          BY <3>2, <2>11 DEF Isolated
        <5>2. /\ state'[other] = state[other] /\ source'[other] = source[other]
              /\ quarantine'[other] = quarantine[other] /\ faults' = faults
          BY <4>2, <3>2
        <5>3. other \notin cur
          BY <4>2, <3>1
        <5>. QED BY ONLY <5>1, <5>2, <5>3 DEF RowMatchesFile
      <4>. QED BY <4>1, <4>2
    <3>4. \A other \in cur' : StepMatchesFile(other)'
      BY <3>1, <3>2
    <3>. QED BY <2>11, <3>2, <3>3, <3>4 DEF Isolated
  <2>12. ASSUME NEW img \in Images, Verify(img) PROVE SelfInv'
    BY <2>12 DEF Verify, Exists, SetRow, NextFile, At, RowConflict
  <2>13. ASSUME NEW img \in Images, Unlink(img) PROVE SelfInv'
    BY <2>13 DEF Unlink, Exists, Return, SetRow, At
  <2>14. ASSUME NEW img \in Images, Unlinked(img) PROVE SelfInv'
    BY <2>14 DEF Unlinked, SetRow, NextFile
  <2>. QED BY <1>1, <2>1, <2>2, <2>3, <2>4, <2>5, <2>6, <2>7, <2>8, <2>9, <2>10, <2>11, <2>12,
      <2>13, <2>14 DEF CleanupWork
<1>2. CASE User
  <2>1. meddles' = meddles + 1
    BY <1>2 DEF User, ChangeOthers, Unplug, EditOriginal, TouchQuarantined, Meddle
  <2>. QED BY <2>1, CleanupConstants
<1>3. CASE Crash
  <2>1. faults = 0 /\ faults' = 1
    BY CleanupConstants, <1>3 DEF Crash
  <2>2. ASSUME NEW img \in Images PROVE RowMatchesFile(img)'
    <3>1. RowMatchesFile(img) /\ UNCHANGED <<state, source, quarantine>>
      BY <1>3 DEF Crash
    <3>. QED BY ONLY <2>1, <3>1 DEF RowMatchesFile
  <2>. QED BY <1>3, <2>2 DEF Crash, Return
<1>4. CASE PlugIn
  BY <1>4 DEF PlugIn
<1>5. ASSUME NEW img \in Images, FileCallFails(img) PROVE SelfInv'
  <2>1. faults = 0 /\ faults' = 1
    BY CleanupConstants, <1>5 DEF FileCallFails
  <2>2. cur = {img} /\ cur' = {} /\ pc' = "idle"
    BY <1>5 DEF FileCallFails, Return
  <2>3. ASSUME NEW other \in Images, other # img PROVE RowMatchesFile(other)'
    BY <1>5, <2>1, <2>2, <2>3 DEF FileCallFails, Return, SetRow
  <2>4. RowMatchesFile(img)'
    <3>1. RowMatchesFile(img) /\ StepMatchesFile(img) /\ UNCHANGED <<source, quarantine>>
      BY <1>5, <2>2 DEF FileCallFails
    <3>2. \/ pc = "rename" /\ source[img] # "none" /\ state'[img] = "removing"
          \/ pc = "isolated" /\ state'[img] = "removing"
          \/ pc \in {"verify", "unlink", "unlinked"} /\ state'[img] = "verifying"
      BY <1>5 DEF FileCallFails, Exists, SetRow
    <3>. QED BY <2>1, <3>1, <3>2
  <2>. QED BY <1>5, <2>2, <2>3, <2>4 DEF FileCallFails, Return, SetRow
<1>6. CASE UNCHANGED cleanupVars
  BY <1>6
<1>. QED BY <1>1, <1>2, <1>3, <1>4, <1>5, <1>6 DEF CleanupNext

\* So much for one fault: row and file go together.
LEMMA SelfInvariant == CleanupSpec => []SelfInv
<1>1. CleanupInit => SelfInv
  BY DEF CleanupInit, SelfInv, RowMatchesFile, StepMatchesFile
<1>. QED BY <1>1, SelfStep, CleanupInvariant, PTL DEF CleanupSpec

\* Interrupted once, at any step and in any way, the removal of any number of files
\* never asks the user to resolve anything.
THEOREM NeverConflictsByItselfHolds ==
    CleanupSpec => [](faults <= 1 => NeverConflictsByItself)
<1>1. SelfInv => (faults <= 1 => NeverConflictsByItself)
  BY DEF SelfInv, NeverConflictsByItself
<1>. QED BY <1>1, SelfInvariant, PTL

-----------------------------------------------------------------------------
(***************************************************************************)
(* How an attempt ends.  RemovalEnds needs fairness and stays with TLC;    *)
(* here: an attempt cannot go on for ever, and where it ends.              *)
(***************************************************************************)

\* How far a step is from the end of its attempt, and of its file.
StepsLeft(step) ==
    CASE step = "inspect"                 -> 4
      [] step = "snapshot"                -> 3
      [] step \in FileSteps \cup {"loop"} -> 2
      [] step = "conflict"                -> 1
      [] step = "idle"                    -> 0
FileStepsLeft(step) ==
    CASE step = "loop"     -> 5
      [] step = "rename"   -> 4
      [] step = "isolated" -> 3
      [] step = "verify"   -> 2
      [] step = "unlink"   -> 1
      [] OTHER             -> 0

\* Fewer steps, or fewer images to do, or fewer steps for the image at hand.
NearerDone ==
    \/ StepsLeft(pc') < StepsLeft(pc)
    \/ /\ StepsLeft(pc') = StepsLeft(pc)
       /\ \/ todo' \subseteq todo /\ todo' # todo
          \/ todo' = todo /\ FileStepsLeft(pc') < FileStepsLeft(pc)

LEMMA NearerDoneStep == ASSUME CleanupInv, CleanupWork, pc # "idle" PROVE NearerDone
<1> USE DEF NearerDone, StepsLeft, FileStepsLeft, FileSteps
<1>1. CASE Begin \/ InspectDone \/ CheckSnapshot \/ Finish \/ GiveUp
  BY <1>1 DEF Begin, InspectDone, CheckSnapshot, Finish, GiveUp, Return, At
<1>2. ASSUME NEW img \in Images, Inspect(img) \/ SkipRemoved(img) PROVE NearerDone
  BY <1>2 DEF Inspect, SkipRemoved, RowConflict, NextFile, At
<1>3. ASSUME NEW img \in Images, ResumeQuarantined(img) \/ Isolate(img) PROVE NearerDone
  BY <1>3 DEF ResumeQuarantined, Isolate, RowConflict, At
<1>4. ASSUME NEW img \in Images, Rename(img) \/ Isolated(img) PROVE NearerDone
  BY <1>4 DEF Rename, Isolated, RowConflict, At
<1>5. ASSUME NEW img \in Images, Verify(img) \/ Unlink(img) \/ Unlinked(img) PROVE NearerDone
  <2>1. img \in todo
    BY <1>5 DEF Verify, Unlink, Unlinked, CleanupInv, WorkInv
  <2> QED
    BY <1>5, <2>1 DEF Verify, Unlink, Unlinked, RowConflict, NextFile, At, Return
<1> QED
  BY <1>1, <1>2, <1>3, <1>4, <1>5 DEF CleanupWork

\* Whatever the user does to the files meanwhile, every step of an attempt brings
\* it nearer to its end; the loops of remove_selected_source_files end.
THEOREM RemovalAttemptsEnd == CleanupSpec => [][CleanupWork /\ pc # "idle" => NearerDone]_cleanupVars
<1>1. CleanupInv /\ [CleanupNext]_cleanupVars => [CleanupWork /\ pc # "idle" => NearerDone]_cleanupVars
  BY NearerDoneStep
<1> QED
  BY <1>1, CleanupInvariant, PTL DEF CleanupSpec

\* An attempt that is left to itself, after at most one that was interrupted, ends
\* with source_files_removed.
LEMMA RemovalArrivesStep ==
    ASSUME CleanupInv, SelfInv, CleanupWork, meddles = 0, faults <= 1, pc' = "idle"
    PROVE  tx' = "removed"
<1> USE DEF CleanupInv, WorkInv, SelfInv
<1>1. CASE Begin \/ InspectDone \/ CheckSnapshot \/ GiveUp
  BY <1>1 DEF Begin, InspectDone, CheckSnapshot, GiveUp, At
<1>2. CASE Finish
  BY <1>2 DEF Finish
<1>3. ASSUME NEW img \in Images, Inspect(img) \/ SkipRemoved(img) \/ ResumeQuarantined(img) \/ Isolate(img)
      PROVE  FALSE
  BY <1>3 DEF Inspect, SkipRemoved, ResumeQuarantined, Isolate, RowConflict, NextFile, At
<1>4. ASSUME NEW img \in Images, Rename(img) \/ Isolated(img) \/ Verify(img) \/ Unlinked(img)
      PROVE  FALSE
  BY <1>4 DEF Rename, Isolated, Verify, Unlinked, RowConflict, NextFile, At
<1>5. ASSUME NEW img \in Images, Unlink(img) PROVE FALSE
  BY <1>5 DEF Unlink, StepMatchesFile, Exists, At
<1> QED
  BY <1>1, <1>2, <1>3, <1>4, <1>5 DEF CleanupWork

THEOREM RemovalArrives ==
    CleanupSpec => [][meddles = 0 /\ faults <= 1 /\ CleanupWork /\ pc' = "idle" => tx' = "removed"]_cleanupVars
<1>1. CleanupInv /\ SelfInv /\ [CleanupNext]_cleanupVars =>
          [meddles = 0 /\ faults <= 1 /\ CleanupWork /\ pc' = "idle" => tx' = "removed"]_cleanupVars
  BY RemovalArrivesStep
<1> QED
  BY <1>1, CleanupInvariant, SelfInvariant, PTL DEF CleanupSpec

=============================================================================
