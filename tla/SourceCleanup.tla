---------------------------- MODULE SourceCleanup ----------------------------
(***************************************************************************)
(* Move mode, after the library rows are committed: the selected source    *)
(* files are taken away one by one (remove_selected_source_files).  Every  *)
(* file has a row in source_file_cleanup_operations.  It is renamed to a   *)
(* quarantine path in its own directory, hashed there, and only then       *)
(* unlinked, while the user goes on working in the album.                  *)
(*                                                                         *)
(* FileTransaction does all of this to one file in one step, RemoveSource. *)
(***************************************************************************)
EXTENDS Naturals

CONSTANTS
    Images,        \* the images the frozen plan selected
    Meddling,      \* what the user does: see the last section
    MaxFaults,     \* bound: crashes, failed statements and failed file calls
    MaxMeddles     \* bound: actions of the user

ASSUME CleanupConstants ==
    /\ Images # {}
    /\ Meddling \subseteq {"original", "quarantine", "others", "unplug"}
    /\ MaxFaults \in Nat
    /\ MaxMeddles \in Nat

VARIABLES
    tx,           \* file_transactions.state: "removing", "removed" or "conflict"
    state,        \* source_file_cleanup_operations.state of each image
    source,       \* content at the original path
    quarantine,   \* content at the quarantine path
    others,       \* the rest of the album: "same" as in the snapshot or "changed"
    drive,        \* "online" while the source album can be reached
    pc, todo, cur,
    ignored,      \* images the snapshot comparison leaves out
    faults, meddles

rows      == <<tx, state>>
files     == <<source, quarantine, others>>
work      == <<pc, todo, cur, ignored>>
bounds    == <<faults, meddles>>
cleanupVars == <<rows, files, drive, work, bounds>>

\* "plan": what the frozen plan's hash says; "user": anything the user wrote to the
\* original path; "tampered": written through to a file already in quarantine.
Contents == {"none", "plan", "user", "tampered"}
RowStates == {"pending", "removing", "verifying", "removed", "conflict"}

CleanupTypeOK ==
    /\ tx \in {"removing", "removed", "conflict"}
    /\ state \in [Images -> RowStates]
    /\ source \in [Images -> Contents]
    /\ quarantine \in [Images -> Contents]
    /\ others \in {"same", "changed"}
    /\ drive \in {"online", "offline"}
    /\ pc \in {"idle", "inspect", "snapshot", "loop", "rename", "isolated", "verify",
               "unlink", "unlinked", "conflict"}
    /\ todo \subseteq Images /\ cur \subseteq Images /\ ignored \subseteq Images
    /\ faults \in 0..MaxFaults /\ meddles \in 0..MaxMeddles

\* The state in which EnterRemoval leaves the transaction.
CleanupInit ==
    /\ tx = "removing" /\ state = [img \in Images |-> "pending"]
    /\ source = [img \in Images |-> "plan"]
    /\ quarantine = [img \in Images |-> "none"]
    /\ others = "same" /\ drive = "online"
    /\ pc = "idle" /\ todo = {} /\ cur = {} /\ ignored = {}
    /\ faults = 0 /\ meddles = 0

\* cleanup_path_exists: on a drive that went away nothing exists.
Exists(place, img) == drive = "online" /\ place[img] # "none"

Return == pc' = "idle" /\ todo' = {} /\ cur' = {} /\ ignored' = {}
SetRow(img, s) == state' = [state EXCEPT ![img] = s] /\ UNCHANGED tx
\* The loop is done with the file and takes the next one.
NextFile(img) == pc' = "loop" /\ todo' = todo \ {img} /\ cur' = {} /\ UNCHANGED ignored
At(step) == pc' = step /\ UNCHANGED <<todo, cur, ignored>>
\* cleanup_conflict: the row first, then the caller marks the transaction.
RowConflict(img) == SetRow(img, "conflict") /\ At("conflict")

-----------------------------------------------------------------------------
(***************************************************************************)
(* One call of remove_selected_source_files, by commit or by recovery.     *)
(***************************************************************************)

\* An album that cannot be reached is left for a later attempt.
Begin ==
    /\ pc = "idle" /\ tx = "removing" /\ drive = "online"
    /\ pc' = "inspect" /\ todo' = Images /\ cur' = {} /\ ignored' = {}
    /\ UNCHANGED <<rows, files, drive, bounds>>

\* Mutant of Inspect: a verified file is not excused from the comparison.
Inspect_NoVerifying(img) ==
    /\ pc = "inspect" /\ img \in todo
    /\ \/ /\ \/ state[img] = "pending" /\ Exists(quarantine, img)
             \/ state[img] = "removing" /\ ~Exists(source, img) /\ ~Exists(quarantine, img)
             \/ state[img] = "conflict"
          /\ RowConflict(img)
       \/ /\ state[img] = "pending" => ~Exists(quarantine, img)
          /\ state[img] = "removing" => Exists(source, img) \/ Exists(quarantine, img)
          /\ state[img] # "conflict"
          /\ ignored' = IF \/ state[img] = "removed"
                           \/ state[img] = "removing" /\ Exists(quarantine, img)
                        THEN ignored \cup {img} ELSE ignored
          /\ todo' = todo \ {img}
          /\ UNCHANGED <<rows, pc, cur>>
    /\ UNCHANGED <<files, drive, bounds>>

\* Row and files of each image must agree before anything is touched.  A row that
\* says conflict already, and a row whose files contradict it, end the attempt.
Inspect(img) ==
    /\ pc = "inspect" /\ img \in todo
    /\ \/ /\ \/ state[img] = "pending" /\ Exists(quarantine, img)
             \/ state[img] = "removing" /\ ~Exists(source, img) /\ ~Exists(quarantine, img)
             \/ state[img] = "conflict"
          /\ RowConflict(img)
       \/ /\ state[img] = "pending" => ~Exists(quarantine, img)
          /\ state[img] = "removing" => Exists(source, img) \/ Exists(quarantine, img)
          /\ state[img] # "conflict"
          /\ ignored' = IF \/ state[img] \in {"verifying", "removed"}
                           \/ state[img] = "removing" /\ Exists(quarantine, img)
                        THEN ignored \cup {img} ELSE ignored
          /\ todo' = todo \ {img}
          /\ UNCHANGED <<rows, pc, cur>>
    /\ UNCHANGED <<files, drive, bounds>>

InspectDone ==
    /\ pc = "inspect" /\ todo = {}
    /\ At("snapshot")
    /\ UNCHANGED <<rows, files, drive, bounds>>

\* The album must equal its snapshot, the files under way excepted.  An album that
\* went away is retried later, a changed one is a conflict.
CheckSnapshot ==
    /\ pc = "snapshot"
    /\ IF drive = "offline"
       THEN Return
       ELSE IF others = "same" /\ \A img \in Images \ ignored : source[img] = "plan"
            THEN pc' = "loop" /\ todo' = Images /\ UNCHANGED <<cur, ignored>>
            ELSE At("conflict")
    /\ UNCHANGED <<rows, files, drive, bounds>>

\* Mutant of SkipRemoved: a file unlinked just before a crash is not recognised.
SkipRemoved_OnlyRows(img) ==
    /\ pc = "loop" /\ cur = {} /\ img \in todo
    /\ state[img] = "removed"
    /\ IF Exists(quarantine, img) THEN RowConflict(img) ELSE NextFile(img) /\ UNCHANGED rows
    /\ UNCHANGED <<files, drive, bounds>>

\* A file the rows say is gone must not be back in quarantine; one that was being
\* verified and is no longer there has been unlinked.
SkipRemoved(img) ==
    /\ pc = "loop" /\ cur = {} /\ img \in todo
    /\ \/ /\ state[img] = "removed"
          /\ IF Exists(quarantine, img) THEN RowConflict(img) ELSE NextFile(img) /\ UNCHANGED rows
       \/ /\ state[img] = "verifying" /\ ~Exists(quarantine, img)
          /\ SetRow(img, "removed")
          /\ NextFile(img)
    /\ UNCHANGED <<files, drive, bounds>>

\* A file found in quarantine is verified where it is.
ResumeQuarantined(img) ==
    /\ pc = "loop" /\ cur = {} /\ img \in todo
    /\ state[img] # "removed" /\ Exists(quarantine, img)
    /\ pc' = "verify" /\ cur' = {img}
    /\ UNCHANGED <<rows, files, drive, todo, ignored, bounds>>

\* Mutant of Isolate: the row is written only after the rename.
Isolate_RenameFirst(img) ==
    /\ pc = "loop" /\ cur = {} /\ img \in todo
    /\ state[img] \in {"pending", "removing"} /\ ~Exists(quarantine, img)
    /\ IF Exists(source, img)
       THEN pc' = "rename" /\ cur' = {img} /\ UNCHANGED <<rows, todo, ignored>>
       ELSE RowConflict(img)
    /\ UNCHANGED <<files, drive, bounds>>

\* Mutant of Isolate: the row gets a state the table does not know.
Isolate_NewState(img) ==
    /\ pc = "loop" /\ cur = {} /\ img \in todo
    /\ state[img] \in {"pending", "removing"} /\ ~Exists(quarantine, img)
    /\ IF Exists(source, img)
       THEN SetRow(img, "isolating") /\ pc' = "rename" /\ cur' = {img} /\ UNCHANGED <<todo, ignored>>
       ELSE RowConflict(img)
    /\ UNCHANGED <<files, drive, bounds>>

\* Before the rename the row says removing.
Isolate(img) ==
    /\ pc = "loop" /\ cur = {} /\ img \in todo
    /\ state[img] \in {"pending", "removing"} /\ ~Exists(quarantine, img)
    /\ IF Exists(source, img)
       THEN SetRow(img, "removing") /\ pc' = "rename" /\ cur' = {img} /\ UNCHANGED <<todo, ignored>>
       ELSE RowConflict(img)
    /\ UNCHANGED <<files, drive, bounds>>

\* The rename takes whatever is at the original path by now.
Rename(img) ==
    /\ pc = "rename" /\ img \in cur
    /\ IF Exists(source, img)
       THEN /\ quarantine' = [quarantine EXCEPT ![img] = source[img]]
            /\ source' = [source EXCEPT ![img] = "none"]
            /\ At("isolated") /\ UNCHANGED rows
       ELSE RowConflict(img) /\ UNCHANGED <<source, quarantine>>
    /\ UNCHANGED <<others, drive, bounds>>

Isolated(img) ==
    /\ pc = "isolated" /\ img \in cur
    /\ SetRow(img, "verifying")
    /\ At("verify")
    /\ UNCHANGED <<files, drive, bounds>>

\* Mutant of Verify: the quarantined file is not hashed.
Verify_NoHash(img) ==
    /\ pc = "verify" /\ img \in cur
    /\ IF Exists(quarantine, img)
       THEN At("unlink") /\ UNCHANGED rows
       ELSE SetRow(img, "removed") /\ NextFile(img)
    /\ UNCHANGED <<files, drive, bounds>>

\* Size and BLAKE3 of the quarantined file; a file that is no longer there counts
\* as removed, a different one stays in quarantine for the user to look at.
Verify(img) ==
    /\ pc = "verify" /\ img \in cur
    /\ IF Exists(quarantine, img)
       THEN IF quarantine[img] = "plan"
            THEN At("unlink") /\ UNCHANGED rows
            ELSE RowConflict(img)
       ELSE SetRow(img, "removed") /\ NextFile(img)
    /\ UNCHANGED <<files, drive, bounds>>

\* Mutant of Unlink: the original path is removed instead.
Unlink_Original(img) ==
    /\ pc = "unlink" /\ img \in cur
    /\ source' = [source EXCEPT ![img] = "none"]
    /\ quarantine' = [quarantine EXCEPT ![img] = "none"]
    /\ At("unlinked")
    /\ UNCHANGED <<rows, others, drive, bounds>>

Unlink(img) ==
    /\ pc = "unlink" /\ img \in cur
    /\ IF Exists(quarantine, img)
       THEN quarantine' = [quarantine EXCEPT ![img] = "none"] /\ At("unlinked") /\ UNCHANGED rows
       ELSE SetRow(img, "verifying") /\ Return /\ UNCHANGED quarantine
    /\ UNCHANGED <<source, others, drive, bounds>>

Unlinked(img) ==
    /\ pc = "unlinked" /\ img \in cur
    /\ SetRow(img, "removed")
    /\ NextFile(img)
    /\ UNCHANGED <<files, drive, bounds>>

\* Mutant of Finish: the attempt ends as soon as one file is done.
Finish_Early ==
    /\ pc = "loop" /\ cur = {} /\ todo # Images
    /\ tx' = "removed" /\ UNCHANGED state
    /\ Return
    /\ UNCHANGED <<files, drive, bounds>>

\* The caller writes source_files_removed.
Finish ==
    /\ pc = "loop" /\ cur = {} /\ todo = {}
    /\ tx' = "removed" /\ UNCHANGED state
    /\ Return
    /\ UNCHANGED <<files, drive, bounds>>

\* The caller writes conflict, which recovery leaves alone.
GiveUp ==
    /\ pc = "conflict"
    /\ tx' = "conflict" /\ UNCHANGED state
    /\ Return
    /\ UNCHANGED <<files, drive, bounds>>

-----------------------------------------------------------------------------
(***************************************************************************)
(* Faults, and the user at work in the album.                              *)
(***************************************************************************)

\* A crash, or a failed statement that ends the attempt with nothing written.
Crash ==
    /\ pc # "idle" /\ faults < MaxFaults
    /\ faults' = faults + 1
    /\ Return
    /\ UNCHANGED <<rows, files, drive, meddles>>

\* cleanup_retryable: the file is in use, may not be hashed or unlinked, or its
\* directory cannot be synced.  The row keeps the step to resume at.
FileCallFails(img) ==
    /\ img \in cur /\ faults < MaxFaults
    /\ \/ pc = "rename" /\ Exists(source, img) /\ SetRow(img, "removing")
       \/ pc = "isolated" /\ SetRow(img, "removing")
       \/ pc \in {"verify", "unlink", "unlinked"} /\ SetRow(img, "verifying")
    /\ faults' = faults + 1
    /\ Return
    /\ UNCHANGED <<files, drive, meddles>>

Meddle(what) == what \in Meddling /\ meddles < MaxMeddles /\ meddles' = meddles + 1

\* The user edits, replaces, creates or deletes a file at its original path.
EditOriginal(img) ==
    /\ Meddle("original") /\ drive = "online"
    /\ \E content \in {"user", "none"} \ {source[img]} : source' = [source EXCEPT ![img] = content]
    /\ UNCHANGED <<rows, quarantine, others, drive, work, faults>>

\* The user moves a quarantined file back, deletes it or writes to it.
TouchQuarantined(img) ==
    /\ Meddle("quarantine") /\ Exists(quarantine, img)
    /\ \/ /\ source[img] = "none"
          /\ source' = [source EXCEPT ![img] = quarantine[img]]
          /\ quarantine' = [quarantine EXCEPT ![img] = "none"]
       \/ /\ \E content \in {"tampered", "none"} \ {quarantine[img]} :
                 quarantine' = [quarantine EXCEPT ![img] = content]
          /\ UNCHANGED source
    /\ UNCHANGED <<rows, others, drive, work, faults>>

\* The user changes something else in the album.
ChangeOthers ==
    /\ Meddle("others") /\ drive = "online" /\ others = "same"
    /\ others' = "changed"
    /\ UNCHANGED <<rows, source, quarantine, drive, work, faults>>

\* The drive with the source album is unplugged.
Unplug ==
    /\ Meddle("unplug") /\ drive = "online"
    /\ drive' = "offline"
    /\ UNCHANGED <<rows, files, work, faults>>

\* ... and plugged in again.
PlugIn ==
    /\ drive = "offline"
    /\ drive' = "online"
    /\ UNCHANGED <<rows, files, work, bounds>>

CleanupWork ==
    \/ Begin \/ InspectDone \/ CheckSnapshot \/ Finish \/ GiveUp
    \/ \E img \in Images : Inspect(img) \/ SkipRemoved(img) \/ ResumeQuarantined(img)
                           \/ Isolate(img) \/ Rename(img) \/ Isolated(img) \/ Verify(img)
                           \/ Unlink(img) \/ Unlinked(img)

User ==
    \/ ChangeOthers \/ Unplug
    \/ \E img \in Images : EditOriginal(img) \/ TouchQuarantined(img)

CleanupNext ==
    \/ CleanupWork \/ Crash \/ User \/ PlugIn
    \/ \E img \in Images : FileCallFails(img)

CleanupSpec == CleanupInit /\ [][CleanupNext]_cleanupVars

-----------------------------------------------------------------------------
(***************************************************************************)
(* Properties.                                                             *)
(***************************************************************************)

\* What the user wrote to an original path is never destroyed by the program, even
\* if it was written in the very moment the file was being taken away: it stays
\* where it is, or is kept in quarantine.
UserFilesKept ==
    [][meddles' = meddles => \A img \in Images :
           /\ source[img] = "user" => "user" \in {source'[img], quarantine'[img]}
           /\ quarantine[img] = "user" => quarantine'[img] = "user"]_cleanupVars

\* Once a file is isolated, what the user puts in its old place is not even moved.
ReplacementNotMoved ==
    [][meddles' = meddles => \A img \in Images :
           quarantine[img] # "none" => source'[img] = source[img]]_cleanupVars

\* Whatever is in quarantine has a row that recovery will act on: no crash leaves
\* a file under a hidden name that nothing refers to.
QuarantineIsTracked ==
    \A img \in Images : quarantine[img] # "none" => state[img] \in {"removing", "verifying", "conflict"}

\* A transaction reports source_files_removed only when every row says so and
\* nothing is left in quarantine.
ReportsOnlyWhatIsGone ==
    tx = "removed" => \A img \in Images : state[img] = "removed" /\ quarantine[img] = "none"

\* Left to itself the removal never needs manual resolution, however it is
\* interrupted.
NeverConflictsByItself == meddles = 0 => tx # "conflict"

\* A worker goes on, and the transaction is recovered as long as it is listed.
FairCleanupSpec == CleanupSpec /\ WF_cleanupVars(CleanupWork) /\ WF_cleanupVars(PlugIn)

\* Interrupted or unplugged, a removal is taken up again and comes to an end; where
\* the user does nothing, NeverConflictsByItself says which.
RemovalEnds == <>[](tx # "removing")

-----------------------------------------------------------------------------
\* The inductive invariant: what a step of the loop may rely on.
FileSteps == {"rename", "isolated", "verify", "unlink", "unlinked"}

WorkInv ==
    /\ cur \subseteq todo /\ \A a, b \in cur : a = b
    /\ pc \in {"idle", "inspect", "snapshot"} => cur = {}
    /\ tx # "removing" => pc = "idle"
    /\ pc \in FileSteps \cup {"loop"} => \A img \in Images \ todo : state[img] = "removed"
    /\ pc = "inspect" => \A img \in Images \ todo : state[img] # "conflict"
    /\ pc \in FileSteps \cup {"snapshot", "loop"} => \A img \in Images : state[img] # "conflict"

FileInv ==
    /\ \A img \in Images : state[img] = "pending" => quarantine[img] = "none"
    /\ \A img \in cur :
           /\ pc \in {"rename", "isolated"} => state[img] = "removing"
           /\ pc \in {"verify", "unlink", "unlinked"} => state[img] \in {"removing", "verifying"}
           /\ pc \in {"rename", "unlinked"} => quarantine[img] = "none"
           /\ pc = "unlink" => quarantine[img] # "user"

\* An unplugged drive makes a file in quarantine look unlinked; hence the condition.
TrackingInv ==
    "unplug" \notin Meddling =>
        drive = "online" /\ QuarantineIsTracked /\ ReportsOnlyWhatIsGone

CleanupInv == CleanupTypeOK /\ WorkInv /\ FileInv /\ TrackingInv
=============================================================================
