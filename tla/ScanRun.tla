------------------------------- MODULE ScanRun -------------------------------
(***************************************************************************)
(* The analysis of one import run (run_scan_inner): albums are snapshotted, *)
(* verified, fingerprinted, compared and checkpointed one by one, with a    *)
(* cancel, an error, a crash or a change of the source possible between any *)
(* two steps, and resume, retry and abandon afterwards.                     *)
(*                                                                         *)
(* A file is its content under its path: a user's edit removes files from a *)
(* directory and adds others.  Identifiers are the random UUIDs of the      *)
(* image rows: any order is possible, and one is free again when no row and *)
(* no candidate mentions it.                                                *)
(***************************************************************************)
EXTENDS Naturals, FiniteSets

CONSTANTS
    Albums,      \* the directories under the source root
    Files,       \* the image files that may be in them
    Keys,        \* values of the exact keys: (size, BLAKE3) and pixel hash
    KeysOf,      \* the exact keys of each file, none if it cannot be decoded
    Doubtful,    \* files that resemble a library image: a person has to decide
    InitialDisk, \* the files of each album in the beginning
    Ids,         \* identifiers of image rows
    NoSnapshot,  \* no source_album_snapshots row
    Gone,        \* the directory of an album does not exist
    MaxCancels, MaxFaults, MaxEdits

ASSUME ScanAssumption ==
    /\ Albums # {} /\ IsFiniteSet(Albums)
    /\ IsFiniteSet(Files) /\ Doubtful \subseteq Files
    /\ \A x \in Files : KeysOf[x] \subseteq Keys
    /\ InitialDisk \in [Albums -> SUBSET Files]
    /\ Ids \subseteq Nat
    /\ \A F \in SUBSET Files : F # NoSnapshot /\ F # Gone
    /\ MaxCancels \in Nat /\ MaxFaults \in Nat /\ MaxEdits \in Nat

VARIABLES
    run,         \* import_runs.state, "none" before the first scan
    album,       \* import_albums.state of each album, "none" without a row
    snapshot,    \* the files source_album_snapshots has for each album
    images,      \* import_images: id, album, file, and was it decoded?
    candidates,  \* duplicate_candidates, each as the ids it joins; a single id
                 \* is an undecided candidate with a library image
    disk,        \* the files now under each album's directory
    pc,          \* the step the scan takes next, "idle" without a scan
    todo,        \* album rows the scan has read and not come to yet
    current,     \* the album being analyzed
    walked,      \* the files its enumeration found
    index,       \* RunExactRepresentativeIndex: the rows it was fed
    cancel,      \* the scan's cancellation flag
    cancels, faults, edits

rows   == <<run, album, snapshot, images, candidates>>
memory == <<todo, current, walked, index>>
bounds == <<cancels, faults, edits>>
vars   == <<rows, disk, pc, memory, cancel, bounds>>

RunStates   == {"none", "analyzing", "cancelled", "failed", "review_required",
                "ready_to_commit", "completed", "abandoned"}
AlbumStates == {"none", "pending", "analyzing", "analyzed", "review_required", "failed"}
Steps == {"idle", "stale", "reopen", "enumerate", "insert", "load", "next", "snapshot",
          "verify", "walk", "print", "detect", "finalize", "group", "close"}
ImageRows == [id : Ids, album : Albums, file : Files, ok : BOOLEAN]

Unfinished == {"pending", "analyzing"}
Finished(a) == album[a] \in {"analyzed", "review_required"}

ScanTypeOK ==
    /\ run \in RunStates
    /\ album \in [Albums -> AlbumStates]
    /\ snapshot \in [Albums -> {NoSnapshot} \cup SUBSET Files]
    /\ images \subseteq ImageRows
    /\ candidates \subseteq SUBSET Ids
    /\ disk \in [Albums -> {Gone} \cup SUBSET Files]
    /\ pc \in Steps
    /\ todo \subseteq Albums /\ current \in Albums /\ walked \subseteq Files
    /\ index \subseteq ImageRows
    /\ cancel \in BOOLEAN
    /\ cancels \in 0..MaxCancels /\ faults \in 0..MaxFaults /\ edits \in 0..MaxEdits

Init ==
    /\ run = "none" /\ album = [a \in Albums |-> "none"]
    /\ snapshot = [a \in Albums |-> NoSnapshot]
    /\ images = {} /\ candidates = {}
    /\ disk = InitialDisk
    /\ pc = "idle" /\ todo = {} /\ walked = {} /\ index = {}
    /\ current = CHOOSE a \in Albums : TRUE
    /\ cancel = FALSE /\ cancels = 0 /\ faults = 0 /\ edits = 0

SetAlbum(a, s) == album' = [album EXCEPT ![a] = s]
RowsOf(A) == {i \in images : i.album \in A}
IdsOf(I) == {i.id : i \in I}
ExactKeys(i) == IF i.ok THEN KeysOf[i.file] ELSE {}

\* Something fails that the program does not cause; where it does not, the guard
\* of the action is its ordinary outcome.
Fault == faults < MaxFaults /\ faults' = faults + 1

-----------------------------------------------------------------------------
(***************************************************************************)
(* The commands: start, resume, cancel, retry an album, abandon the run.   *)
(* All but cancel refuse while a scan is active, under the mutex of         *)
(* scan_state.                                                              *)
(***************************************************************************)

StartScan ==
    /\ pc = "idle" /\ run = "none"
    /\ run' = "analyzing" /\ pc' = "enumerate" /\ cancel' = FALSE
    /\ UNCHANGED <<album, snapshot, images, candidates, disk, memory, bounds>>

ResumeScan ==
    /\ pc = "idle" /\ run \in {"analyzing", "cancelled", "failed"}
    /\ pc' = "stale" /\ cancel' = FALSE
    /\ UNCHANGED <<rows, disk, memory, bounds>>

CancelScan ==
    /\ pc # "idle" /\ ~cancel /\ cancels < MaxCancels
    /\ cancel' = TRUE /\ cancels' = cancels + 1
    /\ UNCHANGED <<rows, disk, pc, memory, faults, edits>>

\* Mutant of ResetAlbums: the candidates that only point at the album stay.
ResetAlbums_OwnCandidates(A) ==
    /\ images' = images \ RowsOf(A) /\ UNCHANGED candidates
    /\ album' = [a \in Albums |-> IF a \in A THEN "pending" ELSE album[a]]

\* An album starts anew: its image rows go, with every candidate that mentions
\* one of them on either side.  Its snapshot stays.
ResetAlbums(A) ==
    /\ images' = images \ RowsOf(A)
    /\ candidates' = {c \in candidates : c \cap IdsOf(RowsOf(A)) = {}}
    /\ album' = [a \in Albums |-> IF a \in A THEN "pending" ELSE album[a]]

RetryAlbum(a) ==
    /\ pc = "idle" /\ album[a] = "failed"
    /\ ResetAlbums({a})
    /\ UNCHANGED <<run, snapshot, disk, pc, memory, cancel, bounds>>

\* Without a plan or a transaction, which only a finished analysis has.
AbandonRun ==
    /\ pc = "idle" /\ run \in {"analyzing", "cancelled", "failed"}
    /\ run' = "abandoned"
    /\ UNCHANGED <<album, snapshot, images, candidates, disk, pc, memory, cancel, bounds>>

-----------------------------------------------------------------------------
(***************************************************************************)
(* Before the album loop.                                                  *)
(***************************************************************************)

\* mark_stale_analyzing_albums, one transaction.
ClearStale ==
    /\ pc = "stale"
    /\ ResetAlbums({a \in Albums : album[a] = "analyzing"})
    /\ pc' = "reopen"
    /\ UNCHANGED <<run, snapshot, disk, memory, cancel, bounds>>

Reopen ==
    /\ pc = "reopen"
    /\ run' = "analyzing" /\ pc' = "enumerate"
    /\ UNCHANGED <<album, snapshot, images, candidates, disk, memory, cancel, bounds>>

SourceAlbums == {a \in Albums : disk[a] # Gone}

\* The directories under the root; a flag that is set ends the walk as an error,
\* and an error makes the run failed.
Enumerate ==
    /\ pc = "enumerate"
    /\ \/ /\ todo' = SourceAlbums
          /\ pc' = "insert" /\ UNCHANGED <<run, faults>>
       \/ /\ (cancel /\ UNCHANGED faults) \/ Fault
          /\ run' = "failed" /\ pc' = "idle" /\ UNCHANGED todo
    /\ UNCHANGED <<album, snapshot, images, candidates, disk, current, walked, index,
                   cancel, cancels, edits>>

\* One row for each album that has none; a failed insert leaves the others.
InsertAlbums ==
    /\ pc = "insert"
    /\ LET missing == {a \in todo : album[a] = "none"} IN
       IF todo = {} /\ \A a \in Albums : album[a] = "none"
       THEN run' = "completed" /\ pc' = "idle" /\ UNCHANGED <<album, faults>>
       ELSE \E A \in SUBSET missing :
              /\ album' = [a \in Albums |-> IF a \in A THEN "pending" ELSE album[a]]
              /\ IF A = missing THEN run' = "analyzing" /\ pc' = "load" /\ UNCHANGED faults
                                ELSE pc' = "idle" /\ Fault /\ UNCHANGED run
    /\ UNCHANGED <<snapshot, images, candidates, disk, memory, cancel, cancels, edits>>

\* Mutant of LoadRun: finished albums are analyzed once more.
LoadRun_AllAlbums ==
    /\ pc = "load"
    /\ index' = {i \in images : Finished(i.album) /\ i.ok}
    /\ todo' = {a \in Albums : album[a] \in Unfinished \cup {"analyzed"}}
    /\ pc' = "next"
    /\ UNCHANGED <<rows, disk, current, walked, cancel, bounds>>

\* Mutant of LoadRun: a resumed scan starts with an empty index.
LoadRun_EmptyIndex ==
    /\ pc = "load"
    /\ index' = {}
    /\ todo' = {a \in Albums : album[a] \in Unfinished}
    /\ pc' = "next"
    /\ UNCHANGED <<rows, disk, current, walked, cancel, bounds>>

\* The representatives of the finished albums, and the albums to analyze.
LoadRun ==
    /\ pc = "load"
    /\ index' = {i \in images : Finished(i.album) /\ i.ok}
    /\ todo' = {a \in Albums : album[a] \in Unfinished}
    /\ pc' = "next"
    /\ UNCHANGED <<rows, disk, current, walked, cancel, bounds>>

-----------------------------------------------------------------------------
(***************************************************************************)
(* The album loop.  An error of an analysis step fails the album and the   *)
(* loop goes on; a cancellation leaves the album analyzing and ends it.    *)
(***************************************************************************)

NextAlbum ==
    /\ pc = "next"
    /\ IF cancel \/ todo = {}
       THEN pc' = "group" /\ UNCHANGED <<album, todo, current>>
       ELSE \E a \in todo :
              /\ todo' = todo \ {a} /\ current' = a
              /\ SetAlbum(a, "analyzing")
              /\ pc' = "snapshot"
    /\ UNCHANGED <<run, snapshot, images, candidates, disk, walked, index, cancel, bounds>>

FailAlbum == SetAlbum(current, "failed") /\ pc' = "next"
StopLoop  == cancel /\ pc' = "group" /\ UNCHANGED <<album, faults>>

\* Mutant of CaptureSnapshot: the snapshot of an earlier attempt is inserted again,
\* against the unique album of source_album_snapshots.
CaptureSnapshot_InsertsAgain ==
    /\ pc = "snapshot"
    /\ \/ /\ snapshot[current] = NoSnapshot /\ disk[current] # Gone
          /\ snapshot' = [snapshot EXCEPT ![current] = disk[current]]
          /\ pc' = "verify" /\ UNCHANGED <<album, faults>>
       \/ snapshot[current] # NoSnapshot /\ FailAlbum /\ UNCHANGED <<snapshot, faults>>
    /\ UNCHANGED <<run, images, candidates, disk, memory, cancel, cancels, edits>>

\* capture_source_album_snapshot: an existing snapshot is never replaced.
CaptureSnapshot ==
    /\ pc = "snapshot"
    /\ \/ /\ snapshot[current] # NoSnapshot
          /\ pc' = "verify" /\ UNCHANGED <<album, snapshot, faults>>
       \/ /\ snapshot[current] = NoSnapshot /\ disk[current] # Gone
          /\ snapshot' = [snapshot EXCEPT ![current] = disk[current]]
          /\ pc' = "verify" /\ UNCHANGED <<album, faults>>
       \/ /\ ~cancel /\ FailAlbum /\ UNCHANGED snapshot
          /\ (snapshot[current] = NoSnapshot /\ disk[current] = Gone /\ UNCHANGED faults) \/ Fault
       \/ StopLoop /\ UNCHANGED snapshot
    /\ UNCHANGED <<run, images, candidates, disk, memory, cancel, cancels, edits>>

\* Structure and content of the album against the snapshot.
SnapshotMatches == disk[current] = snapshot[current]

VerifySnapshot ==
    /\ pc = "verify"
    /\ \/ /\ SnapshotMatches
          /\ pc' = "walk" /\ UNCHANGED <<album, faults>>
       \/ /\ FailAlbum
          /\ (~SnapshotMatches /\ UNCHANGED faults) \/ (~cancel /\ Fault)
       \/ StopLoop
    /\ UNCHANGED <<run, snapshot, images, candidates, disk, memory, cancel, cancels, edits>>

\* The second enumeration, after the snapshot was verified.  A flag that is set
\* ends it as an error, and every error here fails the album.
WalkAlbum ==
    /\ pc = "walk"
    /\ \/ /\ disk[current] # Gone
          /\ walked' = disk[current] /\ pc' = "print" /\ UNCHANGED <<album, faults>>
       \/ /\ ((cancel \/ disk[current] = Gone) /\ UNCHANGED faults) \/ Fault
          /\ FailAlbum /\ UNCHANGED walked
    /\ UNCHANGED <<run, snapshot, images, candidates, disk, todo, current, index,
                   cancel, cancels, edits>>

\* fingerprint_scanned_image reads the file once more; the row is there either way.
Decodes(f) == disk[current] # Gone /\ f \in disk[current]
RowOf(f, id) == [id |-> id, album |-> current, file |-> f, ok |-> Decodes(f)]

FreeIds == Ids \ (IdsOf(images) \cup (UNION candidates) \cup IdsOf(index))

\* The fingerprint jobs, then one insert for all their rows; a cancellation
\* leaves out the jobs it aborts.  A file that is gone or damaged by now is a row
\* without fingerprints.
Fingerprint ==
    /\ pc = "print"
    /\ \E F \in SUBSET walked :
         /\ F = walked \/ cancel
         /\ \E id \in [F -> FreeIds] :
              /\ \A f, g \in F : id[f] = id[g] => f = g
              /\ images' = images \cup {RowOf(f, id[f]) : f \in F}
    /\ pc' = "detect" /\ walked' = {}
    /\ UNCHANGED <<run, album, snapshot, candidates, disk, todo, current, index, cancel, bounds>>

LowestId(I) == CHOOSE i \in I : \A j \in I : i.id <= j.id

\* insert_exact_star for one key: the rows I of the album that have it and the
\* run's representative of it, each joined to the one of lowest id.
Star(I, k) ==
    LET own     == {i \in I : k \in ExactKeys(i)}
        prior   == {i \in index : k \in ExactKeys(i)}
        members == own \cup (IF prior = {} THEN {} ELSE {LowestId(prior)})
    IN  IF own = {} THEN {}
        ELSE {{m.id, LowestId(members).id} : m \in members \ {LowestId(members)}}

\* classify_perceptual: near enough to an image of the library to ask the user.
Resembles(i) == i.ok /\ i.file \in Doubtful
Doubts(I) == {{i.id} : i \in {j \in I : Resembles(j)}}

\* detect_album_duplicates on the rows I of an album.  (Perceptual candidates
\* between two images of one album are left out; they would join ids as the exact
\* ones do, undecided.)
Detected(I) ==
    (UNION {Star(I, k) : k \in Keys}) \cup Doubts(I)

\* One upsert for all candidates, none when the flag is seen first.
DetectDuplicates ==
    /\ pc = "detect"
    /\ LET write == candidates' = candidates \cup Detected(RowsOf({current})) IN
       \/ write /\ pc' = "finalize" /\ UNCHANGED <<album, faults>>
       \/ (write \/ UNCHANGED candidates) /\ Fault /\ FailAlbum
       \/ StopLoop /\ UNCHANGED candidates
    /\ UNCHANGED <<run, snapshot, images, disk, memory, cancel, cancels, edits>>

HasUndecided(a) == \E i \in RowsOf({a}) : {i.id} \in candidates

\* finalize_import_album_analysis and add_album, unless the flag is set by now.
FinalizeAlbum ==
    /\ pc = "finalize"
    /\ IF cancel
       THEN pc' = "group" /\ UNCHANGED <<album, index>>
       ELSE /\ SetAlbum(current, IF HasUndecided(current) THEN "review_required" ELSE "analyzed")
            /\ index' = index \cup {i \in RowsOf({current}) : i.ok}
            /\ pc' = "next"
    /\ UNCHANGED <<run, snapshot, images, candidates, disk, todo, current, walked, cancel, bounds>>

-----------------------------------------------------------------------------
(***************************************************************************)
(* After the loop.                                                         *)
(***************************************************************************)

\* Are two ids joined by a path of the candidates in C?
Linked(C, x, y) ==
    \A S \in SUBSET Ids : (x \in S /\ \A c \in C : c \cap S # {} => c \subseteq S) => y \in S

AllFinished == \A a \in Albums : album[a] \in {"none", "analyzed", "review_required"}

\* An album with an image in the group of an undecided candidate.
InManualGroup(a) ==
    \E i \in RowsOf({a}), j \in images : {j.id} \in candidates /\ Linked(candidates, i.id, j.id)

\* materialize_review_groups, once all albums are finished; its groups decide
\* which albums wait for review.
GroupDuplicates ==
    /\ pc = "group"
    /\ album' = IF AllFinished
                THEN [a \in Albums |-> IF ~Finished(a) THEN album[a]
                                       ELSE IF InManualGroup(a) THEN "review_required" ELSE "analyzed"]
                ELSE album
    /\ pc' = "close"
    /\ UNCHANGED <<run, snapshot, images, candidates, disk, memory, cancel, bounds>>

\* Mutant of CloseState: a cancelled scan leaves a cancelled run.
CloseState_Cancelled ==
    IF cancel THEN "cancelled"
    ELSE IF \E a \in Albums : album[a] \in Unfinished \cup {"failed"} THEN "failed"
    ELSE IF \E i \in Ids : {i} \in candidates THEN "review_required" ELSE "ready_to_commit"

\* Mutant of CloseState: the run gets the state of its albums.
CloseState_OfAlbums ==
    IF \A a \in Albums : Finished(a) THEN "analyzed" ELSE "failed"

\* scan_run_state_from_facts after a cancellation, and its counterpart without.
CloseState ==
    CASE \E a \in Albums : album[a] \in Unfinished -> IF cancel THEN "cancelled" ELSE "failed"
      [] (\A a \in Albums : album[a] \notin Unfinished) /\ (\E a \in Albums : album[a] = "failed") -> "failed"
      [] OTHER -> IF \E i \in Ids : {i} \in candidates THEN "review_required" ELSE "ready_to_commit"

CloseScan ==
    /\ pc = "close"
    /\ run' = CloseState /\ pc' = "idle"
    /\ UNCHANGED <<album, snapshot, images, candidates, disk, memory, cancel, bounds>>

-----------------------------------------------------------------------------
(***************************************************************************)
(* The world around.                                                       *)
(***************************************************************************)

\* A statement fails and leaves the scan by ?, or the program stops.
ScanStops ==
    /\ pc # "idle" /\ Fault
    /\ pc' = "idle" /\ index' = {} /\ todo' = {} /\ walked' = {}
    /\ UNCHANGED <<rows, disk, current, cancel, cancels, edits>>

\* The user adds or removes a file, or takes the whole directory away.
EditSource(a) ==
    /\ edits < MaxEdits /\ edits' = edits + 1
    /\ disk[a] # Gone
    /\ \E x \in {disk[a] \cup {y} : y \in Files} \cup {disk[a] \ {y} : y \in Files} \cup {Gone} :
          x # disk[a] /\ disk' = [disk EXCEPT ![a] = x]
    /\ UNCHANGED <<rows, pc, memory, cancel, cancels, faults>>

ScanStep ==
    \/ ClearStale \/ Reopen \/ Enumerate \/ InsertAlbums \/ LoadRun
    \/ NextAlbum \/ CaptureSnapshot \/ VerifySnapshot \/ WalkAlbum \/ Fingerprint
    \/ DetectDuplicates \/ FinalizeAlbum \/ GroupDuplicates \/ CloseScan

Next ==
    \/ ScanStep \/ ScanStops
    \/ StartScan \/ ResumeScan \/ CancelScan \/ AbandonRun
    \/ \E a \in Albums : RetryAlbum(a) \/ EditSource(a)

Spec == Init /\ [][Next]_vars

\* A scan runs to its end, and the user retries what failed and resumes a run
\* that has something left to do.
Fairness ==
    /\ WF_vars(ScanStep)
    /\ WF_vars(StartScan)
    /\ \A a \in Albums : SF_vars(RetryAlbum(a))
    /\ SF_vars((\A a \in Albums : album[a] # "failed") /\ ResumeScan)

FairSpec == Spec /\ Fairness

-----------------------------------------------------------------------------
(***************************************************************************)
(* Properties.                                                             *)
(***************************************************************************)

FinishedRows == {i \in images : Finished(i.album)}

\* Two images of analyzed albums that are equal in an exact key are joined by
\* candidates among analyzed albums: whatever was cancelled, resumed or retried
\* in between, they come to one review group (RunExactRepresentativeIndex and its
\* reload, the reset of stale and failed albums).
ExactDuplicatesLinked ==
    LET among == {c \in candidates : c \subseteq IdsOf(FinishedRows)} IN
    \A i, j \in FinishedRows :
        ExactKeys(i) \cap ExactKeys(j) # {} => Linked(among, i.id, j.id)

\* An analyzed album has one row for each file, for exactly the files of its
\* snapshot as long as nobody edits the source, and candidates join rows that
\* exist: nothing of an interrupted or failed attempt is left in it.
NoLeftovers ==
    /\ \A i, j \in FinishedRows : i.album = j.album /\ i.file = j.file => i = j
    /\ edits = 0 => \A a \in Albums : Finished(a) =>
           {i.file : i \in RowsOf({a})} = snapshot[a]
    /\ UNION candidates \subseteq IdsOf(images)

\* The review and the commit page take up a run only when each of its albums is
\* analyzed, and it counts as cancelled only while albums are left to analyze: a
\* cancel that comes after the last checkpoint does not strand it
\* (reconcile_scan_run_state_after_cancellation).
RunStateMatchesAlbums ==
    /\ run \in {"ready_to_commit", "review_required"} => AllFinished
    /\ run = "cancelled" => \E a \in Albums : album[a] \in Unfinished

\* A checkpoint is final: an analyzed album keeps its rows through every later
\* cancel, crash, resume and retry.
CheckpointsKept ==
    [][\A a \in Albums : Finished(a) => Finished(a)' /\ RowsOf({a})' = RowsOf({a})]_vars

\* A source nobody edits gets analyzed: cancels, errors and crashes only delay it.
AnalysisEnds ==
    <>(run \in {"ready_to_commit", "review_required", "completed", "abandoned"} \/ edits > 0)

-----------------------------------------------------------------------------
(***************************************************************************)
(* The inductive invariant.                                                *)
(***************************************************************************)

\* The album loop is at work on the current album.
Looping == {"snapshot", "verify", "walk", "print", "detect", "finalize"}

\* Where the scan is tells the state of the run and of its albums.
StepInv ==
    /\ run = "none" => pc = "idle" /\ \A a \in Albums : album[a] = "none"
    /\ pc # "idle" => run \in {"analyzing", "cancelled", "failed"}
    /\ pc \notin {"idle", "stale", "reopen"} => run = "analyzing"
    /\ pc \in {"reopen", "enumerate", "insert", "load", "next"} =>
           \A a \in Albums : album[a] # "analyzing"
    /\ pc \in Looping =>
           album[current] = "analyzing" /\ \A a \in Albums : album[a] = "analyzing" => a = current
    /\ pc \in Looping \cup {"next"} => \A a \in todo : album[a] = "pending"

\* Rows have an identifier and a file of their own, an album has none before it
\* is analyzed, and candidates join rows.
RowInv ==
    /\ \A i, j \in images : i.id = j.id => i = j
    /\ \A i, j \in images : i.album = j.album /\ i.file = j.file => i = j
    /\ \A i \in images : album[i.album] \notin {"none", "pending"}
    /\ pc \in {"snapshot", "verify", "walk", "print"} => \A i \in images : i.album # current
    /\ \A c \in candidates : \A x \in c : \E i \in images : i.id = x

\* The files image rows of album a stand for.
FilesOf(a) == {i.file : i \in {j \in images : j.album = a}}

\* As long as nobody edits the source, what is walked is what was snapshotted.
FileInv ==
    edits = 0 =>
        /\ \A a \in Albums : Finished(a) => FilesOf(a) = snapshot[a]
        /\ pc = "walk" => disk[current] = snapshot[current]
        /\ pc = "print" => walked = snapshot[current]
        /\ pc \in {"detect", "finalize"} /\ ~cancel => FilesOf(current) = snapshot[current]

\* The index holds readable rows of analyzed albums, all of them during the loop.
IndexInv ==
    /\ \A i \in index : i \in images /\ i.ok /\ Finished(i.album)
    /\ pc \in Looping \cup {"next"} => \A i \in images : i.ok /\ Finished(i.album) => i \in index

\* The candidates of an album are written before it becomes a checkpoint.
WrittenInv == pc = "finalize" => Detected(RowsOf({current})) \subseteq candidates

ScanInv ==
    /\ ScanTypeOK /\ StepInv /\ RowInv /\ FileInv /\ IndexInv /\ WrittenInv
    /\ RunStateMatchesAlbums /\ ExactDuplicatesLinked
=============================================================================
