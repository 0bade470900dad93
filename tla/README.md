# ImageDB in TLA+

ImageDB is a desktop program (Tauri, Rust back end in `src/apps/desktop/src-tauri`) that
imports image albums into a library: it scans a source folder, finds duplicates, lets the
user review them, freezes an import plan, and commits the plan album by album. The commit
moves user data between three places that share no transaction: the source album, the
library root on some local or mounted drive, and PostgreSQL, which the program either runs
itself or shares with other machines. This project models the protocols in which that can
go wrong.

Paths below are relative to `src/apps/desktop/src-tauri/src` unless they start with `src/`.

## The system

| Component | State it keeps | Operations | Talks to |
|---|---|---|---|
| Album commit (`services/commit_service.rs`) | `file_transactions`, `file_operations` rows; `<root>/.imagedb/staging/<tx>`; `<root>/Albums/<album>`; archive of the source | prewrite, stage, verify, write manifest, publish (rename, or copy and marker), insert library rows, archive or remove the source, clean up | database row by row, file system call by call, library-root lease |
| Recovery (`services/recovery_service.rs`) | the same rows and files | one resume function per persisted transaction state | asked for by the operator, per transaction; takes the same lease |
| Source removal (`remove_selected_source_files`) | `source_file_cleanup_operations`; hidden quarantine files beside the originals | inspect, compare snapshot, rename, hash, unlink | commit and recovery in move mode; the user, who works in the same directory |
| Library-root lease (`repositories/import_repository.rs` 657-753) | one row per root: owner, token, expiry | acquire, heartbeat, release | commit and recovery |
| Import run and reconciliation (`reconcile_import_run_state`) | `import_runs.state`, `import_plans.state` | completion, recovery_required, cancel, abandon, reopen | after every album and every recovery |
| Scan (`services/scan_service.rs`) | `import_albums`, `import_images`, snapshots, candidates, the run's representative index | start, resume, cancel, retry an album, abandon | snapshot, fingerprint index, duplicate detection |
| Source album snapshot (`services/source_snapshot_service.rs`) | `source_album_snapshots` | capture, verify | scan, commit, source removal |
| Duplicate detection (`domain/duplicate_group.rs`, `infrastructure/image_fingerprint_v2.rs`) | `duplicate_candidates`, `review_groups` | exact stars, perceptual matches, build groups, choose the kept image | scan, review |
| Review and plan freeze (`services/review_service.rs`) | decisions, draft and frozen plans, plan hash | decide a group, generate, edit, freeze, abandon | scan (which goes on materializing groups), commit (expected plan hash) |
| Library fingerprint index (`infrastructure/library_fingerprint_index.rs`) | in-memory index of library images | load, extend after commit, drop after recovery, reset or switch | scan, commit, recovery, database commands |
| Task guard and operation lock (`state.rs`, `infrastructure/postgres/operation_lock.rs`) | running tasks, one exclusive operation; an advisory lock per database | begin task, migration, operation; shared and exclusive lock | every long command, every other machine |
| External profiles and migration (`services/database_service.rs`, `infrastructure/postgres/external.rs`) | settings, active profile | switch, get_state, dump, import, compare, switch | guard, lock, index |
| Reset and schema upgrade (`infrastructure/postgres/migration.rs`) | the schema | reset history, run pending migrations | lock, transactions, leases |
| Managed cluster (`infrastructure/postgres/manager.rs`) | data and staging directory, credentials, postmaster | initialize, hand over, discard, start, shut down | initdb and pg_ctl, which outlive a crash |
| Storage probe (`infrastructure/storage_capabilities.rs`) | cached verdict on the library root | probe | chooses the publish strategy |
| Single-instance lock (`infrastructure/single_instance.rs`) | one lock file | take at launch | held until the process ends |
| Library browsing, diagnostics, settings | queries, reports, preference files | | |
| React front end (`src/apps/desktop/src`) | pages over the command interface | | all commands |

What is hard here: a crash, a cancellation or an I/O error may fall between any database
statement and any file call, and state is persisted so that recovery can go on from each of
these points; recovery and commit are two different programs for the same protocol, and
recovery decides on a row it read before it was alone; the user and other programs work in
the same directories, and drives come and go; a scan goes on while its findings are
reviewed; a scan that is resumed must find what it would have found in one go; other
machines work on the database that this one resets. `PROJECT.json` lists these hazards at
their lines, with the properties about each.

What makes the components correct:

* commit and recovery: the library rows appear only for a complete, sealed album; the
  source is disposed of only afterwards; no step destroys the last good copy of an image; a
  finished transaction stays finished; an interrupted one can be brought to its end;
* source removal: nothing the user wrote is destroyed, nothing is left in quarantine
  untracked, the report is true, an interrupted removal comes to an end;
* lease and run: one writer per library root; a run is completed only when all its albums
  are in the library; a run that was ended has nothing left to recover; it settles;
* scan: equal images are linked however often the scan was interrupted; finished albums stay
  finished and hold exactly one row per file; the run's state is what its albums say;
* review: a run is ready only when every group, in its final extent, was reviewed; what a
  person decided survives regrouping; commit takes up the plan the person saw;
* index: complete and of the right database whenever a scan compares with it;
* guard, lock, reset, migration: no reset under a task; what was recorded before a migration
  compared the two databases is in the one it switches to;
* cluster: the password fits, data that was used is never discarded, the cluster comes up.

## Modules

| Module | Models | Uses |
|---|---|---|
| `AlbumImport` | the promise: what the user sees of the import of one album | |
| `FileTransaction` | `commit_single_album`, `recover_active_transaction` and its resume functions, one statement or file call per step | refines `AlbumImport` |
| `FileTransactionInv` | the inductive invariant of `FileTransaction` | `FileTransaction` |
| `SourceCleanup` | `remove_selected_source_files`, the refinement in time of the one step `RemoveSource` | |
| `RecoveryRace` | `FileTransaction` with the read of the row and the dispatch on it taken apart | composes with `FileTransaction` |
| `ImportRun` | the commit of a whole run beside recoveries: album loop, lease, reconciliation, fingerprint index | an album's transaction as coarse as the run sees it |
| `ScanRun` | `run_scan_inner`, its commands, snapshots, duplicate detection | |
| `PlanReview` | groups, decisions, plan, against a scan that goes on | the scan as far as the review sees it |
| `ManagedCluster` | `PostgresManager::initialize` over launches and crashes | |
| `DatabaseControl` | guard, advisory lock, reset, switch, migration on several machines | a task or a command as what it records |
| `*_proofs` | theorems and proofs about the module of the name | |
| `MC*` | model values and small instances for TLC | |

Operators named `<Name>_<Variant>` are wrong versions of `<Name>`, as a plausible bug would
have it. The specification never uses them; each property is known to be violated with one
of them in place (`PROJECT.json`, "mutants").

### FileTransaction

One transaction, from the frozen plan to its terminal state.

* Rows: `txState` (`TransactionState`), `opState` per image, `manifestHash`, `record` (the
  `library_albums` and `library_images` rows, which are inserted in one database
  transaction), `plan`.
* Files: `staging`, `staged`, `stagedManifest`; `targetDir`, `target`, `targetManifest`,
  `targetMarker`, `targetExtra`; `sourceDir`, `source`; `archiveDir`, `archive`. The content
  of a file is `"good"` (the hash the plan froze), `"bad"` or `"absent"`.
* The worker: `pc` names the call it makes next, `worker` whether it is a commit or a
  recovery, `todo` and `cur` the images of the loop it is in.

An action is one statement or call with everything up to the next one. The actions follow
the order of the code: `CommitStart` (prewrite), the staging loop, `VerifyStaging`,
`WriteManifest`, `SaveHash`, `EnterPublishing`, `PublishPrecheck`, then `StrongRename` or
`ConservativeMkdir`, `PublishFile`, `PublishManifest`, then `WriteMarker`, `RemoveStaging`,
`Announce`, the record steps, and the archive or the removal. `Resume(state)` is the
dispatch of recovery; its `Recover...` actions place the worker at the step where the
resume function starts, and steps shared by both programs branch on `worker` where the two
programs differ (for example: after a failed database commit, commit writes `published`
back and recovery does not; commit never hashes what it has published and recovery does).

`Interrupt` removes the worker at any step. It stands for a crash, a cancellation between
files and every call whose error is passed up with `?`; calls with a failure path of their
own have actions of their own (`CopyMismatch`, `DbCommitFails`, `CleanupFails`, ...).

The outside world (`Meddling`) edits, deletes and restores source files and moves the
source album, at any time; puts foreign files into the target directory, at any time; and
loses or damages staged or published files while no worker runs. Damage *while* a worker
runs would defeat any check-then-act sequence and says nothing about this code.

Abstracted: the removal of a directory tree is one step; `.part` files, `fsync`, symlink
checks and path validation are left out; the comparison of the manifest with every frozen
field is "our manifest is there"; the snapshot of the source album is the planned images
(any other change of the album is an image turning `"bad"`); the archive path holds the
transaction's id, so it never exists before; `staging_path.parent()`, which for a nested
album is not the transaction's own staging root, counts as that root; the storage preflight
of recovery writes the state that is already there and is a step only in `RecoveryRace`.

### SourceCleanup

The state of each row, the content at the original and at the quarantine path
(`"plan"`, `"user"`, `"tampered"`, `"none"`), `others` for the rest of the album (the
snapshot comparison), `drive`, and the position in the call. The user edits originals,
moves files out of quarantine, deletes or overwrites them there, changes the rest of the
album, unplugs the drive. `Exists` answers like `cleanup_path_exists`: on a drive that is
gone nothing exists. A file the user overwrites *inside* the quarantine between the hash
and the unlink is lost; `UserFilesKept` does not promise otherwise. Rows that migration
0017 found without a quarantine path, and rows that do not match the plan, are left out.

### RecoveryRace

`recover_transaction_with_client` reads the row, then checks plan, evidence and storage,
then takes the lease, and dispatches on the state it read first. `seen` is what one waiting
request has read; `StaleResume` runs `Resume(seen)`; `PreflightPause` writes `seen` back
without the lease. The operation rows it read at the same time are not kept: the properties
do not depend on them.

### ImportRun

* Rows: `run`, `plan`, `tx` per album (`TxStates` groups the states of `FileTransaction`),
  `library`, and the lease row as `lease` (token) and `leaseLive`.
* Memory: `index` and `indexUp`, `cancel`; per worker `pc`, the album it is at, the
  transaction state it has `seen`, the run state it is about to write (`verdict`).
* Commit: `StartCommit` (with the database clock of `committed_after` as `boundary`),
  `Capture` (the row lock, run becomes `committing`), `CommitLease`, `NextAlbum` (heartbeat,
  then cancellation), `EnterAlbum` (the early returns and the prewrite of
  `commit_single_album`), `LoopDone`, `Release`, `FinalState`, `UpdateIndex`.
* Recovery: `StartRecovery` reads the row, `RecoveryLease` takes the lease and writes the
  state it read, `FinishRecovery` drops the index.
* Both: `WorkVerify`, `WorkRecord` (the library rows), `WorkCommitted` (plan and state),
  `WorkDispose` (source and terminal state), `WorkClean` (the staging directory), and the
  reconciliation as its two reads and one write, `ReadRun`, `ReadTransactions`, `WriteRun`,
  none of them under the lease or a row lock.
* Failures: `WorkFails` (to `failed` or `conflict`), `WorkStops` (state stays; also the
  commit's cancellation while it copies), `WorkRestages` (recovery goes back to staging),
  `CleanupFails` (`cleanup_required` written over the terminal state),
  `RecoveryPreflightFails`, `CommandFails` (a `?` that skips release, reconciliation and
  index update), `Expire`, `Crash`.

`Committable` and `Recoverable` are the queries behind the two pages
(`get_latest_committable_run`, `get_recoverable_transactions`).

### ScanRun

Rows (`run`, `album`, `snapshot`, `images`, `candidates`), the directories as they are now
(`disk`), the scan's memory (`todo`, `current`, `walked`, `index`) and its `cancel` flag.
Before the loop: `ClearStale`, `Reopen`, `Enumerate`, `InsertAlbums`, `LoadRun`. Per album:
`NextAlbum`, `CaptureSnapshot`, `VerifySnapshot`, `WalkAlbum`, `Fingerprint`,
`DetectDuplicates`, `FinalizeAlbum`. After it: `GroupDuplicates`, `CloseScan`. Commands:
`StartScan`, `ResumeScan`, `CancelScan`, `RetryAlbum`, `AbandonRun`. `ScanStops` is a failing
statement or a crash anywhere, `EditSource` the user.

A candidate is the set of the ids it joins, a single id one that waits for a decision
against the library; ids are unordered in time, as random UUIDs are. What a file hashes to
(`KeysOf`) and what resembles a library image (`Doubtful`) are inputs. Perceptual candidates
between images of one run are left out: they join ids as exact ones do, undecided.

### PlanReview

`groups` are the connected components of the candidates seen so far (`GroupsOf`: the least
nonempty closed sets), with `manual` and `resolved`; `action` and `by` are the member rows
(final action, decision source); `plan` is the newest plan row; `shown` what the commit page
last displayed; `captured` what the commit took. The scan is reduced to what the review sees
of it: `FinalizeAlbum`, `ScanStops`, `ResumeScan`, `GroupAtEnd`, `ReadProgress`,
`WriteState`. The rest is one action per command, each one transaction under the run's row
lock: `OpenReview`, `Submit`, `Generate`, `EditPlan`, `Freeze`, `ShowPlan`, `Abandon`,
`Capture`. `Rebuild` is `materialize_review_groups` with its cache of decisions.

### ManagedCluster

`data` and `staging` as the set of what matters in them, the four places a password is in
(memory, staged file, published file, the cluster itself), an initdb that outlived its
program (`orphan`), the postmaster, and `pc` through `initialize()`. Each file call is an
action; `FileError` and `Crash` may hit between any two. `TornRemovals` lets a
`remove_dir_all` leave a part of the directory.

### DatabaseControl

Per database `items` and `txs` (what tasks recorded), `epoch` (resets), the advisory lock
(`shared`, `exclusive`); per machine the settings (`mode`), the manager's `profile`, the
`index`, the guard (`held`), a task and an operation or migration with their steps. Every
machine has a managed database of its own and all reach the external one. `psql`'s import
takes no lock and is not one transaction, as in the code. Connections are not modelled as
such: an unlock is the end of the connection.

The commands of the review and the plan, `retry_import_album` and `abandon_import_run` write
with neither the guard nor the lock (`Decide`, of rows in `Decisions`): on the database of
the profile, or on the one they had connected to before a switch, at any moment, between the
dump and the comparison and between the comparison and the switch too. `late` remembers that
one wrote in the second interval, since nothing in the code keeps such a row from being lost.
A reset is refused for a library-root lease that has not expired (`LeaseMayRun`: there may
be one wherever something was recorded) before it is for transactions. `RunThere` is the
foreign key: transactions and decisions are about a run in the same database.

## Runs

| Run | Bounds | Shows |
|---|---|---|
| `ft_copy` | copy mode, 2 images, both strategies, 3 faults, 2 acts of the outside | inductive invariant, safety and refinement |
| `ft_live` | move mode, 3 images, strong storage, 4 faults, no meddling | `NeverStuckByItself`, `Converges` |
| `cleanup_user` | 2 images, 2 faults, 3 acts of the user | safety of the removal |
| `cleanup_live` | 2 images, 1 fault, 1 act, drive included | `NeverConflictsByItself`, `RemovalEnds` |
| `race_move` | move mode, 2 images, 3 faults, 2 acts, one request waiting | safety with a stale request |
| `import_run` | 2 albums, commit and one recovery, 1 trouble | `RunInv`; run, lease, index; `RunSettles` |
| `scan_run` | 2 albums, 3 files with one key, one doubtful, 4 ids, 1 cancellation, 1 fault, 1 edit | `ScanInv`; linking, leftovers, states; `AnalysisEnds` |
| `plan_review` | 6 images in 2 albums, 1 library image, 4 candidates, 1 edit | `PlanInv`; review, decisions, plan |
| `managed_cluster` | 4 faults, no torn removals | password, data; `ClusterComesUp` |
| `database_control` | 2 machines, 1 recorded item, 1 decision, copy mode, 1 failure, 1 reset | reset, migration, index |
| `reset_blocked`, `plan_abandoned` | as `database_control`, as `plan_review` | violations, see Findings |

Why the bounds are enough. The images of an album interact only through "all of them", so
two tell a finished loop from an interrupted one; the same holds for the albums of a run.
Three faults allow a commit to be interrupted, the recovery of it, and the recovery of that;
two acts allow, for example, a staged file to be lost and a foreign target to appear. In
`import_run` one trouble meets a commit and a recovery at every interleaving of their steps,
and since the commit may be started again without a fault, also the next one. In `scan_run`
an album can be cancelled, and fail or be edited, and the other album holds its duplicates;
three albums were checked with the same result. In `plan_review` one group begins inside one
album and grows, to the other album and to the library, as albums come in, another is settled
automatically, and one image is unreadable. `database_control` was also checked with
copy and move mode together (`Ends`, 8.4 million states). The proofs remove the bounds from the safety properties.

`CHECK_DEADLOCK FALSE` is set where the system really stops: a transaction in a terminal
state, in `conflict` or `failed`; a run that is completed or abandoned; a plan that was
captured. Only `managed_cluster` never stops. Symmetry is used in runs without liveness only.

In `race_move` the rows are shown to be written for a verified album
(`RecordOnlyVerifiedAlbum`), not for a sealed one as in `ft_copy`: a request that read
`published` before the album was lost, staged and published again can record the new album
after a crash that fell before its commit marker. `resume_db_commit` does not look at the
marker; the removal of the source does, so no image is lost.

### Fairness

No fairness is assumed of faults, of the outside or of cancellations; they are finitely many.

* `FileTransaction`: a worker that is not interrupted goes on (the code has no wait that
  another worker ends), the user starts the commit, and the operator asks for recovery as
  long as the transaction is listed (`get_recoverable_transactions` lists every such state).
* `SourceCleanup`: the removal goes on, and the drive is plugged in again.
* `ImportRun`: a command that runs goes on; a lease nobody renews expires; the user starts a
  commit that the commit page offers again and again, and a recovery that the recovery page
  offers (strong fairness, since another command may keep these disabled in between).
  `RunSettles` excepts a user who for ever starts commits the page does not offer.
* `ScanRun`: a scan goes on, the user starts it, retries albums that failed, and resumes a
  run when nothing is left to retry.
* `ManagedCluster`: `initialize()` goes on, an orphaned initdb ends, the user launches the
  program again.

## Findings

* `reset_blocked`: the reset counts every transaction that is not `source_archived`, `failed`
  or `cancelled` as unfinished (`infrastructure/postgres/migration.rs` 306). The terminal
  state of move mode, `source_files_removed`, is not in that list: after one album was moved
  every reset is refused. `src/README.md` 99 says it is refused for unfinished ones.
* `plan_abandoned`: `submit_review_group_decision` does not look at the state of the run
  (`services/review_service.rs` 645). A decision on a manual group of an abandoned run writes
  `ready_to_commit` over `abandoned`; the comment of the abandon (1113-1115) says that such a
  run can no longer resume.

### Where a property does not hold

These are the limits of the properties above, each met while modelling.

* Conservative (mounted) storage: a crash after `create_dir_all` of the target and before
  its manifest is written ends in `conflict` (`NeverStuckByItself` fails);
  `OnlyHalfPublishedIsStuck` proves that this is the only such case.
* Recovery publishes and seals a staging directory it has not verified again; the next check
  (`resume_db_commit`) finds the damage, after the seal and before the rows.
* The resumed removal of a quarantined file does not write `verifying` before it unlinks;
  two crashes at the wrong places end in `conflict` (`NeverConflictsByItself` with 2 faults).
* A drive unplugged in the middle of a removal looks like deleted files. A row in
  `verifying` may even become `removed` while its file sits in quarantine on that drive; the
  theorems `QuarantineIsTrackedHolds` and `ReportsOnlyWhatIsGoneHolds` assume it stays.
* A recovery that read its row too early writes a working state over a finished transaction
  (`TerminalStays` is claimed of `FileTransaction` only). `RecoveryRace` shows that nothing
  is lost by that. If the recovery dies before its reconciliation and the commit's has
  already written `completed`, the transaction is active in a completed run, which neither
  page lists.
* A holder whose lease expires under it is not fenced (`WritersHoldLease` holds while
  nothing failed).
* A cancellation during the walk of an album fails the album, and one during the
  enumeration of the root fails the run, instead of cancelling it; resume and retry take both up.
* A decision or a freeze between the scan's last read of the review progress and its write
  of the run's state is overwritten (`late` in `PlanReview`).
* A removal of the staging directory that is torn may leave it without its marker; every
  later launch then refuses the cluster (`ClusterComesUp` with `TornRemovals`).
* A switch or migration that fails after it turned the profile leaves profile, settings and
  index apart until the next `get_state` (`IndexIsOfDatabase` with `HalfSwitches`).
* An import that fails half way leaves rows in the target, and the next attempt is refused
  since the target is not empty. A reset of the external database between the comparison and
  the switch is not noticed by the migration.
* A decision, a freeze or another command of the review or the plan that writes to the
  managed database after the comparison (`database_service.rs` 1651) and before the switch
  has ended (1728) is not in the external database (`late` in `DatabaseControl`).

## Proofs

Every theorem holds for all values of the constants that satisfy the named `ASSUME`s of the
module. The pattern is the same everywhere: an inductive invariant as a conjunction of
named parts, one lemma per part with one step per action, the theorem `Spec => []Inv`, and
from it the properties; an action property needs the invariant and a step lemma. The
invariants of `FileTransaction`, `SourceCleanup`, `ImportRun`, `ScanRun` and `PlanReview`
stand beside the models (`IInv`, `CleanupInv`, `RunInv`, `ScanInv`, `PlanInv`), and the runs
check them on the small instances too; those of the other three are in the proof modules.

* `FileTransaction_proofs`. The properties are not inductive by themselves. In `IInv`,
  `StepMatchesState` says which persisted state each step of a worker has left behind, so
  that a crash there hands recovery that state; `ModeOfStep` keeps the two modes apart;
  `JournalInv` carries "done in the loop" to "every row verified"; `TargetInv` orders files,
  manifest, marker and state; `CommitPathInv` says why the commit program may skip the checks
  recovery makes: it holds what it verified and nothing outside acts on staging and target
  while it runs; `RecordInv` and `SourceInv` carry completeness over the database step to the
  disposal. `Refinement` shows every action to be a step of `AlbumImport` or to leave the
  mapped variables alone. `QuietInv` is what holds as long as nothing outside has acted: the
  source is in place or archived, what is about to be published is verified, and what is
  published is complete, except for a target that copying has filled but not marked
  (`HalfPublished`). It gives two theorems. `OnlyHalfPublishedIsStuck`: on any storage the
  transaction never fails, and is in conflict only over such a target. `NeverStuckHolds`:
  there is no such target before the first fault, and none at all where directories are
  renamed. Three more say how an attempt ends. `AttemptsEnd`: every step of a worker makes
  `Distance` smaller, or the set of images still to do, or takes the image at hand further, so
  that no attempt runs for ever whatever is done to the files. `AttemptsArrive`: an attempt
  that has begun and is left alone ends in the terminal state of its mode, or at `verified`
  when it resumed a staging; `PreparedInv` adds to `QuietInv` that what the staging loop has
  passed is verified. `NeverGoesBack`: left to itself, no retry or recovery takes the
  transaction back to an earlier phase.
* `RecoveryRace_proofs`. `IInv` does not hold here, since any state that was ever read may be
  written back. `RaceInv` therefore says only what a worker has itself seen to be true and
  what stays true once it is: `RequestInv` (what a request can have read), `BooksInv` (who
  knows of the rows), `AlbumInv` (what the worker has made or verified, step by step),
  `DisposedInv` (a source that is gone stays gone). That is enough for the same promises, with
  `RecordOnlyVerifiedAlbum` in place of the sealed album.
* `SourceCleanup_proofs`. `CleanupInv` ties each row's state to what is at its two paths.
  `NeverConflictsByItselfHolds` is about every state with at most one fault behind it,
  whatever comes later: `SelfInv` says which row and file go together then. A second fault,
  between the unlink of a file resumed from quarantine and its row, leaves a `removing` row
  without a file, which the next attempt calls a conflict. `RemovalAttemptsEnd` and
  `RemovalArrives` say how an attempt ends, as above. `RemovalImplementsImport` maps the
  removal to `AlbumImport` after the record (`Removal`): its steps remove source files or do
  nothing that the abstract import sees, and so do the user's while the drive is plugged in.
* `ImportRun_proofs`. `RecordInv`: a transaction past the record, or a worker that has seen
  it so, has its rows in `library`, which never shrinks; so a stale write of `tx` cannot make
  a run complete that is not. `EndedInv` does the same for runs that were ended.
  `WritersHoldLease` is inductive with the types. `IndexInv`: what a loaded index misses of
  the library is newer than the boundary of a commit that will still extend it
  (`WillUpdate`), or was recorded by a recovery that will drop the index (`WillDrop`).
* `ScanRun_proofs`. `StepInv` (what each step of the scan has established), `RowInv` (ids are
  unique, rows belong to album rows), `FileInv` (an album under way has one row per file),
  `IndexInv` (during the loop the index is the readable rows of the finished albums),
  `WrittenInv` (the star of a finished album is written before its checkpoint, so each keyed
  row is linked to the lowest id of its key). Resets remove no candidate between finished
  rows, because the rows they remove have ids of their own.
  `Linked` is defined by closed sets, without recursion; `LinkedByAPath` proves that it means
  a path of candidates (in place of an induction: on a path that left a closed set there
  would be a first identifier outside it).
* `PlanReview_proofs`. Lemmas on closed sets (`ClosedMeet`, `GroupsDisjoint`, `GroupAround`,
  `GroupsGrow`): components are disjoint, every point has one, and a component of fewer
  candidates lies in one of more. `GroupsAreConnected`: a group is what walks along
  candidates reach from any of its images, as the union in `domain/duplicate_group.rs` has
  it. `DecisionInv`: the group of every image a person decided has a library image or an
  image the person kept, so materializing never has to override a decision; this also shows
  that the branch which saves a representative against the decisions is never taken.
  `ReviewInv` and `CaptureInv` give the two promises about plans.
* `ManagedCluster_proofs`. Which files each step finds, which of the four passwords agree,
  and that whatever made the directory discardable precedes any use. Torn removals included.
  `CallsArrive`: a call of `initialize()` in which nothing fails ends with a connection,
  whatever was interrupted before it. It needs `HandoverInv` (a marked cluster has both
  metadata files in one place or the other) and, as long as no removal is torn, `ReadyInv`
  (what an initdb has left is taken up or discarded); a refusal then means a directory that
  was no cluster to begin with.
* `DatabaseControl_proofs`. A task past its lock holds it shared and a reset past its lock
  holds it exclusively, on the same database or on different ones; a migration past its
  comparison has all items in the target but what commands wrote since, as long as no reset
  came; the index is of the database the
  profile names, unless `HalfSwitches`.

Assumptions beyond the constants' types: albums, images and instances are finite where the
code's loops end; reserved names ("commit", "none", "external") are no members of the sets;
in `PlanReview` candidates join readable images, as detection works on fingerprints only.

Only model-checked, not proved: the liveness properties (`Converges`, `RemovalEnds`,
`RunSettles`, `AnalysisEnds`, `ClusterComesUp`), which need fairness and ENABLED. For
`Converges`, `RemovalEnds` and `ClusterComesUp` the proofs have the part that is safety: an
attempt comes nearer to its end with every step and ends where it should (`AttemptsEnd`,
`AttemptsArrive`, `NeverGoesBack`, `RemovalAttemptsEnd`, `RemovalArrives`, `CallsArrive`).
What is left to TLC is that somebody tries again.

## Not modelled

* The storage probe: pure I/O; its result is the constant `Strategies`.
* The single-instance lock: one file taken at launch and never given back before the process
  ends (`lib.rs` forgets the guard). `ManagedCluster` has one process at a time because of it.
* The perceptual distances, the decoding of images and the BK-tree: functions of the data.
* What `retry_import_album` deletes, as the migration sees it: a copy may hold rows of an
  album that was retried since the comparison.
* The older per-candidate review decisions and `build_import_plan`: commands no screen calls.
* Progress events, logging, `fsync`, path validation, the SQL of single migrations, TLS,
  location of the PostgreSQL binaries, port choice, a stale postmaster's removal.
* Library browsing, diagnostics, settings and the React front end: no protocol of their own.

What could follow: `ScanRun` and `PlanReview` composed, so that the late window is explored
with the real scan; the lease with several roots; `SourceCleanup` as a formal refinement of
the step `RemoveSource` of `FileTransaction`; more than one waiting request in
`RecoveryRace`, and the fences (a token checked by each update) that would close the limits
above.
