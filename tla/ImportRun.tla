------------------------------ MODULE ImportRun ------------------------------
(***************************************************************************)
(* The commit of a whole import run: the album loop of the commit pipeline *)
(* (execute_commit_pipeline), recovery requests beside it, the lease of    *)
(* the library root, the row of the run that both programs derive from the *)
(* transactions (reconcile_import_run_state), and the fingerprint index    *)
(* that has to follow what they write into the library.                    *)
(*                                                                         *)
(* An album's transaction is kept as coarse as the run can see it; how it  *)
(* gets from one of these states to the next is FileTransaction's subject. *)
(***************************************************************************)
EXTENDS Naturals, FiniteSets

CONSTANTS
    Albums,        \* the albums of the frozen plan
    Recoverers,    \* recovery requests that may run beside the commit
    MaxTroubles    \* bound: crashes, failed calls, leases lost by a live holder, cancellations

ASSUME RunAssumption ==
    /\ Albums # {} /\ IsFiniteSet(Albums)
    /\ "commit" \notin Recoverers /\ "none" \notin Recoverers
    /\ MaxTroubles \in Nat

VARIABLES
    run,        \* import_runs.state
    plan,       \* import_plans.state
    tx,         \* file_transactions.state of each album, see TxStates
    library,    \* the albums whose library rows are committed
    lease,      \* the token in library_root_leases, or "none"
    leaseLive,  \* has that lease not expired?
    index,      \* the albums in the in-memory fingerprint index
    indexUp,    \* is the index loaded?
    cancel,     \* the commit's cancellation flag
    pc,         \* the call each worker makes next
    todo,       \* albums the commit loop has not come to yet
    album,      \* the album each recovery is about; the commit's current one
    seen,       \* the state of its transaction as the worker knows it, "none" once it gave up
    verdict,    \* the run state its reconciliation has read, then decided on
    final,      \* is the commit past its loop?
    boundary,   \* rows older than the commit (committed_after)
    faults, cancels

rows    == <<run, plan, tx, library>>
leases  == <<lease, leaseLive>>
indexes == <<index, indexUp>>
locals  == <<todo, album, seen, verdict, final, boundary>>
bounds  == <<faults, cancels>>
vars == <<rows, leases, indexes, cancel, pc, locals, bounds>>

Workers == Recoverers \cup {"commit"}

RunStates == {"ready_to_commit", "committing", "recovery_required", "completed",
              "cancelled", "abandoned"}
\* "staging": planned and staging; "verified": verifying to db_committing;
\* "committed": library_committed to cleanup_required; "done": source_archived
\* or source_files_removed.
TxStates == {"none", "staging", "verified", "committed", "done", "conflict", "failed"}
Active   == {"staging", "verified", "committed"}
Steps    == {"idle", "capture", "lease", "beat", "album", "work", "recorded", "clean",
             "release", "rcrun", "rctx", "rcwrite", "final", "index", "finish"}
OnAlbum  == {"work", "recorded", "clean"}
\* Is the worker between its acquire and its release?  The reconciliation after
\* each album is, the last one is not.
InLease(w) ==
    \/ pc[w] \in {"beat", "album", "release"} \cup OnAlbum
    \/ w = "commit" /\ ~final /\ pc[w] \in {"rcrun", "rctx", "rcwrite"}

RunTypeOK ==
    /\ run \in RunStates /\ plan \in {"frozen", "consumed", "invalidated"}
    /\ tx \in [Albums -> TxStates]
    /\ library \subseteq Albums
    /\ lease \in Workers \cup {"none"} /\ leaseLive \in BOOLEAN
    /\ index \subseteq Albums /\ indexUp \in BOOLEAN /\ cancel \in BOOLEAN
    /\ pc \in [Workers -> Steps]
    /\ todo \subseteq Albums
    /\ album \in [Workers -> Albums]
    /\ seen \in [Workers -> TxStates]
    /\ verdict \in [Workers -> RunStates]
    /\ final \in BOOLEAN /\ boundary \subseteq Albums
    /\ faults \in Nat /\ cancels \in Nat /\ faults + cancels <= MaxTroubles

\* A frozen plan that nobody has begun to commit.
Init ==
    /\ run = "ready_to_commit" /\ plan = "frozen"
    /\ tx = [a \in Albums |-> "none"] /\ library = {}
    /\ lease = "none" /\ leaseLive = FALSE
    /\ index = {} /\ indexUp \in BOOLEAN
    /\ cancel = FALSE
    /\ pc = [w \in Workers |-> "idle"]
    /\ todo = {} /\ boundary = {} /\ final = FALSE
    /\ album \in [Workers -> {CHOOSE a \in Albums : TRUE}]
    /\ seen = [w \in Workers |-> "none"]
    /\ verdict = [w \in Workers |-> "ready_to_commit"]
    /\ faults = 0 /\ cancels = 0

Goto(w, s) == pc' = [pc EXCEPT ![w] = s]
SetTx(a, s) == tx' = [tx EXCEPT ![a] = s]
Knows(w, s) == seen' = [seen EXCEPT ![w] = s]
More == faults + cancels < MaxTroubles
HasPlan == plan \in {"frozen", "consumed"}

-----------------------------------------------------------------------------
(***************************************************************************)
(* What the pages offer.                                                   *)
(***************************************************************************)

\* get_latest_committable_run.
Committable ==
    /\ HasPlan
    /\ \/ run = "ready_to_commit"
       \/ /\ run = "cancelled"
          /\ \A a \in Albums : tx[a] \in {"none", "done"}
       \/ /\ run \in {"committing", "recovery_required"}
          /\ \A a \in Albums : tx[a] \notin Active \cup {"conflict"}
          /\ \/ \E a \in Albums : tx[a] = "none"
             \/ \A a \in Albums : tx[a] # "failed"

\* get_recoverable_transactions.
Recoverable(a) ==
    /\ tx[a] \notin {"none", "done"}
    /\ run \notin {"abandoned", "completed"}

-----------------------------------------------------------------------------
(***************************************************************************)
(* The lease of the library root.                                          *)
(***************************************************************************)

\* Mutant of Obtainable: the expiry of a lease is not looked at.
Obtainable_Never(w) == lease = "none"

\* The WHERE clause of acquire_library_root_lease; a token is used once.
Obtainable(w) == lease = "none" \/ ~leaseLive

\* Mutant of Take: the insert overwrites whatever lease there is.
Take_Always(w) == lease' = w /\ leaseLive' = TRUE

Take(w) == Obtainable(w) /\ lease' = w /\ leaseLive' = TRUE

\* release_library_root_lease deletes by token.
Release(w) ==
    /\ pc[w] = "release"
    /\ IF lease = w THEN lease' = "none" /\ leaseLive' = FALSE ELSE UNCHANGED leases
    /\ Goto(w, "rcrun")
    /\ final' = (w = "commit" \/ final)
    /\ UNCHANGED <<rows, indexes, cancel, todo, album, seen, verdict, boundary, bounds>>

\* The TTL runs out: at any time for a lease nobody renews any more, and, at the
\* cost of a fault, while its holder is busy with one album.
Expire ==
    /\ lease # "none" /\ leaseLive
    /\ IF InLease(lease)
       THEN More /\ faults' = faults + 1
       ELSE UNCHANGED faults
    /\ leaseLive' = FALSE
    /\ UNCHANGED <<rows, lease, indexes, cancel, pc, locals, cancels>>

-----------------------------------------------------------------------------
(***************************************************************************)
(* The commit command and its loop.                                        *)
(***************************************************************************)

\* Mutant of StartCommit: the boundary is taken after the last album.
StartCommit_NoBoundary ==
    /\ pc["commit"] = "idle"
    /\ Goto("commit", "capture")
    /\ boundary' = Albums
    /\ cancel' = FALSE /\ final' = FALSE
    /\ UNCHANGED <<rows, leases, indexes, todo, album, seen, verdict, bounds>>

\* One commit at a time; it notes the database clock if the index is loaded.
StartCommit ==
    /\ pc["commit"] = "idle"
    /\ Goto("commit", "capture")
    /\ boundary' = IF indexUp THEN library ELSE {}
    /\ cancel' = FALSE /\ final' = FALSE
    /\ UNCHANGED <<rows, leases, indexes, todo, album, seen, verdict, bounds>>

\* The plan is read and the run moved to committing under the run's row lock.
Capture ==
    /\ pc["commit"] = "capture"
    /\ IF run # "abandoned" /\ HasPlan
       THEN run' = "committing" /\ Goto("commit", "lease")
       ELSE UNCHANGED run /\ Goto("commit", "idle")
    /\ UNCHANGED <<plan, tx, library, leases, indexes, cancel, locals, bounds>>

\* An occupied lease ends the command; the run stays in committing.
CommitLease ==
    /\ pc["commit"] = "lease"
    /\ \/ /\ Take("commit")
          /\ Goto("commit", "beat") /\ todo' = Albums
       \/ /\ ~Obtainable("commit")
          /\ Goto("commit", "idle") /\ UNCHANGED <<leases, todo>>
    /\ UNCHANGED <<rows, indexes, cancel, album, seen, verdict, final, boundary, bounds>>

\* Heartbeat by token, then the cancellation flag, then the next album.  A lost
\* lease ends the command without a reconciliation.
NextAlbum ==
    /\ pc["commit"] = "beat" /\ todo # {}
    /\ IF lease # "commit"
       THEN Goto("commit", "idle") /\ UNCHANGED <<leases, todo, album>>
       ELSE /\ leaseLive' = TRUE /\ UNCHANGED lease
            /\ IF cancel
               THEN Goto("commit", "release") /\ UNCHANGED <<todo, album>>
               ELSE \E a \in todo : /\ todo' = todo \ {a}
                                    /\ album' = [album EXCEPT !["commit"] = a]
                                    /\ Goto("commit", "album")
    /\ UNCHANGED <<rows, indexes, cancel, seen, verdict, final, boundary, bounds>>

LoopDone ==
    /\ pc["commit"] = "beat" /\ todo = {}
    /\ Goto("commit", "release")
    /\ UNCHANGED <<rows, leases, indexes, cancel, locals, bounds>>

\* commit_single_album up to its prewrite.  A transaction in flight sends the
\* album to recovery and skips the reconciliation; a finished one, intact or
\* not, is left alone; a new one is refused or written.
EnterAlbum ==
    LET a == album["commit"] IN
    /\ pc["commit"] = "album"
    /\ \/ /\ tx[a] \notin {"none", "done"}
          /\ Goto("commit", "beat") /\ UNCHANGED <<tx, seen>>
       \/ /\ tx[a] \in {"none", "done"}
          /\ Goto("commit", "rcrun") /\ UNCHANGED <<tx, seen>>
          /\ tx[a] = "none" => More
       \/ /\ tx[a] = "none"
          /\ SetTx(a, "staging") /\ Knows("commit", "staging")
          /\ Goto("commit", "work")
    /\ faults' = IF tx[a] = "none" /\ tx'[a] = "none" THEN faults + 1 ELSE faults
    /\ UNCHANGED <<run, plan, library, leases, indexes, cancel, todo, album, verdict, final, boundary, cancels>>

-----------------------------------------------------------------------------
(***************************************************************************)
(* Work on one album, by the commit or by a recovery.  Every state is      *)
(* written by an UPDATE by id that looks at neither the row nor the lease. *)
(***************************************************************************)

Leave(w) == Goto(w, IF w = "commit" THEN "rcrun" ELSE "release")

\* Copied, hashed and verified: the commit goes on, resume_staging ends here.
WorkVerify(w) ==
    /\ pc[w] = "work" /\ seen[w] = "staging"
    /\ SetTx(album[w], "verified") /\ Knows(w, "verified")
    /\ IF w = "commit" THEN UNCHANGED pc ELSE Leave(w)
    /\ UNCHANGED <<run, plan, library, leases, indexes, cancel, todo, album, verdict, final, boundary, bounds>>

\* Publish, then commit_library_records_transaction: the rows, in a database
\* transaction of their own ...
WorkRecord(w) ==
    /\ pc[w] = "work" /\ seen[w] = "verified"
    /\ library' = library \cup {album[w]}
    /\ Goto(w, "recorded")
    /\ UNCHANGED <<run, plan, tx, leases, indexes, cancel, locals, bounds>>

\* ... then the plan and the state.
WorkCommitted(w) ==
    /\ pc[w] = "recorded"
    /\ plan' = "consumed"
    /\ SetTx(album[w], "committed") /\ Knows(w, "committed")
    /\ Goto(w, "work")
    /\ UNCHANGED <<run, library, leases, indexes, cancel, todo, album, verdict, final, boundary, bounds>>

\* The source is archived or removed, and the terminal state written ...
WorkDispose(w) ==
    /\ pc[w] = "work" /\ seen[w] = "committed"
    /\ SetTx(album[w], "done") /\ Knows(w, "done")
    /\ Goto(w, "clean")
    /\ UNCHANGED <<run, plan, library, leases, indexes, cancel, todo, album, verdict, final, boundary, bounds>>

\* ... before the staging directory is removed.
WorkClean(w) ==
    /\ pc[w] = "clean"
    /\ Leave(w)
    /\ UNCHANGED <<rows, leases, indexes, cancel, locals, bounds>>

\* The directory stays: cleanup_required takes the terminal state back.
CleanupFails(w) ==
    /\ pc[w] = "clean" /\ More
    /\ SetTx(album[w], "committed") /\ Knows(w, "none") /\ Leave(w)
    /\ faults' = faults + 1
    /\ UNCHANGED <<run, plan, library, leases, indexes, cancel, todo, album, verdict, final, boundary, cancels>>

\* Recovery finds neither staging nor target and goes back to staging.
WorkRestages(w) ==
    /\ pc[w] = "work" /\ seen[w] = "verified" /\ w # "commit" /\ More
    /\ SetTx(album[w], "staging") /\ Knows(w, "none") /\ Leave(w)
    /\ faults' = faults + 1
    /\ UNCHANGED <<run, plan, library, leases, indexes, cancel, todo, album, verdict, final, boundary, cancels>>

\* A copy that does not match its hash, or evidence that contradicts the plan.
WorkFails(w) ==
    /\ pc[w] = "work" /\ More
    /\ \/ seen[w] = "staging" /\ SetTx(album[w], "failed")
       \/ SetTx(album[w], "conflict")
    /\ Knows(w, "none") /\ Leave(w)
    /\ faults' = faults + 1
    /\ UNCHANGED <<run, plan, library, leases, indexes, cancel, todo, album, verdict, final, boundary, cancels>>

\* An error, or the commit's cancellation while it copies files: the transaction
\* stays where it is.
WorkStops(w) ==
    /\ pc[w] \in OnAlbum
    /\ \/ w = "commit" /\ cancel /\ pc[w] = "work" /\ seen[w] = "staging" /\ UNCHANGED faults
       \/ More /\ faults' = faults + 1
    /\ Knows(w, "none") /\ Leave(w)
    /\ UNCHANGED <<rows, leases, indexes, cancel, todo, album, verdict, final, boundary, cancels>>

-----------------------------------------------------------------------------
(***************************************************************************)
(* reconcile_import_run_state: three reads and a write, each a statement   *)
(* of its own, with neither the lease nor a row lock.                      *)
(***************************************************************************)

\* Where the worker goes on after its reconciliation.
After(w) == IF w # "commit" THEN "finish" ELSE IF final THEN "final" ELSE "beat"

\* A run that has not reached the commit, or was ended by the user, is left alone.
ReadRun(w) ==
    /\ pc[w] = "rcrun"
    /\ verdict' = [verdict EXCEPT ![w] = run]
    /\ Goto(w, IF run \in {"committing", "recovery_required", "completed"} THEN "rctx" ELSE After(w))
    /\ UNCHANGED <<rows, leases, indexes, cancel, todo, album, seen, final, boundary, bounds>>

AllDone == \A a \in Albums : tx[a] = "done"

\* Mutant of Verdict: an album without a transaction does not count.
Verdict_OnlyRows ==
    IF \A a \in Albums : tx[a] \in {"none", "done"} THEN "completed" ELSE "recovery_required"

\* Mutant of Verdict: a failed transaction fails the run.
Verdict_Promotes ==
    IF AllDone THEN "completed"
    ELSE IF \E a \in Albums : tx[a] = "failed" THEN "failed" ELSE "recovery_required"

Verdict == IF AllDone THEN "completed" ELSE "recovery_required"

\* A verdict that agrees with the state read first is not written.
ReadTransactions(w) ==
    /\ pc[w] = "rctx"
    /\ IF HasPlan
       THEN /\ verdict' = [verdict EXCEPT ![w] = Verdict]
            /\ Goto(w, IF Verdict = verdict[w] THEN After(w) ELSE "rcwrite")
       ELSE UNCHANGED verdict /\ Goto(w, After(w))
    /\ UNCHANGED <<rows, leases, indexes, cancel, todo, album, seen, final, boundary, bounds>>

WriteRun(w) ==
    /\ pc[w] = "rcwrite"
    /\ run' = verdict[w]
    /\ Goto(w, After(w))
    /\ UNCHANGED <<plan, tx, library, leases, indexes, cancel, locals, bounds>>

\* Mutant of FinalState: cancellation alone is enough.
FinalState_AnyTransactions ==
    /\ pc["commit"] = "final"
    /\ run' = IF cancel /\ verdict["commit"] = "recovery_required" THEN "cancelled" ELSE run
    /\ Goto("commit", IF run' = "abandoned" THEN "idle" ELSE "index")
    /\ UNCHANGED <<plan, tx, library, leases, indexes, cancel, locals, bounds>>

\* A commit cancelled before its first prewrite leaves a run that can be
\* committed again.
FinalState ==
    /\ pc["commit"] = "final"
    /\ run' = IF /\ cancel /\ verdict["commit"] = "recovery_required"
                 /\ \A a \in Albums : tx[a] = "none"
              THEN "cancelled" ELSE run
    /\ Goto("commit", IF verdict["commit"] = "abandoned" THEN "idle" ELSE "index")
    /\ UNCHANGED <<plan, tx, library, leases, indexes, cancel, locals, bounds>>

\* get_library_images_for_import_run_committed_after, and the upsert of what it returns.
CommittedAfter == library \ boundary
Upserted == index \cup CommittedAfter

\* update_library_fingerprint_index_after_commit, only when the commit was Ok.
UpdateIndex ==
    /\ pc["commit"] = "index"
    /\ index' = IF indexUp THEN Upserted ELSE index
    /\ Goto("commit", "idle") /\ boundary' = {}
    /\ UNCHANGED <<rows, leases, indexUp, cancel, todo, album, seen, verdict, final, bounds>>

-----------------------------------------------------------------------------
(***************************************************************************)
(* Recovery of one transaction.                                            *)
(***************************************************************************)

\* The row is read first, long before the lease.  Terminal transactions and
\* conflicts are only reported and reconciled.
StartRecovery(w, a) ==
    /\ w \in Recoverers /\ pc[w] = "idle" /\ Recoverable(a)
    /\ album' = [album EXCEPT ![w] = a] /\ Knows(w, tx[a])
    /\ Goto(w, IF tx[a] \in Active THEN "lease" ELSE "rcrun")
    /\ UNCHANGED <<rows, leases, indexes, cancel, todo, verdict, final, boundary, bounds>>

\* A storage preflight that fails writes the state it has read, without the
\* lease; evidence that fails is a conflict.
RecoveryPreflightFails(w) ==
    /\ w \in Recoverers /\ pc[w] = "lease" /\ More
    /\ SetTx(album[w], seen[w]) \/ SetTx(album[w], "conflict")
    /\ Knows(w, "none") /\ Goto(w, "rcrun")
    /\ faults' = faults + 1
    /\ UNCHANGED <<run, plan, library, leases, indexes, cancel, todo, album, verdict, final, boundary, cancels>>

\* The dispatch on the state read first writes that state, or its successor,
\* whatever the row says by now.
RecoveryLease(w) ==
    /\ w \in Recoverers /\ pc[w] = "lease"
    /\ \/ /\ Take(w) /\ SetTx(album[w], seen[w])
          /\ UNCHANGED seen /\ Goto(w, "work")
       \/ /\ ~Obtainable(w) /\ UNCHANGED <<leases, tx>>
          /\ Knows(w, "none") /\ Goto(w, "rcrun")
    /\ UNCHANGED <<run, plan, library, indexes, cancel, todo, album, verdict, final, boundary, bounds>>

\* The command drops the index when the outcome says recovered, after a step
\* that resume_staging or a later resume function carried through.
FinishRecovery(w) ==
    /\ w \in Recoverers /\ pc[w] = "finish"
    /\ IF seen[w] \in {"verified", "done"}
       THEN index' = {} /\ indexUp' = FALSE
       ELSE UNCHANGED indexes
    /\ Goto(w, "idle") /\ Knows(w, "none")
    /\ UNCHANGED <<rows, leases, cancel, todo, album, verdict, final, boundary, bounds>>

-----------------------------------------------------------------------------
(***************************************************************************)
(* The user, the scan beside the commit, and failures.                     *)
(***************************************************************************)

CancelCommit ==
    /\ pc["commit"] # "idle" /\ ~cancel /\ More
    /\ cancel' = TRUE /\ cancels' = cancels + 1
    /\ UNCHANGED <<rows, leases, indexes, pc, locals, faults>>

\* abandon_frozen_import_workflow, under the run's row lock.
AbandonWorkflow ==
    /\ run \in {"ready_to_commit", "cancelled"}
    /\ \A a \in Albums : tx[a] = "none"
    /\ HasPlan
    /\ run' = "abandoned" /\ plan' = "invalidated"
    /\ UNCHANGED <<tx, library, leases, indexes, cancel, pc, locals, bounds>>

\* ensure_library_index of a scan reads all library rows; the write guard it holds
\* meanwhile keeps commit and recovery from the index, so this is one step.
LoadIndex ==
    /\ ~indexUp
    /\ index' = library /\ indexUp' = TRUE
    /\ UNCHANGED <<rows, leases, cancel, pc, locals, bounds>>

\* A statement fails and its error leaves the command by ?: no release, no
\* reconciliation, no index update.
CommandFails(w) ==
    /\ pc[w] \notin {"idle"} \cup OnAlbum /\ More
    /\ Goto(w, "idle") /\ faults' = faults + 1
    /\ UNCHANGED <<rows, leases, indexes, cancel, locals, cancels>>

\* The program stops; the index is in memory, the lease is a row.
Crash ==
    /\ More /\ faults' = faults + 1
    /\ pc' = [w \in Workers |-> "idle"]
    /\ index' = {} /\ indexUp' = FALSE /\ cancel' = FALSE
    /\ UNCHANGED <<rows, leases, locals, cancels>>

-----------------------------------------------------------------------------
WorkStep(w) == WorkVerify(w) \/ WorkRecord(w) \/ WorkCommitted(w) \/ WorkDispose(w) \/ WorkClean(w)

Reconcile(w) == ReadRun(w) \/ ReadTransactions(w) \/ WriteRun(w)

CommitStep ==
    \/ Capture \/ CommitLease \/ NextAlbum \/ LoopDone \/ EnterAlbum
    \/ FinalState \/ UpdateIndex

\* What a worker that has begun goes on to do.
WorkerStep(w) ==
    \/ WorkStep(w) \/ Release(w) \/ Reconcile(w)
    \/ w = "commit" /\ CommitStep
    \/ RecoveryLease(w) \/ FinishRecovery(w)

Failure(w) ==
    \/ WorkFails(w) \/ WorkStops(w) \/ WorkRestages(w) \/ CleanupFails(w)
    \/ CommandFails(w) \/ RecoveryPreflightFails(w)

User ==
    \/ StartCommit \/ CancelCommit \/ AbandonWorkflow
    \/ \E w \in Recoverers, a \in Albums : StartRecovery(w, a)

Next ==
    \/ \E w \in Workers : WorkerStep(w) \/ Failure(w)
    \/ User \/ LoadIndex \/ Expire \/ Crash

\* Commands run to their end, an unrenewed lease expires, and the user takes up
\* again and again what the commit page and the recovery page offer.
Fairness ==
    /\ \A w \in Workers : WF_vars(WorkerStep(w))
    /\ WF_vars(lease # "none" /\ ~InLease(lease) /\ Expire)
    /\ SF_vars(Committable /\ StartCommit)
    /\ \A a \in Albums :
           SF_vars(tx[a] \in Active /\ \E w \in Recoverers : StartRecovery(w, a))

Spec == Init /\ [][Next]_vars

FairSpec == Spec /\ Fairness

-----------------------------------------------------------------------------
(***************************************************************************)
(* Properties.                                                             *)
(***************************************************************************)

\* A run that shows as completed has every album of its plan in the library,
\* although commit and recovery decide on it from separate reads, side by side
\* and with stale transaction states written in between
\* (reconcile_import_run_state, rules 2 to 5).
CompletedMeansRecorded == run = "completed" => library = Albums

\* As long as nothing fails, whoever works between acquire and release of the
\* library root is its one holder: stale tokens, orphan leases and expiry never
\* let two in.  (A holder whose lease runs out under it is not fenced: that is a
\* fault here.)
WritersHoldLease ==
    faults = 0 => \A w \in Workers : InLease(w) => lease = w /\ leaseLive

\* A run ended as cancelled or abandoned has begun nothing: no transaction is
\* left that no page would offer to recover, whatever reconciliations are still
\* under way (cancelled commit, commit_service.rs:795-820).
EndedRunBeganNothing ==
    run \in {"cancelled", "abandoned"} => \A a \in Albums : tx[a] = "none"

\* When nothing has failed and all commands have ended, a loaded fingerprint
\* index has every album of the library, so that the next scan finds their
\* duplicates: through commits of part of the plan, recoveries and scans that load
\* the index in the middle of a commit.
IndexFollowsLibrary ==
    faults = 0 /\ indexUp /\ (\A w \in Workers : pc[w] = "idle") => index = library

\* Again and again the run comes to a state the user can understand: everything
\* in the library, given up before it began, or with a transaction that only a
\* person can resolve.  (A user who for ever starts commits that the commit page
\* does not offer keeps the library root from recovery.)
Settled ==
    \/ run \in {"completed", "abandoned"}
    \/ \E a \in Albums : tx[a] \in {"conflict", "failed"}
RunSettles == []<>Settled \/ []<><<StartCommit /\ ~Committable>>_vars

-----------------------------------------------------------------------------
(***************************************************************************)
(* The inductive invariant.                                                *)
(***************************************************************************)

\* What the library rows vouch for: states from library_committed on, whether
\* they stand in the row or only in the memory of a worker that is about to write
\* them again, and every decision for completed.
RecordInv ==
    /\ \A a \in Albums : tx[a] \in {"committed", "done"} => a \in library
    /\ \A w \in Workers :
          \/ pc[w] \in {"recorded", "clean"}
          \/ /\ pc[w] \in OnAlbum \/ (w \in Recoverers /\ pc[w] = "lease")
             /\ seen[w] \in {"committed", "done"}
          => album[w] \in library
    /\ \A w \in Workers : verdict[w] = "completed" => library = Albums
    /\ CompletedMeansRecorded

\* A worker on an album has seen its transaction, a reconciliation that writes has
\* decided, and the run of a commit in its loop has not ended.
EndedInv ==
    /\ EndedRunBeganNothing
    /\ \A w \in Workers :
          pc[w] \in OnAlbum \/ (w \in Recoverers /\ pc[w] = "lease") =>
              tx[album[w]] # "none" /\ seen[w] # "none"
    /\ \A w \in Workers : pc[w] = "clean" => seen[w] = "done"
    /\ \A w \in Workers :
          pc[w] = "rcwrite" => verdict[w] \in {"completed", "recovery_required"}
    /\ pc["commit"] \notin {"idle", "capture", "index"} =>
          run \in {"committing", "recovery_required", "completed"}

\* Recovery w will drop the index when it is finished.
WillDrop(w) ==
    \/ pc[w] \in {"recorded", "clean"}
    \/ pc[w] = "work" /\ seen[w] = "committed"
    \/ pc[w] \in {"release", "rcrun", "rctx", "rcwrite", "finish"} /\ seen[w] = "done"

\* The commit will bring the index up to date when it is finished.
WillUpdate == pc["commit"] \notin {"idle", "capture", "lease"}

\* What a loaded index misses is newer than the commit that will add it, or was
\* recorded by a recovery that will drop the index.
IndexInv ==
    /\ boundary \subseteq library /\ index \subseteq library
    /\ pc["commit"] \in {"rctx", "rcwrite", "final"} => verdict["commit"] # "abandoned"
    /\ faults = 0 /\ indexUp =>
          \/ \E w \in Recoverers : WillDrop(w)
          \/ library \subseteq index
          \/ WillUpdate /\ library \ index \subseteq library \ boundary

RunInv == RunTypeOK /\ RecordInv /\ WritersHoldLease /\ EndedInv /\ IndexInv
=============================================================================
