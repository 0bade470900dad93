---------------------------- MODULE RecoveryRace ----------------------------
(***************************************************************************)
(* Recovery reads the transaction row, checks the plan and the storage,    *)
(* and only then asks for the library-root lease; what it dispatches on    *)
(* under the lease is the state it read before.  Meanwhile a commit or     *)
(* another recovery that holds the lease may have gone on.                 *)
(*                                                                         *)
(* FileTransaction with the reading and the dispatch taken apart: seen is  *)
(* the state that one waiting recovery request has read.                   *)
(***************************************************************************)
EXTENDS FileTransaction

VARIABLE seen    \* the state a recovery request has read, or "none"

raceVars == <<vars, seen>>

\* The states recovery acts upon: neither terminal nor conflict.
Recoverable == TxStates \ {"none", "source_archived", "source_files_removed", "conflict", "failed"}

RaceInit == Init /\ seen = "none"

\* recover_transaction_with_client reads the row, whoever holds the lease.
ReadState ==
    /\ seen = "none" /\ txState \in Recoverable
    /\ seen' = txState
    /\ UNCHANGED vars

\* The storage check fails: the state read before is written back, with a message
\* and without the lease.
PreflightPause ==
    /\ seen # "none" /\ faults < MaxFaults
    /\ faults' = faults + 1
    /\ SetTx(seen)
    /\ seen' = "none"
    /\ UNCHANGED <<libVars, stagingVars, targetVars, sourceVars, workVars, meddles>>

\* Somebody else holds the lease, the storage root cannot be resolved, or the files
\* fit nothing the resume function knows: an error, and nothing is written.
RequestFails ==
    /\ seen # "none"
    /\ seen' = "none"
    /\ UNCHANGED vars

\* The lease is free, and the resume function of the state read before runs.
StaleResume ==
    /\ seen # "none"
    /\ Resume(seen)
    /\ seen' = "none"

RaceNext ==
    \/ ReadState \/ PreflightPause \/ RequestFails \/ StaleResume
    \/ (CommitStart \/ Work \/ Fault \/ Outside) /\ UNCHANGED seen

RaceSpec == RaceInit /\ [][RaceNext]_raceVars

-----------------------------------------------------------------------------
\* Even a stale request records only what it has verified under the lease: our
\* manifest and every planned file (CheckEvidence).  The commit marker is not part
\* of it: a request that read published before the album was lost, staged and
\* published again may come before the new marker is written.
RecordOnlyVerifiedAlbum ==
    [][record' = "present" /\ record = "absent" =>
           targetDir = "present" /\ targetManifest = "present" /\ AllGood(target)]_raceVars
=============================================================================
