------------------------- MODULE ImportRun_proofs -------------------------
(***************************************************************************)
(* Theorems about ImportRun, for every set of albums, every set of         *)
(* recovery requests and every number of troubles.  The five parts of      *)
(* RunInv are preserved one by one.                                        *)
(***************************************************************************)
EXTENDS ImportRun, TLAPS

-----------------------------------------------------------------------------
\* The initial states satisfy the invariant.
LEMMA InitRunInv == Init => RunInv
<1> SUFFICES ASSUME Init PROVE RunInv
  OBVIOUS
<1> USE RunAssumption DEF Init, Workers
<1>1. (CHOOSE a \in Albums : TRUE) \in Albums
  <2>1. \E a \in Albums : TRUE
    OBVIOUS
  <2> QED
    BY <2>1, Zenon
<1>2. RunTypeOK
  <2>1. album \in [Workers -> Albums]
    BY <1>1
  <2>2. /\ tx \in [Albums -> TxStates] /\ pc \in [Workers -> Steps]
        /\ seen \in [Workers -> TxStates] /\ verdict \in [Workers -> RunStates]
    BY DEF RunStates, TxStates, Steps
  <2>3. /\ run \in RunStates /\ plan \in {"frozen", "consumed", "invalidated"}
        /\ lease \in Workers \cup {"none"} /\ leaseLive \in BOOLEAN
        /\ library \subseteq Albums /\ index \subseteq Albums /\ todo \subseteq Albums
        /\ boundary \subseteq Albums
        /\ indexUp \in BOOLEAN /\ cancel \in BOOLEAN /\ final \in BOOLEAN
    BY DEF RunStates
  <2>4. faults \in Nat /\ cancels \in Nat /\ faults + cancels <= MaxTroubles
    OBVIOUS
  <2> QED
    BY <2>1, <2>2, <2>3, <2>4 DEF RunTypeOK
<1>3. RecordInv
  BY DEF RecordInv, CompletedMeansRecorded, OnAlbum
<1>4. WritersHoldLease
  BY DEF WritersHoldLease, InLease, OnAlbum
<1>5. EndedInv
  BY DEF EndedInv, EndedRunBeganNothing, OnAlbum
<1>6. IndexInv
  BY DEF IndexInv
<1> QED
  BY <1>2, <1>3, <1>4, <1>5, <1>6 DEF RunInv

\* Every step keeps the types.
LEMMA TypeStep ==
    ASSUME RunTypeOK, [Next]_vars
    PROVE  RunTypeOK'
<1> USE RunAssumption DEF RunTypeOK, Workers, RunStates, TxStates, Steps, Active, OnAlbum
<1>1. CASE UNCHANGED vars
  BY <1>1 DEF vars, rows, leases, indexes, locals, bounds
<1>2. ASSUME NEW w \in Workers, WorkVerify(w)
     PROVE  RunTypeOK'
  BY <1>2 DEF WorkVerify, vars, rows, leases, indexes, locals, bounds, Goto, SetTx, Knows, Leave
<1>3. ASSUME NEW w \in Workers, WorkRecord(w)
     PROVE  RunTypeOK'
  BY <1>3 DEF WorkRecord, vars, rows, leases, indexes, locals, bounds, Goto, SetTx, Knows
<1>4. ASSUME NEW w \in Workers, WorkDispose(w)
     PROVE  RunTypeOK'
  BY <1>4 DEF WorkDispose, vars, rows, leases, indexes, locals, bounds, Goto, SetTx, Knows, Leave
<1>5. ASSUME NEW w \in Workers, Release(w)
     PROVE  RunTypeOK'
  BY <1>5 DEF Release, vars, rows, leases, indexes, locals, bounds, Goto, SetTx, Knows
<1>6. ASSUME NEW w \in Workers, ReadRun(w)
     PROVE  RunTypeOK'
  BY <1>6 DEF ReadRun, vars, rows, leases, indexes, locals, bounds, Goto, SetTx, Knows, After
<1>7. ASSUME NEW w \in Workers, ReadTransactions(w)
     PROVE  RunTypeOK'
  BY <1>7 DEF ReadTransactions, vars, rows, leases, indexes, locals, bounds, Goto, SetTx, Knows, After, HasPlan, Verdict, AllDone
<1>8. ASSUME NEW w \in Workers, WriteRun(w)
     PROVE  RunTypeOK'
  BY <1>8 DEF WriteRun, vars, rows, leases, indexes, locals, bounds, Goto, SetTx, Knows, After
<1>9. ASSUME NEW w \in Workers, RecoveryLease(w)
     PROVE  RunTypeOK'
  <2>1. CASE ~Obtainable(w)
    BY <1>9, <2>1 DEF RecoveryLease, vars, rows, leases, indexes, locals, bounds, Goto, SetTx, Knows, Take
  <2>2. CASE Take(w) /\ SetTx(album[w], seen[w]) /\ UNCHANGED seen /\ Goto(w, "work")
    BY <1>9, <2>2 DEF RecoveryLease, vars, rows, leases, indexes, locals, bounds, Goto, SetTx, Knows, Take
  <2> QED
    BY <1>9, <2>1, <2>2 DEF RecoveryLease
<1>10. ASSUME NEW w \in Workers, FinishRecovery(w)
     PROVE  RunTypeOK'
  <2>1. index' \subseteq Albums /\ indexUp' \in BOOLEAN
    BY <1>10 DEF FinishRecovery, indexes
  <2>2. pc' \in [Workers -> Steps] /\ seen' \in [Workers -> TxStates]
    BY <1>10 DEF FinishRecovery, Goto, Knows
  <2>3. UNCHANGED <<rows, leases, cancel, todo, album, verdict, final, boundary, bounds>>
    BY <1>10 DEF FinishRecovery
  <2> QED
    BY <2>1, <2>2, <2>3 DEF rows, leases, bounds
<1>11. ASSUME NEW w \in Workers, WorkFails(w)
     PROVE  RunTypeOK'
  BY <1>11 DEF WorkFails, vars, rows, leases, indexes, locals, bounds, Goto, SetTx, Knows, Leave, More
<1>12. ASSUME NEW w \in Workers, WorkStops(w)
     PROVE  RunTypeOK'
  BY <1>12 DEF WorkStops, vars, rows, leases, indexes, locals, bounds, Goto, SetTx, Knows, Leave, More
<1>13. ASSUME NEW w \in Workers, CommandFails(w)
     PROVE  RunTypeOK'
  BY <1>13 DEF CommandFails, vars, rows, leases, indexes, locals, bounds, Goto, SetTx, Knows, More
<1>14. ASSUME NEW w \in Workers, RecoveryPreflightFails(w)
     PROVE  RunTypeOK'
  BY <1>14 DEF RecoveryPreflightFails, vars, rows, leases, indexes, locals, bounds, Goto, SetTx, Knows, More
<1>15. ASSUME NEW w \in Recoverers, NEW a \in Albums, StartRecovery(w, a)
     PROVE  RunTypeOK'
  BY <1>15 DEF StartRecovery, Recoverable, vars, rows, leases, indexes, locals, bounds, Goto, SetTx, Knows
<1>16. CASE Capture
  BY <1>16 DEF Capture, vars, rows, leases, indexes, locals, bounds, Goto, SetTx, Knows, HasPlan
<1>17. CASE CommitLease
  <2>1. lease' \in Workers \cup {"none"} /\ leaseLive' \in BOOLEAN /\ todo' \subseteq Albums
    BY <1>17 DEF CommitLease, Take, leases
  <2>2. pc' \in [Workers -> Steps]
    BY <1>17 DEF CommitLease, Goto
  <2>3. UNCHANGED <<rows, indexes, cancel, album, seen, verdict, final, boundary, bounds>>
    BY <1>17 DEF CommitLease
  <2> QED
    BY <2>1, <2>2, <2>3 DEF rows, indexes, bounds
<1>18. CASE NextAlbum
  <2>1. lease' \in Workers \cup {"none"} /\ leaseLive' \in BOOLEAN
    BY <1>18 DEF NextAlbum, leases
  <2>2. todo' \subseteq Albums /\ album' \in [Workers -> Albums]
    BY <1>18 DEF NextAlbum
  <2>3. pc' \in [Workers -> Steps]
    BY <1>18 DEF NextAlbum, Goto
  <2>4. UNCHANGED <<rows, indexes, cancel, seen, verdict, final, boundary, bounds>>
    BY <1>18 DEF NextAlbum
  <2> QED
    BY <2>1, <2>2, <2>3, <2>4 DEF rows, indexes, bounds
<1>19. CASE LoopDone
  BY <1>19 DEF LoopDone, vars, rows, leases, indexes, locals, bounds, Goto, SetTx, Knows
<1>20. CASE EnterAlbum
  BY <1>20 DEF EnterAlbum, vars, rows, leases, indexes, locals, bounds, Goto, SetTx, Knows, More
<1>21. CASE FinalState
  BY <1>21 DEF FinalState, vars, rows, leases, indexes, locals, bounds, Goto, SetTx, Knows
<1>22. CASE UpdateIndex
  BY <1>22 DEF UpdateIndex, Upserted, CommittedAfter, vars, rows, leases, indexes, locals, bounds, Goto, SetTx, Knows
<1>23. CASE StartCommit
  BY <1>23 DEF StartCommit, vars, rows, leases, indexes, locals, bounds, Goto, SetTx, Knows
<1>24. CASE CancelCommit
  BY <1>24 DEF CancelCommit, vars, rows, leases, indexes, locals, bounds, Goto, SetTx, Knows, More
<1>25. CASE AbandonWorkflow
  BY <1>25 DEF AbandonWorkflow, vars, rows, leases, indexes, locals, bounds, Goto, SetTx, Knows, HasPlan
<1>26. CASE LoadIndex
  BY <1>26 DEF LoadIndex, vars, rows, leases, indexes, locals, bounds, Goto, SetTx, Knows
<1>27. CASE Expire
  <2>1. faults' \in Nat /\ faults' + cancels <= MaxTroubles /\ cancels' = cancels
    BY <1>27 DEF Expire, More
  <2> QED
    BY <1>27, <2>1 DEF Expire, rows, indexes, locals
<1>28. CASE Crash
  <2>1. faults' \in Nat /\ faults' + cancels <= MaxTroubles /\ cancels' = cancels
    BY <1>28 DEF Crash, More
  <2>2. pc' \in [Workers -> Steps]
    BY <1>28 DEF Crash
  <2> QED
    BY <1>28, <2>1, <2>2 DEF Crash, rows, leases, locals
<1>29. ASSUME NEW w \in Workers, WorkCommitted(w)
     PROVE  RunTypeOK'
  BY <1>29 DEF WorkCommitted, vars, rows, leases, indexes, locals, bounds, Goto, SetTx, Knows, Leave, More
<1>30. ASSUME NEW w \in Workers, WorkClean(w)
     PROVE  RunTypeOK'
  BY <1>30 DEF WorkClean, vars, rows, leases, indexes, locals, bounds, Goto, SetTx, Knows, Leave, More
<1>31. ASSUME NEW w \in Workers, CleanupFails(w)
     PROVE  RunTypeOK'
  BY <1>31 DEF CleanupFails, vars, rows, leases, indexes, locals, bounds, Goto, SetTx, Knows, Leave, More
<1>32. ASSUME NEW w \in Workers, WorkRestages(w)
     PROVE  RunTypeOK'
  BY <1>32 DEF WorkRestages, vars, rows, leases, indexes, locals, bounds, Goto, SetTx, Knows, Leave, More
<1> QED
  BY <1>1, <1>2, <1>3, <1>4, <1>5, <1>6, <1>7, <1>8, <1>9, <1>10, <1>11, <1>12, <1>13, <1>14, <1>15, <1>16, <1>17, <1>18, <1>19, <1>20, <1>21, <1>22, <1>23, <1>24, <1>25, <1>26, <1>27, <1>28,
     <1>29, <1>30, <1>31, <1>32
     DEF Next, WorkerStep, WorkStep, Reconcile, CommitStep, Failure, User

\* Every step keeps what the library rows vouch for: rows are never removed, so a
\* decision taken from old reads is still true when it is written.
LEMMA RecordStep ==
    ASSUME RunTypeOK, RecordInv, [Next]_vars
    PROVE  RecordInv'
<1> USE RunAssumption DEF RecordInv, CompletedMeansRecorded, RunTypeOK, Workers, Active, OnAlbum
<1>1. CASE UNCHANGED vars
  BY <1>1 DEF vars, rows, leases, indexes, locals, bounds
<1>2. ASSUME NEW w \in Workers, WorkVerify(w)
     PROVE  RecordInv'
  BY <1>2 DEF WorkVerify, vars, rows, leases, indexes, locals, bounds, Goto, SetTx, Knows, Leave
<1>3. ASSUME NEW w \in Workers, WorkRecord(w)
     PROVE  RecordInv'
  BY <1>3 DEF WorkRecord, vars, rows, leases, indexes, locals, bounds, Goto, SetTx, Knows
<1>4. ASSUME NEW w \in Workers, WorkDispose(w)
     PROVE  RecordInv'
  BY <1>4 DEF WorkDispose, vars, rows, leases, indexes, locals, bounds, Goto, SetTx, Knows, Leave
<1>5. ASSUME NEW w \in Workers, Release(w)
     PROVE  RecordInv'
  BY <1>5 DEF Release, vars, rows, leases, indexes, locals, bounds, Goto, SetTx, Knows
<1>6. ASSUME NEW w \in Workers, ReadRun(w)
     PROVE  RecordInv'
  BY <1>6 DEF ReadRun, vars, rows, leases, indexes, locals, bounds, Goto, SetTx, Knows, After
<1>7. ASSUME NEW w \in Workers, ReadTransactions(w)
     PROVE  RecordInv'
  <2>1. Verdict = "completed" => library = Albums
    BY DEF Verdict, AllDone
  <2>2. /\ UNCHANGED <<run, tx, library, album, seen>>
        /\ \A v \in Workers : pc'[v] = pc[v] \/ pc'[v] \in {"rcwrite", "finish", "final", "beat"}
        /\ \A v \in Workers : verdict'[v] \in {verdict[v], Verdict}
    BY <1>7 DEF ReadTransactions, rows, Goto, After
  <2> QED
    BY <2>1, <2>2
<1>8. ASSUME NEW w \in Workers, WriteRun(w)
     PROVE  RecordInv'
  BY <1>8 DEF WriteRun, vars, rows, leases, indexes, locals, bounds, Goto, SetTx, Knows, After
<1>9. ASSUME NEW w \in Workers, RecoveryLease(w)
     PROVE  RecordInv'
  BY <1>9 DEF RecoveryLease, vars, rows, leases, indexes, locals, bounds, Goto, SetTx, Knows, Take, Obtainable
<1>10. ASSUME NEW w \in Workers, FinishRecovery(w)
     PROVE  RecordInv'
  BY <1>10 DEF FinishRecovery, vars, rows, leases, indexes, locals, bounds, Goto, SetTx, Knows
<1>11. ASSUME NEW w \in Workers, WorkFails(w)
     PROVE  RecordInv'
  BY <1>11 DEF WorkFails, vars, rows, leases, indexes, locals, bounds, Goto, SetTx, Knows, Leave, More
<1>12. ASSUME NEW w \in Workers, WorkStops(w)
     PROVE  RecordInv'
  BY <1>12 DEF WorkStops, vars, rows, leases, indexes, locals, bounds, Goto, SetTx, Knows, Leave, More
<1>13. ASSUME NEW w \in Workers, CommandFails(w)
     PROVE  RecordInv'
  BY <1>13 DEF CommandFails, vars, rows, leases, indexes, locals, bounds, Goto, SetTx, Knows, More
<1>14. ASSUME NEW w \in Workers, RecoveryPreflightFails(w)
     PROVE  RecordInv'
  BY <1>14 DEF RecoveryPreflightFails, vars, rows, leases, indexes, locals, bounds, Goto, SetTx, Knows, More
<1>15. ASSUME NEW w \in Recoverers, NEW a \in Albums, StartRecovery(w, a)
     PROVE  RecordInv'
  BY <1>15 DEF StartRecovery, Recoverable, vars, rows, leases, indexes, locals, bounds, Goto, SetTx, Knows
<1>16. CASE Capture
  BY <1>16 DEF Capture, vars, rows, leases, indexes, locals, bounds, Goto, SetTx, Knows, HasPlan
<1>17. CASE CommitLease
  BY <1>17 DEF CommitLease, vars, rows, leases, indexes, locals, bounds, Goto, SetTx, Knows, Take, Obtainable
<1>18. CASE NextAlbum
  BY <1>18 DEF NextAlbum, vars, rows, leases, indexes, locals, bounds, Goto, SetTx, Knows
<1>19. CASE LoopDone
  BY <1>19 DEF LoopDone, vars, rows, leases, indexes, locals, bounds, Goto, SetTx, Knows
<1>20. CASE EnterAlbum
  BY <1>20 DEF EnterAlbum, vars, rows, leases, indexes, locals, bounds, Goto, SetTx, Knows, More
<1>21. CASE FinalState
  BY <1>21 DEF FinalState, vars, rows, leases, indexes, locals, bounds, Goto, SetTx, Knows
<1>22. CASE UpdateIndex
  BY <1>22 DEF UpdateIndex, Upserted, CommittedAfter, vars, rows, leases, indexes, locals, bounds, Goto, SetTx, Knows
<1>23. CASE StartCommit
  BY <1>23 DEF StartCommit, vars, rows, leases, indexes, locals, bounds, Goto, SetTx, Knows
<1>24. CASE CancelCommit
  BY <1>24 DEF CancelCommit, vars, rows, leases, indexes, locals, bounds, Goto, SetTx, Knows, More
<1>25. CASE AbandonWorkflow
  BY <1>25 DEF AbandonWorkflow, vars, rows, leases, indexes, locals, bounds, Goto, SetTx, Knows, HasPlan
<1>26. CASE LoadIndex
  BY <1>26 DEF LoadIndex, vars, rows, leases, indexes, locals, bounds, Goto, SetTx, Knows
<1>27. CASE Expire
  BY <1>27 DEF Expire, vars, rows, leases, indexes, locals, bounds, Goto, SetTx, Knows, More
<1>28. CASE Crash
  BY <1>28 DEF Crash, vars, rows, leases, indexes, locals, bounds, Goto, SetTx, Knows, More
<1>29. ASSUME NEW w \in Workers, WorkCommitted(w)
     PROVE  RecordInv'
  BY <1>29 DEF WorkCommitted, vars, rows, leases, indexes, locals, bounds, Goto, SetTx, Knows, Leave, More
<1>30. ASSUME NEW w \in Workers, WorkClean(w)
     PROVE  RecordInv'
  BY <1>30 DEF WorkClean, vars, rows, leases, indexes, locals, bounds, Goto, SetTx, Knows, Leave, More
<1>31. ASSUME NEW w \in Workers, CleanupFails(w)
     PROVE  RecordInv'
  BY <1>31 DEF CleanupFails, vars, rows, leases, indexes, locals, bounds, Goto, SetTx, Knows, Leave, More
<1>32. ASSUME NEW w \in Workers, WorkRestages(w)
     PROVE  RecordInv'
  BY <1>32 DEF WorkRestages, vars, rows, leases, indexes, locals, bounds, Goto, SetTx, Knows, Leave, More
<1> QED
  BY <1>1, <1>2, <1>3, <1>4, <1>5, <1>6, <1>7, <1>8, <1>9, <1>10, <1>11, <1>12, <1>13, <1>14, <1>15, <1>16, <1>17, <1>18, <1>19, <1>20, <1>21, <1>22, <1>23, <1>24, <1>25, <1>26, <1>27, <1>28,
     <1>29, <1>30, <1>31, <1>32
     DEF Next, WorkerStep, WorkStep, Reconcile, CommitStep, Failure, User

\* Without a failure only the holder of a live lease works under it.
LEMMA LeaseStep ==
    ASSUME RunTypeOK, WritersHoldLease, [Next]_vars
    PROVE  WritersHoldLease'
<1> USE RunAssumption DEF WritersHoldLease, InLease, RunTypeOK, Workers, Active, OnAlbum
<1>1. CASE UNCHANGED vars
  BY <1>1 DEF vars, rows, leases, indexes, locals, bounds
<1>2. ASSUME NEW w \in Workers, WorkVerify(w)
     PROVE  WritersHoldLease'
  BY <1>2 DEF WorkVerify, vars, rows, leases, indexes, locals, bounds, Goto, SetTx, Knows, Leave
<1>3. ASSUME NEW w \in Workers, WorkRecord(w)
     PROVE  WritersHoldLease'
  BY <1>3 DEF WorkRecord, vars, rows, leases, indexes, locals, bounds, Goto, SetTx, Knows
<1>4. ASSUME NEW w \in Workers, WorkDispose(w)
     PROVE  WritersHoldLease'
  BY <1>4 DEF WorkDispose, vars, rows, leases, indexes, locals, bounds, Goto, SetTx, Knows, Leave
<1>5. ASSUME NEW w \in Workers, Release(w)
     PROVE  WritersHoldLease'
  BY <1>5 DEF Release, vars, rows, leases, indexes, locals, bounds, Goto, SetTx, Knows
<1>6. ASSUME NEW w \in Workers, ReadRun(w)
     PROVE  WritersHoldLease'
  BY <1>6 DEF ReadRun, vars, rows, leases, indexes, locals, bounds, Goto, SetTx, Knows, After
<1>7. ASSUME NEW w \in Workers, ReadTransactions(w)
     PROVE  WritersHoldLease'
  BY <1>7 DEF ReadTransactions, vars, rows, leases, indexes, locals, bounds, Goto, SetTx, Knows, After, HasPlan, Verdict, AllDone
<1>8. ASSUME NEW w \in Workers, WriteRun(w)
     PROVE  WritersHoldLease'
  BY <1>8 DEF WriteRun, vars, rows, leases, indexes, locals, bounds, Goto, SetTx, Knows, After
<1>9. ASSUME NEW w \in Workers, RecoveryLease(w)
     PROVE  WritersHoldLease'
  BY <1>9 DEF RecoveryLease, vars, rows, leases, indexes, locals, bounds, Goto, SetTx, Knows, Take, Obtainable
<1>10. ASSUME NEW w \in Workers, FinishRecovery(w)
     PROVE  WritersHoldLease'
  BY <1>10 DEF FinishRecovery, vars, rows, leases, indexes, locals, bounds, Goto, SetTx, Knows
<1>11. ASSUME NEW w \in Workers, WorkFails(w)
     PROVE  WritersHoldLease'
  BY <1>11 DEF WorkFails, vars, rows, leases, indexes, locals, bounds, Goto, SetTx, Knows, Leave, More
<1>12. ASSUME NEW w \in Workers, WorkStops(w)
     PROVE  WritersHoldLease'
  BY <1>12 DEF WorkStops, vars, rows, leases, indexes, locals, bounds, Goto, SetTx, Knows, Leave, More
<1>13. ASSUME NEW w \in Workers, CommandFails(w)
     PROVE  WritersHoldLease'
  BY <1>13 DEF CommandFails, vars, rows, leases, indexes, locals, bounds, Goto, SetTx, Knows, More
<1>14. ASSUME NEW w \in Workers, RecoveryPreflightFails(w)
     PROVE  WritersHoldLease'
  BY <1>14 DEF RecoveryPreflightFails, vars, rows, leases, indexes, locals, bounds, Goto, SetTx, Knows, More
<1>15. ASSUME NEW w \in Recoverers, NEW a \in Albums, StartRecovery(w, a)
     PROVE  WritersHoldLease'
  BY <1>15 DEF StartRecovery, Recoverable, vars, rows, leases, indexes, locals, bounds, Goto, SetTx, Knows
<1>16. CASE Capture
  BY <1>16 DEF Capture, vars, rows, leases, indexes, locals, bounds, Goto, SetTx, Knows, HasPlan
<1>17. CASE CommitLease
  BY <1>17 DEF CommitLease, vars, rows, leases, indexes, locals, bounds, Goto, SetTx, Knows, Take, Obtainable
<1>18. CASE NextAlbum
  BY <1>18 DEF NextAlbum, vars, rows, leases, indexes, locals, bounds, Goto, SetTx, Knows
<1>19. CASE LoopDone
  BY <1>19 DEF LoopDone, vars, rows, leases, indexes, locals, bounds, Goto, SetTx, Knows
<1>20. CASE EnterAlbum
  BY <1>20 DEF EnterAlbum, vars, rows, leases, indexes, locals, bounds, Goto, SetTx, Knows, More
<1>21. CASE FinalState
  BY <1>21 DEF FinalState, vars, rows, leases, indexes, locals, bounds, Goto, SetTx, Knows
<1>22. CASE UpdateIndex
  BY <1>22 DEF UpdateIndex, Upserted, CommittedAfter, vars, rows, leases, indexes, locals, bounds, Goto, SetTx, Knows
<1>23. CASE StartCommit
  BY <1>23 DEF StartCommit, vars, rows, leases, indexes, locals, bounds, Goto, SetTx, Knows
<1>24. CASE CancelCommit
  BY <1>24 DEF CancelCommit, vars, rows, leases, indexes, locals, bounds, Goto, SetTx, Knows, More
<1>25. CASE AbandonWorkflow
  BY <1>25 DEF AbandonWorkflow, vars, rows, leases, indexes, locals, bounds, Goto, SetTx, Knows, HasPlan
<1>26. CASE LoadIndex
  BY <1>26 DEF LoadIndex, vars, rows, leases, indexes, locals, bounds, Goto, SetTx, Knows
<1>27. CASE Expire
  BY <1>27 DEF Expire, vars, rows, leases, indexes, locals, bounds, Goto, SetTx, Knows, More
<1>28. CASE Crash
  BY <1>28 DEF Crash, vars, rows, leases, indexes, locals, bounds, Goto, SetTx, Knows, More
<1>29. ASSUME NEW w \in Workers, WorkCommitted(w)
     PROVE  WritersHoldLease'
  BY <1>29 DEF WorkCommitted, vars, rows, leases, indexes, locals, bounds, Goto, SetTx, Knows, Leave, More
<1>30. ASSUME NEW w \in Workers, WorkClean(w)
     PROVE  WritersHoldLease'
  BY <1>30 DEF WorkClean, vars, rows, leases, indexes, locals, bounds, Goto, SetTx, Knows, Leave, More
<1>31. ASSUME NEW w \in Workers, CleanupFails(w)
     PROVE  WritersHoldLease'
  BY <1>31 DEF CleanupFails, vars, rows, leases, indexes, locals, bounds, Goto, SetTx, Knows, Leave, More
<1>32. ASSUME NEW w \in Workers, WorkRestages(w)
     PROVE  WritersHoldLease'
  BY <1>32 DEF WorkRestages, vars, rows, leases, indexes, locals, bounds, Goto, SetTx, Knows, Leave, More
<1> QED
  BY <1>1, <1>2, <1>3, <1>4, <1>5, <1>6, <1>7, <1>8, <1>9, <1>10, <1>11, <1>12, <1>13, <1>14, <1>15, <1>16, <1>17, <1>18, <1>19, <1>20, <1>21, <1>22, <1>23, <1>24, <1>25, <1>26, <1>27, <1>28,
     <1>29, <1>30, <1>31, <1>32
     DEF Next, WorkerStep, WorkStep, Reconcile, CommitStep, Failure, User

\* A run with a transaction is never ended, and an ended one gets none.
LEMMA EndedStep ==
    ASSUME RunTypeOK, EndedInv, [Next]_vars
    PROVE  EndedInv'
<1> USE RunAssumption DEF EndedInv, EndedRunBeganNothing, RunTypeOK, Workers, Active, OnAlbum
<1>1. CASE UNCHANGED vars
  BY <1>1 DEF vars, rows, leases, indexes, locals, bounds
<1>2. ASSUME NEW w \in Workers, WorkVerify(w)
     PROVE  EndedInv'
  BY <1>2 DEF WorkVerify, vars, rows, leases, indexes, locals, bounds, Goto, SetTx, Knows, Leave
<1>3. ASSUME NEW w \in Workers, WorkRecord(w)
     PROVE  EndedInv'
  BY <1>3 DEF WorkRecord, vars, rows, leases, indexes, locals, bounds, Goto, SetTx, Knows
<1>4. ASSUME NEW w \in Workers, WorkDispose(w)
     PROVE  EndedInv'
  BY <1>4 DEF WorkDispose, vars, rows, leases, indexes, locals, bounds, Goto, SetTx, Knows, Leave
<1>5. ASSUME NEW w \in Workers, Release(w)
     PROVE  EndedInv'
  BY <1>5 DEF Release, vars, rows, leases, indexes, locals, bounds, Goto, SetTx, Knows
<1>6. ASSUME NEW w \in Workers, ReadRun(w)
     PROVE  EndedInv'
  BY <1>6 DEF ReadRun, vars, rows, leases, indexes, locals, bounds, Goto, SetTx, Knows, After
<1>7. ASSUME NEW w \in Workers, ReadTransactions(w)
     PROVE  EndedInv'
  BY <1>7 DEF ReadTransactions, vars, rows, leases, indexes, locals, bounds, Goto, SetTx, Knows, After, HasPlan, Verdict, AllDone
<1>8. ASSUME NEW w \in Workers, WriteRun(w)
     PROVE  EndedInv'
  BY <1>8 DEF WriteRun, vars, rows, leases, indexes, locals, bounds, Goto, SetTx, Knows, After
<1>9. ASSUME NEW w \in Workers, RecoveryLease(w)
     PROVE  EndedInv'
  BY <1>9 DEF RecoveryLease, vars, rows, leases, indexes, locals, bounds, Goto, SetTx, Knows, Take, Obtainable
<1>10. ASSUME NEW w \in Workers, FinishRecovery(w)
     PROVE  EndedInv'
  BY <1>10 DEF FinishRecovery, vars, rows, leases, indexes, locals, bounds, Goto, SetTx, Knows
<1>11. ASSUME NEW w \in Workers, WorkFails(w)
     PROVE  EndedInv'
  BY <1>11 DEF WorkFails, vars, rows, leases, indexes, locals, bounds, Goto, SetTx, Knows, Leave, More
<1>12. ASSUME NEW w \in Workers, WorkStops(w)
     PROVE  EndedInv'
  BY <1>12 DEF WorkStops, vars, rows, leases, indexes, locals, bounds, Goto, SetTx, Knows, Leave, More
<1>13. ASSUME NEW w \in Workers, CommandFails(w)
     PROVE  EndedInv'
  BY <1>13 DEF CommandFails, vars, rows, leases, indexes, locals, bounds, Goto, SetTx, Knows, More
<1>14. ASSUME NEW w \in Workers, RecoveryPreflightFails(w)
     PROVE  EndedInv'
  BY <1>14 DEF RecoveryPreflightFails, vars, rows, leases, indexes, locals, bounds, Goto, SetTx, Knows, More
<1>15. ASSUME NEW w \in Recoverers, NEW a \in Albums, StartRecovery(w, a)
     PROVE  EndedInv'
  BY <1>15 DEF StartRecovery, Recoverable, vars, rows, leases, indexes, locals, bounds, Goto, SetTx, Knows
<1>16. CASE Capture
  BY <1>16 DEF Capture, vars, rows, leases, indexes, locals, bounds, Goto, SetTx, Knows, HasPlan
<1>17. CASE CommitLease
  BY <1>17 DEF CommitLease, vars, rows, leases, indexes, locals, bounds, Goto, SetTx, Knows, Take, Obtainable
<1>18. CASE NextAlbum
  BY <1>18 DEF NextAlbum, vars, rows, leases, indexes, locals, bounds, Goto, SetTx, Knows
<1>19. CASE LoopDone
  BY <1>19 DEF LoopDone, vars, rows, leases, indexes, locals, bounds, Goto, SetTx, Knows
<1>20. CASE EnterAlbum
  BY <1>20 DEF EnterAlbum, vars, rows, leases, indexes, locals, bounds, Goto, SetTx, Knows, More
<1>21. CASE FinalState
  BY <1>21 DEF FinalState, vars, rows, leases, indexes, locals, bounds, Goto, SetTx, Knows
<1>22. CASE UpdateIndex
  BY <1>22 DEF UpdateIndex, Upserted, CommittedAfter, vars, rows, leases, indexes, locals, bounds, Goto, SetTx, Knows
<1>23. CASE StartCommit
  BY <1>23 DEF StartCommit, vars, rows, leases, indexes, locals, bounds, Goto, SetTx, Knows
<1>24. CASE CancelCommit
  BY <1>24 DEF CancelCommit, vars, rows, leases, indexes, locals, bounds, Goto, SetTx, Knows, More
<1>25. CASE AbandonWorkflow
  BY <1>25 DEF AbandonWorkflow, vars, rows, leases, indexes, locals, bounds, Goto, SetTx, Knows, HasPlan
<1>26. CASE LoadIndex
  BY <1>26 DEF LoadIndex, vars, rows, leases, indexes, locals, bounds, Goto, SetTx, Knows
<1>27. CASE Expire
  BY <1>27 DEF Expire, vars, rows, leases, indexes, locals, bounds, Goto, SetTx, Knows, More
<1>28. CASE Crash
  BY <1>28 DEF Crash, vars, rows, leases, indexes, locals, bounds, Goto, SetTx, Knows, More
<1>29. ASSUME NEW w \in Workers, WorkCommitted(w)
     PROVE  EndedInv'
  BY <1>29 DEF WorkCommitted, vars, rows, leases, indexes, locals, bounds, Goto, SetTx, Knows, Leave, More
<1>30. ASSUME NEW w \in Workers, WorkClean(w)
     PROVE  EndedInv'
  BY <1>30 DEF WorkClean, vars, rows, leases, indexes, locals, bounds, Goto, SetTx, Knows, Leave, More
<1>31. ASSUME NEW w \in Workers, CleanupFails(w)
     PROVE  EndedInv'
  BY <1>31 DEF CleanupFails, vars, rows, leases, indexes, locals, bounds, Goto, SetTx, Knows, Leave, More
<1>32. ASSUME NEW w \in Workers, WorkRestages(w)
     PROVE  EndedInv'
  BY <1>32 DEF WorkRestages, vars, rows, leases, indexes, locals, bounds, Goto, SetTx, Knows, Leave, More
<1> QED
  BY <1>1, <1>2, <1>3, <1>4, <1>5, <1>6, <1>7, <1>8, <1>9, <1>10, <1>11, <1>12, <1>13, <1>14, <1>15, <1>16, <1>17, <1>18, <1>19, <1>20, <1>21, <1>22, <1>23, <1>24, <1>25, <1>26, <1>27, <1>28,
     <1>29, <1>30, <1>31, <1>32
     DEF Next, WorkerStep, WorkStep, Reconcile, CommitStep, Failure, User

\* Without a failure, what is recorded is not forgotten by the index.
LEMMA IndexStep ==
    ASSUME RunTypeOK, WritersHoldLease, EndedInv, IndexInv, [Next]_vars
    PROVE  IndexInv'
<1> USE RunAssumption DEF IndexInv, WillDrop, WillUpdate, RunTypeOK, Workers, Active, OnAlbum
<1>1. CASE UNCHANGED vars
  BY <1>1 DEF vars, rows, leases, indexes, locals, bounds
<1>2. ASSUME NEW w \in Workers, WorkVerify(w)
     PROVE  IndexInv'
  BY <1>2 DEF WorkVerify, vars, rows, leases, indexes, locals, bounds, Goto, SetTx, Knows, Leave
<1>3. ASSUME NEW w \in Workers, WorkRecord(w)
     PROVE  IndexInv'
  BY <1>3 DEF WorkRecord, vars, rows, leases, indexes, locals, bounds, Goto, SetTx, Knows
<1>4. ASSUME NEW w \in Workers, WorkDispose(w)
     PROVE  IndexInv'
  BY <1>4 DEF WorkDispose, vars, rows, leases, indexes, locals, bounds, Goto, SetTx, Knows, Leave
<1>5. ASSUME NEW w \in Workers, Release(w)
     PROVE  IndexInv'
  BY <1>5 DEF Release, vars, rows, leases, indexes, locals, bounds, Goto, SetTx, Knows
<1>6. ASSUME NEW w \in Workers, ReadRun(w)
     PROVE  IndexInv'
  <2>1. w = "commit" => run \in {"committing", "recovery_required", "completed"}
    BY <1>6 DEF ReadRun, EndedInv
  <2> QED
    BY <1>6, <2>1 DEF ReadRun, vars, rows, leases, indexes, locals, bounds, Goto, After
<1>7. ASSUME NEW w \in Workers, ReadTransactions(w)
     PROVE  IndexInv'
  BY <1>7 DEF ReadTransactions, vars, rows, leases, indexes, locals, bounds, Goto, SetTx, Knows, After, HasPlan, Verdict, AllDone
<1>8. ASSUME NEW w \in Workers, WriteRun(w)
     PROVE  IndexInv'
  BY <1>8 DEF WriteRun, vars, rows, leases, indexes, locals, bounds, Goto, SetTx, Knows, After
<1>9. ASSUME NEW w \in Workers, RecoveryLease(w)
     PROVE  IndexInv'
  BY <1>9 DEF RecoveryLease, vars, rows, leases, indexes, locals, bounds, Goto, SetTx, Knows, Take, Obtainable
<1>10. ASSUME NEW w \in Workers, FinishRecovery(w)
     PROVE  IndexInv'
  BY <1>10 DEF FinishRecovery, vars, rows, leases, indexes, locals, bounds, Goto, SetTx, Knows
<1>11. ASSUME NEW w \in Workers, WorkFails(w)
     PROVE  IndexInv'
  BY <1>11 DEF WorkFails, vars, rows, leases, indexes, locals, bounds, Goto, SetTx, Knows, Leave, More
<1>12. ASSUME NEW w \in Workers, WorkStops(w)
     PROVE  IndexInv'
  BY <1>12 DEF WorkStops, vars, rows, leases, indexes, locals, bounds, Goto, SetTx, Knows, Leave, More
<1>13. ASSUME NEW w \in Workers, CommandFails(w)
     PROVE  IndexInv'
  BY <1>13 DEF CommandFails, vars, rows, leases, indexes, locals, bounds, Goto, SetTx, Knows, More
<1>14. ASSUME NEW w \in Workers, RecoveryPreflightFails(w)
     PROVE  IndexInv'
  BY <1>14 DEF RecoveryPreflightFails, vars, rows, leases, indexes, locals, bounds, Goto, SetTx, Knows, More
<1>15. ASSUME NEW w \in Recoverers, NEW a \in Albums, StartRecovery(w, a)
     PROVE  IndexInv'
  BY <1>15 DEF StartRecovery, Recoverable, vars, rows, leases, indexes, locals, bounds, Goto, SetTx, Knows
<1>16. CASE Capture
  BY <1>16 DEF Capture, vars, rows, leases, indexes, locals, bounds, Goto, SetTx, Knows, HasPlan
<1>17. CASE CommitLease
  BY <1>17 DEF CommitLease, vars, rows, leases, indexes, locals, bounds, Goto, SetTx, Knows, Take, Obtainable
<1>18. CASE NextAlbum
  <2>1. faults = 0 => lease = "commit"
    BY <1>18 DEF NextAlbum, WritersHoldLease, InLease
  <2> QED
    BY <1>18, <2>1 DEF NextAlbum, rows, indexes, bounds, Goto
<1>19. CASE LoopDone
  BY <1>19 DEF LoopDone, vars, rows, leases, indexes, locals, bounds, Goto, SetTx, Knows
<1>20. CASE EnterAlbum
  BY <1>20 DEF EnterAlbum, vars, rows, leases, indexes, locals, bounds, Goto, SetTx, Knows, More
<1>21. CASE FinalState
  BY <1>21 DEF FinalState, vars, rows, leases, indexes, locals, bounds, Goto, SetTx, Knows
<1>22. CASE UpdateIndex
  BY <1>22 DEF UpdateIndex, Upserted, CommittedAfter, vars, rows, leases, indexes, locals, bounds, Goto, SetTx, Knows
<1>23. CASE StartCommit
  BY <1>23 DEF StartCommit, vars, rows, leases, indexes, locals, bounds, Goto, SetTx, Knows
<1>24. CASE CancelCommit
  BY <1>24 DEF CancelCommit, vars, rows, leases, indexes, locals, bounds, Goto, SetTx, Knows, More
<1>25. CASE AbandonWorkflow
  BY <1>25 DEF AbandonWorkflow, vars, rows, leases, indexes, locals, bounds, Goto, SetTx, Knows, HasPlan
<1>26. CASE LoadIndex
  BY <1>26 DEF LoadIndex, vars, rows, leases, indexes, locals, bounds, Goto, SetTx, Knows
<1>27. CASE Expire
  BY <1>27 DEF Expire, vars, rows, leases, indexes, locals, bounds, Goto, SetTx, Knows, More
<1>28. CASE Crash
  BY <1>28 DEF Crash, vars, rows, leases, indexes, locals, bounds, Goto, SetTx, Knows, More
<1>29. ASSUME NEW w \in Workers, WorkCommitted(w)
     PROVE  IndexInv'
  BY <1>29 DEF WorkCommitted, vars, rows, leases, indexes, locals, bounds, Goto, SetTx, Knows, Leave, More
<1>30. ASSUME NEW w \in Workers, WorkClean(w)
     PROVE  IndexInv'
  <2>1. pc[w] = "clean" /\ seen[w] = "done"
    BY <1>30 DEF WorkClean, EndedInv
  <2> QED
    BY <1>30, <2>1 DEF WorkClean, vars, rows, leases, indexes, locals, bounds, Goto, Leave
<1>31. ASSUME NEW w \in Workers, CleanupFails(w)
     PROVE  IndexInv'
  BY <1>31 DEF CleanupFails, vars, rows, leases, indexes, locals, bounds, Goto, SetTx, Knows, Leave, More
<1>32. ASSUME NEW w \in Workers, WorkRestages(w)
     PROVE  IndexInv'
  BY <1>32 DEF WorkRestages, vars, rows, leases, indexes, locals, bounds, Goto, SetTx, Knows, Leave, More
<1> QED
  BY <1>1, <1>2, <1>3, <1>4, <1>5, <1>6, <1>7, <1>8, <1>9, <1>10, <1>11, <1>12, <1>13, <1>14, <1>15, <1>16, <1>17, <1>18, <1>19, <1>20, <1>21, <1>22, <1>23, <1>24, <1>25, <1>26, <1>27, <1>28,
     <1>29, <1>30, <1>31, <1>32
     DEF Next, WorkerStep, WorkStep, Reconcile, CommitStep, Failure, User

-----------------------------------------------------------------------------
\* The inductive invariant holds in every reachable state.
THEOREM RunInvariant == Spec => []RunInv
<1>1. Init => RunInv
  BY InitRunInv
<1>2. RunInv /\ [Next]_vars => RunInv'
  BY TypeStep, RecordStep, LeaseStep, EndedStep, IndexStep DEF RunInv
<1> QED
  BY <1>1, <1>2, PTL DEF Spec

\* Type correctness of the run, its workers, lease and index.
THEOREM RunTypeCorrect == Spec => []RunTypeOK
<1>1. RunInv => RunTypeOK
  BY DEF RunInv, RecordInv, EndedInv
<1> QED
  BY <1>1, RunInvariant, PTL

\* A completed run has all its albums in the library, with any number of recoveries
\* and their stale reads beside the commit.
THEOREM CompletedIsRecorded == Spec => []CompletedMeansRecorded
<1>1. RunInv => CompletedMeansRecorded
  BY DEF RunInv, RecordInv, EndedInv
<1> QED
  BY <1>1, RunInvariant, PTL

\* Without failures the library root has one writer at a time, however many ask.
THEOREM LeaseExcludes == Spec => []WritersHoldLease
<1>1. RunInv => WritersHoldLease
  BY DEF RunInv, RecordInv, EndedInv
<1> QED
  BY <1>1, RunInvariant, PTL

\* No cancelled or abandoned run has a transaction that nobody would recover.
THEOREM EndedRunIsEmpty == Spec => []EndedRunBeganNothing
<1>1. RunInv => EndedRunBeganNothing
  BY DEF RunInv, RecordInv, EndedInv
<1> QED
  BY <1>1, RunInvariant, PTL

\* Without failures a loaded index has every album of the library once all commands
\* have ended, however commits, recoveries and scans took turns.
THEOREM IndexIsComplete == Spec => []IndexFollowsLibrary
<1>1. ASSUME RunInv PROVE IndexFollowsLibrary
  <2> SUFFICES ASSUME faults = 0, indexUp, \A w \in Workers : pc[w] = "idle"
               PROVE  index = library
    BY DEF IndexFollowsLibrary
  <2>1. ~WillUpdate /\ \A w \in Recoverers : ~WillDrop(w)
    BY DEF WillUpdate, WillDrop, Workers
  <2> QED
    BY <1>1, <2>1 DEF RunInv, IndexInv
<1> QED
  BY <1>1, RunInvariant, PTL
=============================================================================
