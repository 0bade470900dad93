----------------------- MODULE DatabaseControl_proofs -----------------------
(***************************************************************************)
(* Theorems about DatabaseControl, for every set of instances and items    *)
(* and every number of failures and resets.                                *)
(***************************************************************************)
EXTENDS DatabaseControl, TLAPS

\* The advisory lock: never exclusive beside shared; a task that works holds it
\* shared and a reset that has checked holds it exclusively.
LockInv ==
    /\ \A d \in Databases : exclusive[d] # NoDb => shared[d] = {}
    /\ \A i \in Instances :
          /\ taskDb[i] \in {NoDb, i, "external"}
          /\ opDb[i] \in {NoDb, i, "external"}
          /\ task[i] \in {"lock", "index", "work"} => taskDb[i] # NoDb
          /\ task[i] \in {"index", "work"} => i \in shared[taskDb[i]]
          /\ op[i] \in {"rlock", "rcheck", "rdrop", "target", "dump"} => opDb[i] # NoDb
          /\ op[i] \in {"rcheck", "rdrop"} => exclusive[opDb[i]] = i

\* The guard: who is at work holds a lease, and no task is beside an operation.
GuardInv ==
    \A i \in Instances :
        /\ task[i] # "idle" => "task" \in held[i]
        /\ "task" \in held[i] =>
              "migration" \notin held[i] /\ "operation" \notin held[i] /\ op[i] = "idle"
        /\ "migration" \in held[i] => "operation" \notin held[i] /\ op[i] # "idle"
        /\ "operation" \in held[i] => op[i] # "idle"
        /\ op[i] # "idle" => "migration" \in held[i] \/ "operation" \in held[i]
        /\ op[i] \in {"preflight", "source", "target", "dump", "import", "verify"} => "migration" \in held[i]
        /\ op[i] \in {"rlock", "rcheck", "rdrop", "leased", "refused", "managed", "connect", "external", "schema"} =>
              "operation" \in held[i]

\* Between operations the profile is what the settings say, and the index is of
\* its database.
ProfileInv ==
    ~HalfSwitches =>
        \A i \in Instances :
            /\ op[i] \notin {"connect", "profile"} => profile[i] = mode[i]
            /\ op[i] = "connect" => profile[i] = "managed"
            /\ op[i] = "profile" => mode[i] = "external"
            /\ op[i] \in {"preflight", "source"} => mode[i] = "managed"
            /\ op[i] \notin {"connect", "profile", "clear"} => index[i] \in {NoDb, Active(i)}
            /\ task[i] \in {"lock", "index", "work"} => taskDb[i] = Active(i)
            /\ task[i] = "work" => index[i] = taskDb[i]

\* The external database is reset after the check of a migration, or not at all.
CopyInv == MigrationLosesNothing /\ \A i \in Instances : copyEpoch[i] <= epoch["external"]

ControlInv == ControlTypeOK /\ LockInv /\ GuardInv /\ ResetIsSafe /\ CopyInv /\ ProfileInv

-----------------------------------------------------------------------------
\* An EXCEPT that keeps sets within S keeps the function within its type.
LEMMA SetsExcept ==
    ASSUME NEW D, NEW S, NEW f \in [D -> SUBSET S], NEW d, NEW T,
           d \in D => T \subseteq S
    PROVE  [f EXCEPT ![d] = T] \in [D -> SUBSET S]
OBVIOUS

\* An operation that goes to one of its steps.
LEMMA GoOpType ==
    ASSUME op \in [Instances -> OpSteps], NEW i, NEW s \in OpSteps, GoOp(i, s)
    PROVE  op' \in [Instances -> OpSteps]
BY DEF GoOp

\* The initial states satisfy the invariant.
LEMMA InitControlInv == Init => ControlInv
<1> SUFFICES ASSUME Init PROVE ControlInv
  OBVIOUS
<1> USE ControlAssumption DEF Init, Databases, NoDb
<1>1. ControlTypeOK
  <2>1. /\ items \in [Databases -> SUBSET Items]
        /\ txs \in [Databases -> SUBSET {"active", "imported", "archived", "removed"}]
        /\ epoch \in [Databases -> Nat] /\ shared \in [Databases -> SUBSET Instances]
        /\ exclusive \in [Databases -> Instances \cup {NoDb}]
    OBVIOUS
  <2>2. /\ mode \in [Instances -> {"managed", "external"}]
        /\ profile \in [Instances -> {"managed", "external"}]
    OBVIOUS
  <2>3. /\ index \in [Instances -> Databases \cup {NoDb}]
        /\ held \in [Instances -> SUBSET {"task", "migration", "operation"}]
        /\ task \in [Instances -> TaskSteps] /\ taskDb \in [Instances -> Databases \cup {NoDb}]
        /\ taskEpoch \in [Instances -> Nat]
    BY DEF TaskSteps
  <2>4. /\ op \in [Instances -> OpSteps] /\ opDb \in [Instances -> Databases \cup {NoDb}]
        /\ copy \in [Instances -> SUBSET Items] /\ copyEpoch \in [Instances -> Nat]
    BY DEF OpSteps
  <2>5. late \in [Instances -> BOOLEAN] /\ failures \in 0..MaxFailures
    OBVIOUS
  <2> QED
    BY <2>1, <2>2, <2>3, <2>4, <2>5 DEF ControlTypeOK
<1>2. LockInv /\ GuardInv /\ ResetIsSafe
  BY DEF LockInv, GuardInv, ResetIsSafe
<1>3. CopyInv
  BY DEF CopyInv, MigrationLosesNothing, Switching
<1>4. ProfileInv
  BY DEF ProfileInv, Active
<1> QED
  BY <1>1, <1>2, <1>3, <1>4 DEF ControlInv

\* Every step keeps types.
LEMMA TypeStep ==
    ASSUME ControlTypeOK, LockInv, [Next]_vars
    PROVE  ControlTypeOK'
<1> USE ControlAssumption DEF ControlTypeOK, TaskSteps, OpSteps, Databases, NoDb
<1>1. CASE UNCHANGED vars
  BY <1>1 DEF vars, stores, locks, settings, tasks, ops
<1>2. ASSUME NEW i \in Instances, BeginTask(i)
     PROVE  ControlTypeOK'
  BY <1>2 DEF BeginTask, Begin, MayBegin, GoTask, stores, locks, settings, tasks, ops
<1>3. ASSUME NEW i \in Instances, ConnectTask(i)
     PROVE  ControlTypeOK'
  BY <1>3 DEF ConnectTask, GoTask, Active, stores, locks, settings, tasks, ops
<1>4. ASSUME NEW i \in Instances, LockTask(i)
     PROVE  ControlTypeOK'
  <2>1. shared' \in [Databases -> SUBSET Instances] /\ taskEpoch' \in [Instances -> Nat]
    <3>1. taskDb[i] \in Databases
      BY <1>4 DEF LockTask, LockInv
    <3> QED
      BY <1>4, <3>1 DEF LockTask
  <2> QED
    BY <1>4, <2>1 DEF LockTask, GoTask, Obtainable, stores, locks, settings, tasks, ops
<1>5. ASSUME NEW i \in Instances, LoadIndex(i)
     PROVE  ControlTypeOK'
  BY <1>5 DEF LoadIndex, GoTask, stores, locks, settings, tasks, ops
<1>6. ASSUME NEW i \in Instances, OpenTransaction(i)
     PROVE  ControlTypeOK'
  BY <1>6 DEF OpenTransaction, stores, locks, settings, tasks, ops
<1>7. ASSUME NEW i \in Instances, Record(i)
     PROVE  ControlTypeOK'
  <2>1. items' \in [Databases -> SUBSET Items]
    <3>1. PICK x \in Items \ Decisions : items' = [items EXCEPT ![taskDb[i]] = items[taskDb[i]] \cup {x}]
      BY <1>7 DEF Record
    <3>2. taskDb[i] \in Databases => items[taskDb[i]] \cup {x} \subseteq Items
      OBVIOUS
    <3> QED
      BY ONLY <3>1, <3>2, ControlTypeOK, SetsExcept DEF ControlTypeOK
  <2>2. txs' \in [Databases -> SUBSET {"active", "imported", "archived", "removed"}]
    <3>1. PICK t \in Unfinished(taskDb[i]), end \in {"archived", "removed"} :
             txs' = [txs EXCEPT ![taskDb[i]] = (txs[taskDb[i]] \ {t}) \cup {end}]
      BY <1>7 DEF Record
    <3>2. taskDb[i] \in Databases =>
              (txs[taskDb[i]] \ {t}) \cup {end} \subseteq {"active", "imported", "archived", "removed"}
      OBVIOUS
    <3>3. txs \in [Databases -> SUBSET {"active", "imported", "archived", "removed"}]
      OBVIOUS
    <3> QED
      BY ONLY <3>1, <3>2, <3>3, SetsExcept
  <2> QED
    BY <1>7, <2>1, <2>2 DEF Record, Unfinished, stores, locks, settings, tasks, ops
<1>8. ASSUME NEW i \in Instances, EndTask(i)
     PROVE  ControlTypeOK'
  BY <1>8 DEF EndTask, StopTask, GoTask, Done, Unlocked, stores, locks, settings, tasks, ops
<1>9. ASSUME NEW i \in Instances, FailTask(i)
     PROVE  ControlTypeOK'
  BY <1>9 DEF FailTask, StopTask, GoTask, Done, Unlocked, Fault, stores, locks, settings, tasks, ops
<1>10. ASSUME NEW i \in Instances, BeginReset(i)
     PROVE  ControlTypeOK'
  BY <1>10 DEF BeginReset, Begin, MayBegin, GoOp, Active, stores, locks, settings, tasks, ops
<1>11. ASSUME NEW i \in Instances, LockReset(i)
     PROVE  ControlTypeOK'
  BY <1>11 DEF LockReset, GoOp, Free, stores, locks, settings, tasks, ops
<1>12. ASSUME NEW i \in Instances, CheckReset(i)
     PROVE  ControlTypeOK'
  BY <1>12 DEF CheckReset, GoOp, Blockers, stores, locks, settings, tasks, ops
<1>13. ASSUME NEW i \in Instances, DropAndCreate(i)
     PROVE  ControlTypeOK'
  <2>1. /\ items' \in [Databases -> SUBSET Items]
        /\ txs' \in [Databases -> SUBSET {"active", "imported", "archived", "removed"}]
    BY <1>13 DEF DropAndCreate
  <2>2. epoch' \in [Databases -> Nat]
    <3>1. opDb[i] \in Databases
      BY <1>13 DEF DropAndCreate, LockInv
    <3> QED
      BY <1>13, <3>1 DEF DropAndCreate
  <2> QED
    BY <1>13, <2>1, <2>2 DEF DropAndCreate, GoOp, stores, locks, settings, tasks, ops
<1>14. ASSUME NEW i \in Instances, BeginSwitch(i)
     PROVE  ControlTypeOK'
  BY <1>14 DEF BeginSwitch, Begin, MayBegin, GoOp, stores, locks, settings, tasks, ops
<1>15. ASSUME NEW i \in Instances, ToManaged(i)
     PROVE  ControlTypeOK'
  BY <1>15 DEF ToManaged, GoOp, stores, locks, settings, tasks, ops
<1>16. ASSUME NEW i \in Instances, SetManaged(i)
     PROVE  ControlTypeOK'
  BY <1>16 DEF SetManaged, GoOp, stores, locks, settings, tasks, ops
<1>17. ASSUME NEW i \in Instances, Preflight(i)
     PROVE  ControlTypeOK'
  <2>1. op' \in [Instances -> OpSteps]
    BY ONLY <1>17, ControlTypeOK, GoOpType DEF Preflight, ControlTypeOK, OpSteps
  <2>2. failures' \in 0..MaxFailures
    BY <1>17 DEF Preflight, Fault
  <2>3. UNCHANGED <<stores, locks, settings, index, held, tasks, opDb, copy, copyEpoch, late>>
    BY <1>17 DEF Preflight
  <2> QED
    BY <2>1, <2>2, <2>3 DEF stores, locks, settings, tasks
<1>18. ASSUME NEW i \in Instances, UpgradeExternal(i)
     PROVE  ControlTypeOK'
  BY <1>18 DEF UpgradeExternal, GoOp, stores, locks, settings, tasks, ops
<1>19. ASSUME NEW i \in Instances, StoreExternal(i)
     PROVE  ControlTypeOK'
  BY <1>19 DEF StoreExternal, GoOp, stores, locks, settings, tasks, ops
<1>20. ASSUME NEW i \in Instances, ActivateExternal(i)
     PROVE  ControlTypeOK'
  BY <1>20 DEF ActivateExternal, GoOp, stores, locks, settings, tasks, ops
<1>21. ASSUME NEW i \in Instances, ClearIndex(i)
     PROVE  ControlTypeOK'
  BY <1>21 DEF ClearIndex, StopOp, GoOp, stores, locks, settings, tasks, ops
<1>22. ASSUME NEW i \in Instances, BeginMigration(i)
     PROVE  ControlTypeOK'
  BY <1>22 DEF BeginMigration, Begin, MayBegin, GoOp, stores, locks, settings, tasks, ops
<1>23. ASSUME NEW i \in Instances, OpenSource(i)
     PROVE  ControlTypeOK'
  BY <1>23 DEF OpenSource, GoOp, stores, locks, settings, tasks, ops
<1>24. ASSUME NEW i \in Instances, OpenTarget(i)
     PROVE  ControlTypeOK'
  <2>1. op' \in [Instances -> OpSteps]
    BY ONLY <1>24, ControlTypeOK, GoOpType DEF OpenTarget, ControlTypeOK, OpSteps
  <2>2. UNCHANGED <<stores, locks, settings, index, held, tasks, opDb, copy, copyEpoch, late, failures>>
    BY <1>24 DEF OpenTarget
  <2> QED
    BY <2>1, <2>2 DEF stores, locks, settings, tasks
<1>25. ASSUME NEW i \in Instances, Dump(i)
     PROVE  ControlTypeOK'
  <2>1. copy' \in [Instances -> SUBSET Items]
    <3>1. opDb[i] \in Databases
      BY <1>25 DEF Dump, LockInv
    <3> QED
      BY <1>25, <3>1 DEF Dump
  <2> QED
    BY <1>25, <2>1 DEF Dump, GoOp, stores, locks, settings, tasks, ops
<1>26. ASSUME NEW i \in Instances, Import(i)
     PROVE  ControlTypeOK'
  <2>1. Imported(txs[i]) \subseteq {"active", "imported", "archived", "removed"}
    BY DEF Imported
  <2>2. CASE /\ items' = [items EXCEPT !["external"] = @ \cup copy[i]]
             /\ txs' = [txs EXCEPT !["external"] = @ \cup Imported(txs[i])]
             /\ GoOp(i, "verify") /\ UNCHANGED <<held, opDb, copy, copyEpoch, late, failures>>
    BY <1>26, <2>1, <2>2 DEF Import, GoOp, StopOp, Done, Fault, stores, locks, settings, tasks, ops
  <2>3. CASE /\ \E part \in SUBSET copy[i] : items' = [items EXCEPT !["external"] = @ \cup part]
             /\ \E part \in SUBSET Imported(txs[i]) :
                   txs' = [txs EXCEPT !["external"] = @ \cup part]
             /\ Fault /\ StopOp(i) /\ Done(i, "migration")
    <3>1. items' \in [Databases -> SUBSET Items]
      <4>1. PICK part \in SUBSET copy[i] :
               items' = [items EXCEPT !["external"] = items["external"] \cup part]
        BY <2>3
      <4>2. items["external"] \cup part \subseteq Items
        BY <4>1
      <4>3. items \in [Databases -> SUBSET Items]
        OBVIOUS
      <4> QED
        BY ONLY <4>1, <4>2, <4>3, SetsExcept
    <3>2. txs' \in [Databases -> SUBSET {"active", "imported", "archived", "removed"}]
      <4>1. PICK part \in SUBSET Imported(txs[i]) :
               txs' = [txs EXCEPT !["external"] = txs["external"] \cup part]
        BY <2>3
      <4>2. txs["external"] \cup part \subseteq {"active", "imported", "archived", "removed"}
        BY <4>1, <2>1
      <4>3. txs \in [Databases -> SUBSET {"active", "imported", "archived", "removed"}]
        OBVIOUS
      <4> QED
        BY ONLY <4>1, <4>2, <4>3, SetsExcept
    <3> QED
      BY <1>26, <2>3, <3>1, <3>2 DEF Import, GoOp, StopOp, Done, Fault, stores, locks, settings, tasks, ops
  <2> QED
    BY <1>26, <2>2, <2>3 DEF Import
<1>27. ASSUME NEW i \in Instances, Verify(i)
     PROVE  ControlTypeOK'
  <2>1. op' \in [Instances -> OpSteps] /\ copyEpoch' \in [Instances -> Nat]
    <3>1. op' = [op EXCEPT ![i] = "store"] \/ op' = [op EXCEPT ![i] = "declined"]
      BY <1>27 DEF Verify, GoOp
    <3>2. copyEpoch' = copyEpoch \/ copyEpoch' = [copyEpoch EXCEPT ![i] = epoch["external"]]
      BY <1>27 DEF Verify
    <3>3. op \in [Instances -> OpSteps] /\ copyEpoch \in [Instances -> Nat] /\ epoch["external"] \in Nat
      OBVIOUS
    <3> QED
      BY ONLY <3>1, <3>2, <3>3 DEF OpSteps
  <2>2. UNCHANGED <<stores, locks, settings, index, held, tasks, opDb, copy, late, failures>>
    BY <1>27 DEF Verify
  <2> QED
    BY <2>1, <2>2 DEF stores, locks, settings, tasks
<1>28. ASSUME NEW i \in Instances, FailOp(i)
     PROVE  ControlTypeOK'
  BY <1>28 DEF FailOp, GoOp, StopOp, Fault, stores, locks, settings, tasks, ops
<1>29. ASSUME NEW i \in Instances, GetState(i)
     PROVE  ControlTypeOK'
  BY <1>29 DEF GetState, stores, locks, settings, tasks, ops
<1>30. ASSUME NEW i \in Instances, Restart(i)
     PROVE  ControlTypeOK'
  BY <1>30 DEF Restart, GoOp, StopOp, Fault, Unlocked, stores, locks, settings, tasks, ops
<1>31. ASSUME NEW i \in Instances, Analyze(i)
     PROVE  ControlTypeOK'
  <2>1. items' \in [Databases -> SUBSET Items]
    <3>1. PICK x \in Items \ Decisions : items' = [items EXCEPT ![taskDb[i]] = items[taskDb[i]] \cup {x}]
      BY <1>31 DEF Analyze
    <3>2. taskDb[i] \in Databases => items[taskDb[i]] \cup {x} \subseteq Items
      OBVIOUS
    <3> QED
      BY ONLY <3>1, <3>2, ControlTypeOK, SetsExcept DEF ControlTypeOK
  <2> QED
    BY <1>31, <2>1 DEF Analyze, stores, locks, settings, tasks, ops
<1>32. ASSUME NEW i \in Instances, Decide(i)
     PROVE  ControlTypeOK'
  <2>1. PICK d \in Connections(i), x \in Decisions :
           /\ items' = [items EXCEPT ![d] = items[d] \cup {x}]
           /\ late' = IF Switching(i) /\ d = i THEN [late EXCEPT ![i] = TRUE] ELSE late
    BY ONLY <1>32 DEF Decide
  <2>2. items' \in [Databases -> SUBSET Items]
    <3>1. d \in Databases => items[d] \cup {x} \subseteq Items
      OBVIOUS
    <3> QED
      BY ONLY <2>1, <3>1, ControlTypeOK, SetsExcept DEF ControlTypeOK
  <2>3. late' \in [Instances -> BOOLEAN]
    BY <2>1
  <2> QED
    BY <1>32, <2>2, <2>3 DEF Decide, stores, locks, settings, tasks, ops
<1> QED
  BY <1>1, <1>2, <1>3, <1>4, <1>5, <1>6, <1>7, <1>8, <1>9, <1>10, <1>11, <1>12, <1>13, <1>14, <1>15, <1>16, <1>17, <1>18, <1>19, <1>20, <1>21, <1>22, <1>23, <1>24, <1>25, <1>26, <1>27, <1>28, <1>29, <1>30, <1>31, <1>32 DEF Next, Task, Operation

\* Every step keeps the use of the advisory lock.
LEMMA LockStep ==
    ASSUME ControlTypeOK, LockInv, [Next]_vars
    PROVE  LockInv'
<1> USE ControlAssumption DEF ControlTypeOK, LockInv, Databases, NoDb
<1>1. CASE UNCHANGED vars
  BY <1>1 DEF vars, stores, locks, settings, tasks, ops
<1>2. ASSUME NEW i \in Instances, BeginTask(i)
     PROVE  LockInv'
  BY <1>2 DEF BeginTask, Begin, MayBegin, GoTask, stores, locks, settings, tasks, ops
<1>3. ASSUME NEW i \in Instances, ConnectTask(i)
     PROVE  LockInv'
  BY <1>3 DEF ConnectTask, GoTask, Active, stores, locks, settings, tasks, ops
<1>4. ASSUME NEW i \in Instances, LockTask(i)
     PROVE  LockInv'
  BY <1>4 DEF LockTask, GoTask, Obtainable, stores, locks, settings, tasks, ops
<1>5. ASSUME NEW i \in Instances, LoadIndex(i)
     PROVE  LockInv'
  BY <1>5 DEF LoadIndex, GoTask, stores, locks, settings, tasks, ops
<1>6. ASSUME NEW i \in Instances, OpenTransaction(i)
     PROVE  LockInv'
  BY <1>6 DEF OpenTransaction, stores, locks, settings, tasks, ops
<1>7. ASSUME NEW i \in Instances, Record(i)
     PROVE  LockInv'
  BY <1>7 DEF Record, Unfinished, stores, locks, settings, tasks, ops
<1>8. ASSUME NEW i \in Instances, EndTask(i)
     PROVE  LockInv'
  BY <1>8 DEF EndTask, StopTask, GoTask, Done, Unlocked, stores, locks, settings, tasks, ops
<1>9. ASSUME NEW i \in Instances, FailTask(i)
     PROVE  LockInv'
  BY <1>9 DEF FailTask, StopTask, GoTask, Done, Unlocked, Fault, stores, locks, settings, tasks, ops
<1>10. ASSUME NEW i \in Instances, BeginReset(i)
     PROVE  LockInv'
  BY <1>10 DEF BeginReset, Begin, MayBegin, GoOp, Active, stores, locks, settings, tasks, ops
<1>11. ASSUME NEW i \in Instances, LockReset(i)
     PROVE  LockInv'
  BY <1>11 DEF LockReset, GoOp, Free, stores, locks, settings, tasks, ops
<1>12. ASSUME NEW i \in Instances, CheckReset(i)
     PROVE  LockInv'
  BY <1>12 DEF CheckReset, GoOp, Blockers, stores, locks, settings, tasks, ops
<1>13. ASSUME NEW i \in Instances, DropAndCreate(i)
     PROVE  LockInv'
  BY <1>13 DEF DropAndCreate, GoOp, stores, locks, settings, tasks, ops
<1>14. ASSUME NEW i \in Instances, BeginSwitch(i)
     PROVE  LockInv'
  BY <1>14 DEF BeginSwitch, Begin, MayBegin, GoOp, stores, locks, settings, tasks, ops
<1>15. ASSUME NEW i \in Instances, ToManaged(i)
     PROVE  LockInv'
  BY <1>15 DEF ToManaged, GoOp, stores, locks, settings, tasks, ops
<1>16. ASSUME NEW i \in Instances, SetManaged(i)
     PROVE  LockInv'
  BY <1>16 DEF SetManaged, GoOp, stores, locks, settings, tasks, ops
<1>17. ASSUME NEW i \in Instances, Preflight(i)
     PROVE  LockInv'
  BY <1>17 DEF Preflight, GoOp, Fault, stores, locks, settings, tasks, ops
<1>18. ASSUME NEW i \in Instances, UpgradeExternal(i)
     PROVE  LockInv'
  BY <1>18 DEF UpgradeExternal, GoOp, stores, locks, settings, tasks, ops
<1>19. ASSUME NEW i \in Instances, StoreExternal(i)
     PROVE  LockInv'
  BY <1>19 DEF StoreExternal, GoOp, stores, locks, settings, tasks, ops
<1>20. ASSUME NEW i \in Instances, ActivateExternal(i)
     PROVE  LockInv'
  BY <1>20 DEF ActivateExternal, GoOp, stores, locks, settings, tasks, ops
<1>21. ASSUME NEW i \in Instances, ClearIndex(i)
     PROVE  LockInv'
  BY <1>21 DEF ClearIndex, StopOp, GoOp, stores, locks, settings, tasks, ops
<1>22. ASSUME NEW i \in Instances, BeginMigration(i)
     PROVE  LockInv'
  BY <1>22 DEF BeginMigration, Begin, MayBegin, GoOp, stores, locks, settings, tasks, ops
<1>23. ASSUME NEW i \in Instances, OpenSource(i)
     PROVE  LockInv'
  BY <1>23 DEF OpenSource, GoOp, stores, locks, settings, tasks, ops
<1>24. ASSUME NEW i \in Instances, OpenTarget(i)
     PROVE  LockInv'
  BY <1>24 DEF OpenTarget, GoOp, stores, locks, settings, tasks, ops
<1>25. ASSUME NEW i \in Instances, Dump(i)
     PROVE  LockInv'
  BY <1>25 DEF Dump, GoOp, stores, locks, settings, tasks, ops
<1>26. ASSUME NEW i \in Instances, Import(i)
     PROVE  LockInv'
  BY <1>26 DEF Import, GoOp, StopOp, Done, Fault, stores, locks, settings, tasks, ops
<1>27. ASSUME NEW i \in Instances, Verify(i)
     PROVE  LockInv'
  BY <1>27 DEF Verify, GoOp, stores, locks, settings, tasks, ops
<1>28. ASSUME NEW i \in Instances, FailOp(i)
     PROVE  LockInv'
  BY <1>28 DEF FailOp, GoOp, StopOp, Fault, stores, locks, settings, tasks, ops
<1>29. ASSUME NEW i \in Instances, GetState(i)
     PROVE  LockInv'
  BY <1>29 DEF GetState, stores, locks, settings, tasks, ops
<1>30. ASSUME NEW i \in Instances, Restart(i)
     PROVE  LockInv'
  BY <1>30 DEF Restart, GoOp, StopOp, Fault, Unlocked, stores, locks, settings, tasks, ops
<1>31. ASSUME NEW i \in Instances, Analyze(i)
     PROVE  LockInv'
  BY <1>31 DEF Analyze, stores, locks, settings, tasks, ops
<1>32. ASSUME NEW i \in Instances, Decide(i)
     PROVE  LockInv'
  BY <1>32 DEF Decide, Connections, Active, stores, locks, settings, tasks, ops
<1> QED
  BY <1>1, <1>2, <1>3, <1>4, <1>5, <1>6, <1>7, <1>8, <1>9, <1>10, <1>11, <1>12, <1>13, <1>14, <1>15, <1>16, <1>17, <1>18, <1>19, <1>20, <1>21, <1>22, <1>23, <1>24, <1>25, <1>26, <1>27, <1>28, <1>29, <1>30, <1>31, <1>32 DEF Next, Task, Operation

\* Every step keeps the leases of the guard.
LEMMA GuardStep ==
    ASSUME ControlTypeOK, GuardInv, [Next]_vars
    PROVE  GuardInv'
<1> USE ControlAssumption DEF ControlTypeOK, GuardInv, Databases, NoDb
<1>1. CASE UNCHANGED vars
  BY <1>1 DEF vars, stores, locks, settings, tasks, ops
<1>2. ASSUME NEW i \in Instances, BeginTask(i)
     PROVE  GuardInv'
  BY <1>2 DEF BeginTask, Begin, MayBegin, GoTask, stores, locks, settings, tasks, ops
<1>3. ASSUME NEW i \in Instances, ConnectTask(i)
     PROVE  GuardInv'
  BY <1>3 DEF ConnectTask, GoTask, Active, stores, locks, settings, tasks, ops
<1>4. ASSUME NEW i \in Instances, LockTask(i)
     PROVE  GuardInv'
  BY <1>4 DEF LockTask, GoTask, Obtainable, stores, locks, settings, tasks, ops
<1>5. ASSUME NEW i \in Instances, LoadIndex(i)
     PROVE  GuardInv'
  BY <1>5 DEF LoadIndex, GoTask, stores, locks, settings, tasks, ops
<1>6. ASSUME NEW i \in Instances, OpenTransaction(i)
     PROVE  GuardInv'
  BY <1>6 DEF OpenTransaction, stores, locks, settings, tasks, ops
<1>7. ASSUME NEW i \in Instances, Record(i)
     PROVE  GuardInv'
  BY <1>7 DEF Record, Unfinished, stores, locks, settings, tasks, ops
<1>8. ASSUME NEW i \in Instances, EndTask(i)
     PROVE  GuardInv'
  BY <1>8 DEF EndTask, StopTask, GoTask, Done, Unlocked, stores, locks, settings, tasks, ops
<1>9. ASSUME NEW i \in Instances, FailTask(i)
     PROVE  GuardInv'
  BY <1>9 DEF FailTask, StopTask, GoTask, Done, Unlocked, Fault, stores, locks, settings, tasks, ops
<1>10. ASSUME NEW i \in Instances, BeginReset(i)
     PROVE  GuardInv'
  BY <1>10 DEF BeginReset, Begin, MayBegin, GoOp, Active, stores, locks, settings, tasks, ops
<1>11. ASSUME NEW i \in Instances, LockReset(i)
     PROVE  GuardInv'
  BY <1>11 DEF LockReset, GoOp, Free, stores, locks, settings, tasks, ops
<1>12. ASSUME NEW i \in Instances, CheckReset(i)
     PROVE  GuardInv'
  BY <1>12 DEF CheckReset, GoOp, Blockers, stores, locks, settings, tasks, ops
<1>13. ASSUME NEW i \in Instances, DropAndCreate(i)
     PROVE  GuardInv'
  BY <1>13 DEF DropAndCreate, GoOp, stores, locks, settings, tasks, ops
<1>14. ASSUME NEW i \in Instances, BeginSwitch(i)
     PROVE  GuardInv'
  BY <1>14 DEF BeginSwitch, Begin, MayBegin, GoOp, stores, locks, settings, tasks, ops
<1>15. ASSUME NEW i \in Instances, ToManaged(i)
     PROVE  GuardInv'
  BY <1>15 DEF ToManaged, GoOp, stores, locks, settings, tasks, ops
<1>16. ASSUME NEW i \in Instances, SetManaged(i)
     PROVE  GuardInv'
  BY <1>16 DEF SetManaged, GoOp, stores, locks, settings, tasks, ops
<1>17. ASSUME NEW i \in Instances, Preflight(i)
     PROVE  GuardInv'
  BY <1>17 DEF Preflight, GoOp, Fault, stores, locks, settings, tasks, ops
<1>18. ASSUME NEW i \in Instances, UpgradeExternal(i)
     PROVE  GuardInv'
  BY <1>18 DEF UpgradeExternal, GoOp, stores, locks, settings, tasks, ops
<1>19. ASSUME NEW i \in Instances, StoreExternal(i)
     PROVE  GuardInv'
  BY <1>19 DEF StoreExternal, GoOp, stores, locks, settings, tasks, ops
<1>20. ASSUME NEW i \in Instances, ActivateExternal(i)
     PROVE  GuardInv'
  BY <1>20 DEF ActivateExternal, GoOp, stores, locks, settings, tasks, ops
<1>21. ASSUME NEW i \in Instances, ClearIndex(i)
     PROVE  GuardInv'
  BY <1>21 DEF ClearIndex, StopOp, GoOp, stores, locks, settings, tasks, ops
<1>22. ASSUME NEW i \in Instances, BeginMigration(i)
     PROVE  GuardInv'
  BY <1>22 DEF BeginMigration, Begin, MayBegin, GoOp, stores, locks, settings, tasks, ops
<1>23. ASSUME NEW i \in Instances, OpenSource(i)
     PROVE  GuardInv'
  BY <1>23 DEF OpenSource, GoOp, stores, locks, settings, tasks, ops
<1>24. ASSUME NEW i \in Instances, OpenTarget(i)
     PROVE  GuardInv'
  BY <1>24 DEF OpenTarget, GoOp, stores, locks, settings, tasks, ops
<1>25. ASSUME NEW i \in Instances, Dump(i)
     PROVE  GuardInv'
  BY <1>25 DEF Dump, GoOp, stores, locks, settings, tasks, ops
<1>26. ASSUME NEW i \in Instances, Import(i)
     PROVE  GuardInv'
  BY <1>26 DEF Import, GoOp, StopOp, Done, Fault, stores, locks, settings, tasks, ops
<1>27. ASSUME NEW i \in Instances, Verify(i)
     PROVE  GuardInv'
  BY <1>27 DEF Verify, GoOp, stores, locks, settings, tasks, ops
<1>28. ASSUME NEW i \in Instances, FailOp(i)
     PROVE  GuardInv'
  BY <1>28 DEF FailOp, GoOp, StopOp, Fault, stores, locks, settings, tasks, ops
<1>29. ASSUME NEW i \in Instances, GetState(i)
     PROVE  GuardInv'
  BY <1>29 DEF GetState, stores, locks, settings, tasks, ops
<1>30. ASSUME NEW i \in Instances, Restart(i)
     PROVE  GuardInv'
  BY <1>30 DEF Restart, GoOp, StopOp, Fault, Unlocked, stores, locks, settings, tasks, ops
<1>31. ASSUME NEW i \in Instances, Analyze(i)
     PROVE  GuardInv'
  BY <1>31 DEF Analyze, stores, locks, settings, tasks, ops
<1>32. ASSUME NEW i \in Instances, Decide(i)
     PROVE  GuardInv'
  BY <1>32 DEF Decide, Connections, Active, stores, locks, settings, tasks, ops
<1> QED
  BY <1>1, <1>2, <1>3, <1>4, <1>5, <1>6, <1>7, <1>8, <1>9, <1>10, <1>11, <1>12, <1>13, <1>14, <1>15, <1>16, <1>17, <1>18, <1>19, <1>20, <1>21, <1>22, <1>23, <1>24, <1>25, <1>26, <1>27, <1>28, <1>29, <1>30, <1>31, <1>32 DEF Next, Task, Operation

\* Every step keeps the safety of a reset.
LEMMA ResetStep ==
    ASSUME ControlTypeOK, LockInv, ResetIsSafe, [Next]_vars
    PROVE  ResetIsSafe'
<1> USE ControlAssumption DEF ControlTypeOK, LockInv, ResetIsSafe, Databases, NoDb
<1>1. CASE UNCHANGED vars
  BY <1>1 DEF vars, stores, locks, settings, tasks, ops
<1>2. ASSUME NEW i \in Instances, BeginTask(i)
     PROVE  ResetIsSafe'
  BY <1>2 DEF BeginTask, Begin, MayBegin, GoTask, stores, locks, settings, tasks, ops
<1>3. ASSUME NEW i \in Instances, ConnectTask(i)
     PROVE  ResetIsSafe'
  BY <1>3 DEF ConnectTask, GoTask, Active, stores, locks, settings, tasks, ops
<1>4. ASSUME NEW i \in Instances, LockTask(i)
     PROVE  ResetIsSafe'
  BY <1>4 DEF LockTask, GoTask, Obtainable, stores, locks, settings, tasks, ops
<1>5. ASSUME NEW i \in Instances, LoadIndex(i)
     PROVE  ResetIsSafe'
  BY <1>5 DEF LoadIndex, GoTask, stores, locks, settings, tasks, ops
<1>6. ASSUME NEW i \in Instances, OpenTransaction(i)
     PROVE  ResetIsSafe'
  BY <1>6 DEF OpenTransaction, stores, locks, settings, tasks, ops
<1>7. ASSUME NEW i \in Instances, Record(i)
     PROVE  ResetIsSafe'
  BY <1>7 DEF Record, Unfinished, stores, locks, settings, tasks, ops
<1>8. ASSUME NEW i \in Instances, EndTask(i)
     PROVE  ResetIsSafe'
  BY <1>8 DEF EndTask, StopTask, GoTask, Done, Unlocked, stores, locks, settings, tasks, ops
<1>9. ASSUME NEW i \in Instances, FailTask(i)
     PROVE  ResetIsSafe'
  BY <1>9 DEF FailTask, StopTask, GoTask, Done, Unlocked, Fault, stores, locks, settings, tasks, ops
<1>10. ASSUME NEW i \in Instances, BeginReset(i)
     PROVE  ResetIsSafe'
  BY <1>10 DEF BeginReset, Begin, MayBegin, GoOp, Active, stores, locks, settings, tasks, ops
<1>11. ASSUME NEW i \in Instances, LockReset(i)
     PROVE  ResetIsSafe'
  BY <1>11 DEF LockReset, GoOp, Free, stores, locks, settings, tasks, ops
<1>12. ASSUME NEW i \in Instances, CheckReset(i)
     PROVE  ResetIsSafe'
  BY <1>12 DEF CheckReset, GoOp, Blockers, stores, locks, settings, tasks, ops
<1>13. ASSUME NEW i \in Instances, DropAndCreate(i)
     PROVE  ResetIsSafe'
  BY <1>13 DEF DropAndCreate, GoOp, stores, locks, settings, tasks, ops
<1>14. ASSUME NEW i \in Instances, BeginSwitch(i)
     PROVE  ResetIsSafe'
  BY <1>14 DEF BeginSwitch, Begin, MayBegin, GoOp, stores, locks, settings, tasks, ops
<1>15. ASSUME NEW i \in Instances, ToManaged(i)
     PROVE  ResetIsSafe'
  BY <1>15 DEF ToManaged, GoOp, stores, locks, settings, tasks, ops
<1>16. ASSUME NEW i \in Instances, SetManaged(i)
     PROVE  ResetIsSafe'
  BY <1>16 DEF SetManaged, GoOp, stores, locks, settings, tasks, ops
<1>17. ASSUME NEW i \in Instances, Preflight(i)
     PROVE  ResetIsSafe'
  BY <1>17 DEF Preflight, GoOp, Fault, stores, locks, settings, tasks, ops
<1>18. ASSUME NEW i \in Instances, UpgradeExternal(i)
     PROVE  ResetIsSafe'
  BY <1>18 DEF UpgradeExternal, GoOp, stores, locks, settings, tasks, ops
<1>19. ASSUME NEW i \in Instances, StoreExternal(i)
     PROVE  ResetIsSafe'
  BY <1>19 DEF StoreExternal, GoOp, stores, locks, settings, tasks, ops
<1>20. ASSUME NEW i \in Instances, ActivateExternal(i)
     PROVE  ResetIsSafe'
  BY <1>20 DEF ActivateExternal, GoOp, stores, locks, settings, tasks, ops
<1>21. ASSUME NEW i \in Instances, ClearIndex(i)
     PROVE  ResetIsSafe'
  BY <1>21 DEF ClearIndex, StopOp, GoOp, stores, locks, settings, tasks, ops
<1>22. ASSUME NEW i \in Instances, BeginMigration(i)
     PROVE  ResetIsSafe'
  BY <1>22 DEF BeginMigration, Begin, MayBegin, GoOp, stores, locks, settings, tasks, ops
<1>23. ASSUME NEW i \in Instances, OpenSource(i)
     PROVE  ResetIsSafe'
  BY <1>23 DEF OpenSource, GoOp, stores, locks, settings, tasks, ops
<1>24. ASSUME NEW i \in Instances, OpenTarget(i)
     PROVE  ResetIsSafe'
  BY <1>24 DEF OpenTarget, GoOp, stores, locks, settings, tasks, ops
<1>25. ASSUME NEW i \in Instances, Dump(i)
     PROVE  ResetIsSafe'
  BY <1>25 DEF Dump, GoOp, stores, locks, settings, tasks, ops
<1>26. ASSUME NEW i \in Instances, Import(i)
     PROVE  ResetIsSafe'
  <2>1. \A d \in Databases : "active" \in txs'[d] => "active" \in txs[d]
    <3>1. "active" \notin Imported(txs[i])
      BY DEF Imported
    <3>2. CASE txs' = [txs EXCEPT !["external"] = @ \cup Imported(txs[i])]
      BY <3>1, <3>2
    <3>3. CASE \E part \in SUBSET Imported(txs[i]) :
                 txs' = [txs EXCEPT !["external"] = @ \cup part]
      BY <3>1, <3>3
    <3> QED
      BY <1>26, <3>2, <3>3 DEF Import
  <2>2. /\ \A j \in Instances : op'[j] = "rdrop" => op[j] = "rdrop" /\ opDb'[j] = opDb[j]
        /\ task' = task /\ taskDb' = taskDb /\ taskEpoch' = taskEpoch /\ epoch' = epoch
    BY <1>26 DEF Import, GoOp, StopOp, Done, Fault, stores, locks, settings, tasks, ops
  <2> QED
    BY <2>1, <2>2
<1>27. ASSUME NEW i \in Instances, Verify(i)
     PROVE  ResetIsSafe'
  BY <1>27 DEF Verify, GoOp, stores, locks, settings, tasks, ops
<1>28. ASSUME NEW i \in Instances, FailOp(i)
     PROVE  ResetIsSafe'
  BY <1>28 DEF FailOp, GoOp, StopOp, Fault, stores, locks, settings, tasks, ops
<1>29. ASSUME NEW i \in Instances, GetState(i)
     PROVE  ResetIsSafe'
  BY <1>29 DEF GetState, stores, locks, settings, tasks, ops
<1>30. ASSUME NEW i \in Instances, Restart(i)
     PROVE  ResetIsSafe'
  BY <1>30 DEF Restart, GoOp, StopOp, Fault, Unlocked, stores, locks, settings, tasks, ops
<1>31. ASSUME NEW i \in Instances, Analyze(i)
     PROVE  ResetIsSafe'
  BY <1>31 DEF Analyze, stores, locks, settings, tasks, ops
<1>32. ASSUME NEW i \in Instances, Decide(i)
     PROVE  ResetIsSafe'
  BY <1>32 DEF Decide, Connections, Active, stores, locks, settings, tasks, ops
<1> QED
  BY <1>1, <1>2, <1>3, <1>4, <1>5, <1>6, <1>7, <1>8, <1>9, <1>10, <1>11, <1>12, <1>13, <1>14, <1>15, <1>16, <1>17, <1>18, <1>19, <1>20, <1>21, <1>22, <1>23, <1>24, <1>25, <1>26, <1>27, <1>28, <1>29, <1>30, <1>31, <1>32 DEF Next, Task, Operation

\* Every step keeps what a migration has copied.
LEMMA CopyStep ==
    ASSUME ControlTypeOK, LockInv, GuardInv, CopyInv, [Next]_vars
    PROVE  CopyInv'
<1> USE ControlAssumption DEF ControlTypeOK, LockInv, GuardInv, CopyInv, MigrationLosesNothing, Switching, Databases, NoDb
<1>1. CASE UNCHANGED vars
  BY <1>1 DEF vars, stores, locks, settings, tasks, ops
<1>2. ASSUME NEW i \in Instances, BeginTask(i)
     PROVE  CopyInv'
  BY <1>2 DEF BeginTask, Begin, MayBegin, GoTask, stores, locks, settings, tasks, ops
<1>3. ASSUME NEW i \in Instances, ConnectTask(i)
     PROVE  CopyInv'
  BY <1>3 DEF ConnectTask, GoTask, Active, stores, locks, settings, tasks, ops
<1>4. ASSUME NEW i \in Instances, LockTask(i)
     PROVE  CopyInv'
  BY <1>4 DEF LockTask, GoTask, Obtainable, stores, locks, settings, tasks, ops
<1>5. ASSUME NEW i \in Instances, LoadIndex(i)
     PROVE  CopyInv'
  BY <1>5 DEF LoadIndex, GoTask, stores, locks, settings, tasks, ops
<1>6. ASSUME NEW i \in Instances, OpenTransaction(i)
     PROVE  CopyInv'
  BY <1>6 DEF OpenTransaction, stores, locks, settings, tasks, ops
<1>7. ASSUME NEW i \in Instances, Record(i)
     PROVE  CopyInv'
  BY <1>7 DEF Record, Unfinished, stores, locks, settings, tasks, ops
<1>8. ASSUME NEW i \in Instances, EndTask(i)
     PROVE  CopyInv'
  BY <1>8 DEF EndTask, StopTask, GoTask, Done, Unlocked, stores, locks, settings, tasks, ops
<1>9. ASSUME NEW i \in Instances, FailTask(i)
     PROVE  CopyInv'
  BY <1>9 DEF FailTask, StopTask, GoTask, Done, Unlocked, Fault, stores, locks, settings, tasks, ops
<1>10. ASSUME NEW i \in Instances, BeginReset(i)
     PROVE  CopyInv'
  BY <1>10 DEF BeginReset, Begin, MayBegin, GoOp, Active, stores, locks, settings, tasks, ops
<1>11. ASSUME NEW i \in Instances, LockReset(i)
     PROVE  CopyInv'
  BY <1>11 DEF LockReset, GoOp, Free, stores, locks, settings, tasks, ops
<1>12. ASSUME NEW i \in Instances, CheckReset(i)
     PROVE  CopyInv'
  <2>1. UNCHANGED <<items, epoch, held, copyEpoch, late>>
    BY <1>12 DEF CheckReset, stores
  <2>2. \A j \in Instances : op'[j] \in {"store", "profile", "clear"} => op[j] = op'[j]
    BY <1>12 DEF CheckReset, GoOp
  <2> QED
    BY <2>1, <2>2
<1>13. ASSUME NEW i \in Instances, DropAndCreate(i)
     PROVE  CopyInv'
  BY <1>13 DEF DropAndCreate, GoOp, stores, locks, settings, tasks, ops
<1>14. ASSUME NEW i \in Instances, BeginSwitch(i)
     PROVE  CopyInv'
  BY <1>14 DEF BeginSwitch, Begin, MayBegin, GoOp, stores, locks, settings, tasks, ops
<1>15. ASSUME NEW i \in Instances, ToManaged(i)
     PROVE  CopyInv'
  BY <1>15 DEF ToManaged, GoOp, stores, locks, settings, tasks, ops
<1>16. ASSUME NEW i \in Instances, SetManaged(i)
     PROVE  CopyInv'
  BY <1>16 DEF SetManaged, GoOp, stores, locks, settings, tasks, ops
<1>17. ASSUME NEW i \in Instances, Preflight(i)
     PROVE  CopyInv'
  <2>1. UNCHANGED <<items, epoch, held, copyEpoch, late>>
    BY <1>17 DEF Preflight, stores, ops
  <2>2. \A j \in Instances : op'[j] \in {"store", "profile", "clear"} => op[j] = op'[j]
    BY <1>17 DEF Preflight, GoOp
  <2> QED
    BY <2>1, <2>2
<1>18. ASSUME NEW i \in Instances, UpgradeExternal(i)
     PROVE  CopyInv'
  BY <1>18 DEF UpgradeExternal, GoOp, stores, locks, settings, tasks, ops
<1>19. ASSUME NEW i \in Instances, StoreExternal(i)
     PROVE  CopyInv'
  BY <1>19 DEF StoreExternal, GoOp, stores, locks, settings, tasks, ops
<1>20. ASSUME NEW i \in Instances, ActivateExternal(i)
     PROVE  CopyInv'
  BY <1>20 DEF ActivateExternal, GoOp, stores, locks, settings, tasks, ops
<1>21. ASSUME NEW i \in Instances, ClearIndex(i)
     PROVE  CopyInv'
  BY <1>21 DEF ClearIndex, StopOp, GoOp, stores, locks, settings, tasks, ops
<1>22. ASSUME NEW i \in Instances, BeginMigration(i)
     PROVE  CopyInv'
  BY <1>22 DEF BeginMigration, Begin, MayBegin, GoOp, stores, locks, settings, tasks, ops
<1>23. ASSUME NEW i \in Instances, OpenSource(i)
     PROVE  CopyInv'
  BY <1>23 DEF OpenSource, GoOp, stores, locks, settings, tasks, ops
<1>24. ASSUME NEW i \in Instances, OpenTarget(i)
     PROVE  CopyInv'
  <2>1. UNCHANGED <<items, epoch, held, copyEpoch, late>>
    BY <1>24 DEF OpenTarget, stores, ops
  <2>2. \A j \in Instances : op'[j] \in {"store", "profile", "clear"} => op[j] = op'[j]
    BY <1>24 DEF OpenTarget, GoOp
  <2> QED
    BY <2>1, <2>2
<1>25. ASSUME NEW i \in Instances, Dump(i)
     PROVE  CopyInv'
  BY <1>25 DEF Dump, GoOp, stores, locks, settings, tasks, ops
<1>26. ASSUME NEW i \in Instances, Import(i)
     PROVE  CopyInv'
  <2>1. \A j \in Instances : items'[j] = items[j] /\ items["external"] \subseteq items'["external"]
    <3>1. CASE items' = [items EXCEPT !["external"] = @ \cup copy[i]]
      BY <3>1
    <3>2. CASE \E part \in SUBSET copy[i] : items' = [items EXCEPT !["external"] = @ \cup part]
      <4>1. PICK part \in SUBSET copy[i] : items' = [items EXCEPT !["external"] = @ \cup part]
        BY <3>2
      <4> QED
        BY <4>1
    <3> QED
      BY <1>26, <3>1, <3>2 DEF Import
  <2>2. /\ \A j \in Instances \ {i} :
              held'[j] = held[j] /\ op'[j] = op[j] /\ copyEpoch'[j] = copyEpoch[j] /\ late'[j] = late[j]
        /\ epoch' = epoch /\ op'[i] \in {"verify", "idle"} /\ copyEpoch'[i] \in {copyEpoch[i], 0}
    BY <1>26 DEF Import, GoOp, StopOp, Done, Fault, stores, locks, settings, tasks, ops
  <2>3. MigrationLosesNothing'
    <3> SUFFICES ASSUME NEW j \in Instances, Switching(j)'
                 PROVE  \/ items'[j] \subseteq
                               items'["external"] \cup (IF late'[j] THEN Decisions ELSE {})
                        \/ epoch'["external"] # copyEpoch'[j]
      OBVIOUS
    <3>1. j # i
      BY <2>2
    <3> QED
      BY <3>1, <2>1, <2>2
  <2>4. \A j \in Instances : copyEpoch'[j] <= epoch'["external"]
    BY <2>2
  <2> QED
    BY <2>3, <2>4
<1>27. ASSUME NEW i \in Instances, Verify(i)
     PROVE  CopyInv'
  <2>1. CASE Agree(i) /\ GoOp(i, "store") /\ copyEpoch' = [copyEpoch EXCEPT ![i] = epoch["external"]]
    BY <1>27, <2>1 DEF Verify, GoOp, stores, locks, settings, tasks, ops, Agree
  <2>2. CASE ~Agree(i) /\ GoOp(i, "declined") /\ copyEpoch' = copyEpoch
    BY <1>27, <2>2 DEF Verify, GoOp, stores, locks, settings, tasks, ops
  <2> QED
    BY <1>27, <2>1, <2>2 DEF Verify
<1>28. ASSUME NEW i \in Instances, FailOp(i)
     PROVE  CopyInv'
  BY <1>28 DEF FailOp, GoOp, StopOp, Fault, stores, locks, settings, tasks, ops
<1>29. ASSUME NEW i \in Instances, GetState(i)
     PROVE  CopyInv'
  BY <1>29 DEF GetState, stores, locks, settings, tasks, ops
<1>30. ASSUME NEW i \in Instances, Restart(i)
     PROVE  CopyInv'
  BY <1>30 DEF Restart, GoOp, StopOp, Fault, Unlocked, stores, locks, settings, tasks, ops
<1>31. ASSUME NEW i \in Instances, Analyze(i)
     PROVE  CopyInv'
  BY <1>31 DEF Analyze, stores, locks, settings, tasks, ops
<1>32. ASSUME NEW i \in Instances, Decide(i)
     PROVE  CopyInv'
  <2>1. PICK d \in Connections(i), x \in Decisions :
           /\ items' = [items EXCEPT ![d] = items[d] \cup {x}]
           /\ late' = IF Switching(i) /\ d = i THEN [late EXCEPT ![i] = TRUE] ELSE late
    BY ONLY <1>32 DEF Decide
  <2>2. UNCHANGED <<epoch, held, op, copyEpoch>>
    BY <1>32 DEF Decide, ops
  <2>3. d \in {i, "external"}
    BY DEF Connections, Active
  <2>4. ASSUME NEW j \in Instances, Switching(j)'
        PROVE  \/ items'[j] \subseteq
                      items'["external"] \cup (IF late'[j] THEN Decisions ELSE {})
               \/ epoch'["external"] # copyEpoch'[j]
    <3>1. \/ items[j] \subseteq
                  items["external"] \cup (IF late[j] THEN Decisions ELSE {})
          \/ epoch["external"] # copyEpoch[j]
      BY <2>2, <2>4
    <3>2. CASE d = i /\ j = i
      <4>1. late'[j]
        BY <2>1, <2>2, <2>4, <3>2
      <4>2. items'[j] = items[j] \cup {x} /\ items'["external"] = items["external"]
        BY <2>1, <3>2
      <4> QED
        BY <2>2, <3>1, <4>1, <4>2
    <3>3. CASE ~(d = i /\ j = i)
      <4>1. items'[j] = items[j] /\ items["external"] \subseteq items'["external"]
        BY <2>1, <2>3, <3>3
      <4>2. late[j] => late'[j]
        BY <2>1
      <4> QED
        BY <2>2, <3>1, <4>1, <4>2
    <3> QED
      BY <3>2, <3>3
  <2> QED
    BY <2>2, <2>4
<1> QED
  BY <1>1, <1>2, <1>3, <1>4, <1>5, <1>6, <1>7, <1>8, <1>9, <1>10, <1>11, <1>12, <1>13, <1>14, <1>15, <1>16, <1>17, <1>18, <1>19, <1>20, <1>21, <1>22, <1>23, <1>24, <1>25, <1>26, <1>27, <1>28, <1>29, <1>30, <1>31, <1>32 DEF Next, Task, Operation

\* Every step keeps the profile and the index.
LEMMA ProfileStep ==
    ASSUME ControlTypeOK, LockInv, GuardInv, ProfileInv, [Next]_vars
    PROVE  ProfileInv'
<1> USE ControlAssumption DEF ControlTypeOK, LockInv, GuardInv, ProfileInv, Active, Databases, NoDb
<1>1. CASE UNCHANGED vars
  BY <1>1 DEF vars, stores, locks, settings, tasks, ops
<1>2. ASSUME NEW i \in Instances, BeginTask(i)
     PROVE  ProfileInv'
  BY <1>2 DEF BeginTask, Begin, MayBegin, GoTask, stores, locks, settings, tasks, ops
<1>3. ASSUME NEW i \in Instances, ConnectTask(i)
     PROVE  ProfileInv'
  BY <1>3 DEF ConnectTask, GoTask, Active, stores, locks, settings, tasks, ops
<1>4. ASSUME NEW i \in Instances, LockTask(i)
     PROVE  ProfileInv'
  BY <1>4 DEF LockTask, GoTask, Obtainable, stores, locks, settings, tasks, ops
<1>5. ASSUME NEW i \in Instances, LoadIndex(i)
     PROVE  ProfileInv'
  BY <1>5 DEF LoadIndex, GoTask, stores, locks, settings, tasks, ops
<1>6. ASSUME NEW i \in Instances, OpenTransaction(i)
     PROVE  ProfileInv'
  BY <1>6 DEF OpenTransaction, stores, locks, settings, tasks, ops
<1>7. ASSUME NEW i \in Instances, Record(i)
     PROVE  ProfileInv'
  BY <1>7 DEF Record, Unfinished, stores, locks, settings, tasks, ops
<1>8. ASSUME NEW i \in Instances, EndTask(i)
     PROVE  ProfileInv'
  BY <1>8 DEF EndTask, StopTask, GoTask, Done, Unlocked, stores, locks, settings, tasks, ops
<1>9. ASSUME NEW i \in Instances, FailTask(i)
     PROVE  ProfileInv'
  BY <1>9 DEF FailTask, StopTask, GoTask, Done, Unlocked, Fault, stores, locks, settings, tasks, ops
<1>10. ASSUME NEW i \in Instances, BeginReset(i)
     PROVE  ProfileInv'
  BY <1>10 DEF BeginReset, Begin, MayBegin, GoOp, Active, stores, locks, settings, tasks, ops
<1>11. ASSUME NEW i \in Instances, LockReset(i)
     PROVE  ProfileInv'
  BY <1>11 DEF LockReset, GoOp, Free, stores, locks, settings, tasks, ops
<1>12. ASSUME NEW i \in Instances, CheckReset(i)
     PROVE  ProfileInv'
  BY <1>12 DEF CheckReset, GoOp, Blockers, stores, locks, settings, tasks, ops
<1>13. ASSUME NEW i \in Instances, DropAndCreate(i)
     PROVE  ProfileInv'
  BY <1>13 DEF DropAndCreate, GoOp, stores, locks, settings, tasks, ops
<1>14. ASSUME NEW i \in Instances, BeginSwitch(i)
     PROVE  ProfileInv'
  BY <1>14 DEF BeginSwitch, Begin, MayBegin, GoOp, stores, locks, settings, tasks, ops
<1>15. ASSUME NEW i \in Instances, ToManaged(i)
     PROVE  ProfileInv'
  BY <1>15 DEF ToManaged, GoOp, stores, locks, settings, tasks, ops
<1>16. ASSUME NEW i \in Instances, SetManaged(i)
     PROVE  ProfileInv'
  BY <1>16 DEF SetManaged, GoOp, stores, locks, settings, tasks, ops
<1>17. ASSUME NEW i \in Instances, Preflight(i)
     PROVE  ProfileInv'
  BY <1>17 DEF Preflight, GoOp, Fault, stores, locks, settings, tasks, ops
<1>18. ASSUME NEW i \in Instances, UpgradeExternal(i)
     PROVE  ProfileInv'
  BY <1>18 DEF UpgradeExternal, GoOp, stores, locks, settings, tasks, ops
<1>19. ASSUME NEW i \in Instances, StoreExternal(i)
     PROVE  ProfileInv'
  BY <1>19 DEF StoreExternal, GoOp, stores, locks, settings, tasks, ops
<1>20. ASSUME NEW i \in Instances, ActivateExternal(i)
     PROVE  ProfileInv'
  BY <1>20 DEF ActivateExternal, GoOp, stores, locks, settings, tasks, ops
<1>21. ASSUME NEW i \in Instances, ClearIndex(i)
     PROVE  ProfileInv'
  BY <1>21 DEF ClearIndex, StopOp, GoOp, stores, locks, settings, tasks, ops
<1>22. ASSUME NEW i \in Instances, BeginMigration(i)
     PROVE  ProfileInv'
  BY <1>22 DEF BeginMigration, Begin, MayBegin, GoOp, stores, locks, settings, tasks, ops
<1>23. ASSUME NEW i \in Instances, OpenSource(i)
     PROVE  ProfileInv'
  BY <1>23 DEF OpenSource, GoOp, stores, locks, settings, tasks, ops
<1>24. ASSUME NEW i \in Instances, OpenTarget(i)
     PROVE  ProfileInv'
  BY <1>24 DEF OpenTarget, GoOp, stores, locks, settings, tasks, ops
<1>25. ASSUME NEW i \in Instances, Dump(i)
     PROVE  ProfileInv'
  BY <1>25 DEF Dump, GoOp, stores, locks, settings, tasks, ops
<1>26. ASSUME NEW i \in Instances, Import(i)
     PROVE  ProfileInv'
  <2>1. UNCHANGED <<mode, profile, index, task, taskDb>>
    BY <1>26 DEF Import, settings, tasks
  <2>2. op[i] = "import" /\ \A j \in Instances : op'[j] = op[j] \/ (j = i /\ op'[i] \in {"verify", "idle"})
    BY <1>26 DEF Import, GoOp, StopOp
  <2>3. ~HalfSwitches => \A j \in Instances :
            op'[j] \in {"preflight", "source", "connect", "profile", "clear"} => op'[j] = op[j]
    BY <2>2
  <2>4. op \in [Instances -> OpSteps] /\ \A j \in Instances :
           op'[j] \notin {"connect", "profile", "clear"} => op[j] \notin {"connect", "profile", "clear"}
    BY <2>2
  <2> QED
    BY ONLY <2>1, <2>3, <2>4, ProfileInv DEF ProfileInv, Active
<1>27. ASSUME NEW i \in Instances, Verify(i)
     PROVE  ProfileInv'
  BY <1>27 DEF Verify, GoOp, stores, locks, settings, tasks, ops
<1>28. ASSUME NEW i \in Instances, FailOp(i)
     PROVE  ProfileInv'
  BY <1>28 DEF FailOp, GoOp, StopOp, Fault, stores, locks, settings, tasks, ops
<1>29. ASSUME NEW i \in Instances, GetState(i)
     PROVE  ProfileInv'
  BY <1>29 DEF GetState, stores, locks, settings, tasks, ops
<1>30. ASSUME NEW i \in Instances, Restart(i)
     PROVE  ProfileInv'
  BY <1>30 DEF Restart, GoOp, StopOp, Fault, Unlocked, stores, locks, settings, tasks, ops
<1>31. ASSUME NEW i \in Instances, Analyze(i)
     PROVE  ProfileInv'
  BY <1>31 DEF Analyze, stores, locks, settings, tasks, ops
<1>32. ASSUME NEW i \in Instances, Decide(i)
     PROVE  ProfileInv'
  BY <1>32 DEF Decide, Connections, Active, stores, locks, settings, tasks, ops
<1> QED
  BY <1>1, <1>2, <1>3, <1>4, <1>5, <1>6, <1>7, <1>8, <1>9, <1>10, <1>11, <1>12, <1>13, <1>14, <1>15, <1>16, <1>17, <1>18, <1>19, <1>20, <1>21, <1>22, <1>23, <1>24, <1>25, <1>26, <1>27, <1>28, <1>29, <1>30, <1>31, <1>32 DEF Next, Task, Operation

-----------------------------------------------------------------------------
\* The invariant holds throughout.
THEOREM ControlInvariant == Spec => []ControlInv
<1>1. ControlInv /\ [Next]_vars => ControlInv'
  BY TypeStep, LockStep, GuardStep, ResetStep, CopyStep, ProfileStep DEF ControlInv
<1> QED
  BY <1>1, InitControlInv, PTL DEF Spec

\* The types hold throughout.
THEOREM ControlTypeCorrect == Spec => []ControlTypeOK
<1>1. ControlInv => ControlTypeOK
  BY DEF ControlInv
<1> QED
  BY <1>1, ControlInvariant, PTL

\* No reset runs under a task or drops a transaction that needs recovery, on
\* however many machines.
THEOREM ResetSafe == Spec => []ResetIsSafe
<1>1. ControlInv => ResetIsSafe
  BY DEF ControlInv
<1> QED
  BY <1>1, ControlInvariant, PTL

\* A migration that switches has copied what was recorded before its comparison,
\* by tasks and by commands, for every set of items and decisions.
THEOREM MigrationSafe == Spec => []MigrationLosesNothing
<1>1. ControlInv => MigrationLosesNothing
  BY DEF ControlInv, CopyInv
<1> QED
  BY <1>1, ControlInvariant, PTL

\* Where no switch fails halfway, a task's index is of the library it writes to.
THEOREM IndexFollowsSwitch == ~HalfSwitches => (Spec => []IndexIsOfDatabase)
<1> SUFFICES ASSUME ~HalfSwitches PROVE Spec => []IndexIsOfDatabase
  OBVIOUS
<1>1. ControlInv => IndexIsOfDatabase
  BY DEF ControlInv, ProfileInv, IndexIsOfDatabase
<1> QED
  BY <1>1, ControlInvariant, PTL
===============================================================================
