---------------------------- MODULE DatabaseControl ----------------------------
(***************************************************************************)
(* Which database an instance of the program works on, and who may work on *)
(* it at the same time: the in-process guard of long tasks against         *)
(* lifecycle operations (state.rs), the advisory lock all instances on one *)
(* database share (operation_lock.rs), the reset, the switch between the   *)
(* managed database and an external one, and the migration that copies the *)
(* one to the other and then switches.                                     *)
(*                                                                         *)
(* Every instance has a managed database of its own, named after it; all   *)
(* of them can reach the external one.  A guarded task is a scan, a commit *)
(* or a recovery; what it stands for here is that it records Items and     *)
(* opens and ends file transactions.  The commands of the review, of the   *)
(* plan, retry and abandon write to the database with neither the guard    *)
(* nor the lock.                                                           *)
(***************************************************************************)
EXTENDS Naturals, FiniteSets

CONSTANTS
    Instances,      \* running programs, each on its own machine
    Switchers,      \* those whose user switches, migrates; the others stay on the external database
    Items,          \* what is recorded: runs and albums by the tasks,
    Decisions,      \* and these by commands without a guard
    Ends,           \* how transactions end: "archived" in copy mode, "removed" in move mode
    MaxFailures,    \* bound: failed calls, cancellations, and programs that die
    MaxResets,      \* bound
    HalfSwitches    \* may a switch fail after it has turned the connection profile?

ASSUME ControlAssumption ==
    /\ Switchers \subseteq Instances /\ "external" \notin Instances /\ "none" \notin Instances
    /\ Decisions \subseteq Items /\ Ends \subseteq {"archived", "removed"}
    /\ MaxFailures \in Nat /\ MaxResets \in Nat /\ HalfSwitches \in BOOLEAN

Databases == Instances \cup {"external"}
NoDb == "none"

VARIABLES
    items,     \* items[d]: what has been recorded in database d
    txs,       \* txs[d]: states of its file transactions: "active" (unfinished), "imported"
               \* (unfinished, brought by a migration), "archived", "removed"
    epoch,     \* resets of d so far
    shared,    \* instances whose task holds the advisory lock of d shared
    exclusive, \* the instance that holds it exclusively, or "none"
    mode,      \* settings: database_mode
    profile,   \* the manager's active profile
    index,     \* the database the in-memory fingerprint index was loaded from, or NoDb
    held,      \* the guard: "task", "migration", "operation"
    task,      \* what the task of an instance does next
    taskDb, taskEpoch, \* its connection, and the schema it found there
    op,        \* what the lifecycle operation or migration of an instance does next
    opDb,      \* the database it connected to
    copy,      \* the dump of a migration
    copyEpoch, \* resets the external database had seen when it was verified
    late,      \* has a command without guard written to the managed database since the
               \* comparison of a migration? (history only)
    failures

stores   == <<items, txs, epoch>>
locks    == <<shared, exclusive>>
settings == <<mode, profile>>
tasks    == <<task, taskDb, taskEpoch>>
ops      == <<op, opDb, copy, copyEpoch>>
vars == <<stores, locks, settings, index, held, tasks, ops, late, failures>>

TaskSteps == {"idle", "connect", "lock", "index", "work"}
OpSteps == {"idle", "rlock", "rcheck", "rdrop", "leased", "refused",
            "managed", "connect", "external",
            "schema", "preflight", "source", "target", "dump", "import", "verify",
            "store", "profile", "clear", "declined"}

Init ==
    /\ items = [d \in Databases |-> {}] /\ txs = [d \in Databases |-> {}]
    /\ epoch = [d \in Databases |-> 0]
    /\ shared = [d \in Databases |-> {}] /\ exclusive = [d \in Databases |-> NoDb]
    /\ mode = [i \in Instances |-> IF i \in Switchers THEN "managed" ELSE "external"]
    /\ profile = mode
    /\ index = [i \in Instances |-> NoDb]
    /\ held = [i \in Instances |-> {}]
    /\ task = [i \in Instances |-> "idle"] /\ taskDb = [i \in Instances |-> NoDb]
    /\ taskEpoch = [i \in Instances |-> 0]
    /\ op = [i \in Instances |-> "idle"] /\ opDb = [i \in Instances |-> NoDb]
    /\ copy = [i \in Instances |-> {}] /\ copyEpoch = [i \in Instances |-> 0]
    /\ late = [i \in Instances |-> FALSE]
    /\ failures = 0

\* The database PostgresManager::connect reaches under the active profile.
Active(i) == IF profile[i] = "external" THEN "external" ELSE i

\* begin_task: not beside an operation; a migration only alone. begin_operation: alone.
MayBegin(i, kind) ==
    IF kind = "task" THEN "operation" \notin held[i] /\ "migration" \notin held[i]
    ELSE held[i] = {}

Begin(i, kind) == MayBegin(i, kind) /\ held' = [held EXCEPT ![i] = @ \cup {kind}]
\* The lease of the guard is dropped.
Done(i, kind) == held' = [held EXCEPT ![i] = @ \ {kind}]

GoTask(i, s) == task' = [task EXCEPT ![i] = s]
GoOp(i, s)   == op' = [op EXCEPT ![i] = s]

\* A task or an operation is over; what it knew is gone.
StopTask(i) ==
    /\ GoTask(i, "idle") /\ Done(i, "task")
    /\ taskDb' = [taskDb EXCEPT ![i] = NoDb] /\ taskEpoch' = [taskEpoch EXCEPT ![i] = 0]
StopOp(i) ==
    /\ GoOp(i, "idle")
    /\ opDb' = [opDb EXCEPT ![i] = NoDb]
    /\ copy' = [copy EXCEPT ![i] = {}] /\ copyEpoch' = [copyEpoch EXCEPT ![i] = 0]
    /\ late' = [late EXCEPT ![i] = FALSE]

Fault == failures < MaxFailures /\ failures' = failures + 1

-----------------------------------------------------------------------------
(* Guarded tasks: scan, commit, recovery.                                   *)

BeginTask(i) ==
    /\ task[i] = "idle" /\ Begin(i, "task") /\ GoTask(i, "connect")
    /\ UNCHANGED <<stores, locks, settings, index, taskDb, taskEpoch, ops, late, failures>>

\* connect(), which brings the schema up to date under the exclusive lock first.
ConnectTask(i) ==
    /\ task[i] = "connect"
    /\ taskDb' = [taskDb EXCEPT ![i] = Active(i)]
    /\ GoTask(i, "lock")
    /\ UNCHANGED <<stores, locks, settings, index, held, taskEpoch, ops, late, failures>>

\* acquire_shared: tried once.
Obtainable(d) == exclusive[d] = NoDb

LockTask(i) ==
    /\ task[i] = "lock" /\ Obtainable(taskDb[i])
    /\ shared' = [shared EXCEPT ![taskDb[i]] = @ \cup {i}]
    /\ taskEpoch' = [taskEpoch EXCEPT ![i] = epoch[taskDb[i]]]
    /\ GoTask(i, "index")
    /\ UNCHANGED <<stores, exclusive, settings, index, held, taskDb, ops, late, failures>>

\* ensure_library_index: an index that is loaded stays.
LoadIndex(i) ==
    /\ task[i] = "index"
    /\ index' = [index EXCEPT ![i] = IF @ = NoDb THEN taskDb[i] ELSE @]
    /\ GoTask(i, "work")
    /\ UNCHANGED <<stores, locks, settings, held, taskDb, taskEpoch, ops, late, failures>>

\* What the transactions of a commit and the commands of the review refer to.
RunThere(d) == items[d] \ Decisions # {}

\* A scan records its run and what it has analyzed.
Analyze(i) ==
    /\ task[i] = "work"
    /\ \E x \in Items \ Decisions : items' = [items EXCEPT ![taskDb[i]] = @ \cup {x}]
    /\ UNCHANGED <<txs, epoch, locks, settings, index, held, tasks, ops, late, failures>>

OpenTransaction(i) ==
    /\ task[i] = "work" /\ RunThere(taskDb[i])
    /\ txs' = [txs EXCEPT ![taskDb[i]] = @ \cup {"active"}]
    /\ UNCHANGED <<items, epoch, locks, settings, index, held, tasks, ops, late, failures>>

Unfinished(d) == txs[d] \cap {"active", "imported"}

\* An album is recorded and its transaction ends.
Record(i) ==
    /\ task[i] = "work"
    /\ \E t \in Unfinished(taskDb[i]), x \in Items \ Decisions, end \in Ends :
          /\ items' = [items EXCEPT ![taskDb[i]] = @ \cup {x}]
          /\ txs' = [txs EXCEPT ![taskDb[i]] = (@ \ {t}) \cup {end}]
    /\ UNCHANGED <<epoch, locks, settings, index, held, tasks, ops, late, failures>>

\* The connection goes, and the shared lock with it; then the lease of the guard.
Unlocked(i) == [d \in Databases |-> shared[d] \ {i}]

EndTask(i) ==
    /\ task[i] = "work" /\ StopTask(i) /\ shared' = Unlocked(i)
    /\ UNCHANGED <<stores, exclusive, settings, index, ops, late, failures>>

\* The lock is not to be had, or a call fails.
FailTask(i) ==
    /\ \/ task[i] = "lock" /\ ~Obtainable(taskDb[i]) /\ failures' = failures
       \/ task[i] # "idle" /\ Fault
    /\ StopTask(i) /\ shared' = Unlocked(i)
    /\ UNCHANGED <<stores, exclusive, settings, index, ops, late>>

-----------------------------------------------------------------------------
(* Commands of the review and the plan, retry and abandon: neither guard    *)
(* nor lock.                                                                *)

\* What a command has connected to: the database of the profile, or its own from
\* before a switch. (The external one from before a switch back is a command of
\* another instance there.)
Connections(i) == {Active(i)} \cup (IF i \in Switchers THEN {i} ELSE {})

\* Between the comparison of a migration and the end of its switch.
Switching(i) == "migration" \in held[i] /\ op[i] \in {"store", "profile", "clear"}

\* The command writes about a run that is there.
Decide(i) ==
    /\ \E d \in Connections(i), x \in Decisions :
          /\ RunThere(d)
          /\ items' = [items EXCEPT ![d] = @ \cup {x}]
          /\ late' = IF Switching(i) /\ d = i THEN [late EXCEPT ![i] = TRUE] ELSE late
    /\ UNCHANGED <<txs, epoch, locks, settings, index, held, tasks, ops, failures>>

-----------------------------------------------------------------------------
(* reset_database_history.                                                  *)

BeginReset(i) ==
    /\ op[i] = "idle" /\ epoch[Active(i)] < MaxResets
    /\ Begin(i, "operation") /\ GoOp(i, "rlock")
    /\ opDb' = [opDb EXCEPT ![i] = Active(i)]
    /\ UNCHANGED <<stores, locks, settings, index, tasks, copy, copyEpoch, late, failures>>

\* Only the schema initialisation and other resets are waited for.
Free_OfResets(d) == exclusive[d] = NoDb
\* pg_try_advisory_xact_lock of the reset, and of the schema initialisation.
Free(d) == shared[d] = {} /\ exclusive[d] = NoDb

LockReset(i) ==
    /\ op[i] = "rlock" /\ Free(opDb[i])
    /\ exclusive' = [exclusive EXCEPT ![opDb[i]] = i]
    /\ GoOp(i, "rcheck")
    /\ UNCHANGED <<stores, shared, settings, index, held, tasks, opDb, copy, copyEpoch, late, failures>>

\* The states that keep a reset from dropping the transactions.
Blockers(d) == txs[d] \ {"archived"}

\* A library root that is recorded may have a lease whose holder is gone, until it
\* expires. (Who holds which lease, and when, is in ImportRun.)
LeaseMayRun(d) == RunThere(d)

\* A lease that runs refuses the reset before the transactions are looked at.
CheckReset(i) ==
    /\ op[i] = "rcheck"
    /\ \/ LeaseMayRun(opDb[i]) /\ GoOp(i, "leased")
       \/ Blockers(opDb[i]) # {} /\ GoOp(i, "refused")
       \/ Blockers(opDb[i]) = {} /\ GoOp(i, "rdrop")
    /\ UNCHANGED <<stores, locks, settings, index, held, tasks, opDb, copy, copyEpoch, late, failures>>

\* The tables are dropped and created again, the transaction commits and the lock is gone.
DropAndCreate(i) ==
    /\ op[i] = "rdrop"
    /\ items' = [items EXCEPT ![opDb[i]] = {}]
    /\ txs' = [txs EXCEPT ![opDb[i]] = {}]
    /\ epoch' = [epoch EXCEPT ![opDb[i]] = @ + 1]
    /\ exclusive' = [exclusive EXCEPT ![opDb[i]] = NoDb]
    /\ GoOp(i, "clear")
    /\ UNCHANGED <<shared, settings, index, held, tasks, opDb, copy, copyEpoch, late, failures>>

-----------------------------------------------------------------------------
(* initialize_managed_database, switch_to_managed_database and              *)
(* initialize_external_database.                                            *)

BeginSwitch(i) ==
    /\ i \in Switchers /\ op[i] = "idle" /\ Begin(i, "operation")
    /\ \E s \in {"managed", "external"} : GoOp(i, s)
    /\ UNCHANGED <<stores, locks, settings, index, tasks, opDb, copy, copyEpoch, late, failures>>

\* use_managed_profile comes first, the probe of the server after it.
ToManaged(i) ==
    /\ op[i] = "managed" /\ GoOp(i, "connect")
    /\ profile' = [profile EXCEPT ![i] = "managed"]
    /\ UNCHANGED <<stores, locks, mode, index, held, tasks, opDb, copy, copyEpoch, late, failures>>

\* The server is up, the schema is current: the settings say managed_local.
SetManaged(i) ==
    /\ op[i] = "connect" /\ GoOp(i, "clear")
    /\ mode' = [mode EXCEPT ![i] = "managed"]
    /\ UNCHANGED <<stores, locks, profile, index, held, tasks, opDb, copy, copyEpoch, late, failures>>

\* test_external_connection, of the switch and of the migration: it changes nothing.
\* With an unfit server the command ends, but returns a result instead of an error.
Preflight(i) ==
    /\ \/ op[i] = "external" /\ GoOp(i, "schema") /\ failures' = failures
       \/ op[i] = "preflight" /\ GoOp(i, "source") /\ failures' = failures
       \/ op[i] \in {"external", "preflight"} /\ Fault /\ GoOp(i, "declined")
    /\ UNCHANGED <<stores, locks, settings, index, held, tasks, opDb, copy, copyEpoch, late>>

\* run_pending brings the schema of a database up to date under its exclusive lock.
UpgradeExternal(i) ==
    /\ op[i] = "schema" /\ Free("external") /\ GoOp(i, "store")
    /\ UNCHANGED <<stores, locks, settings, index, held, tasks, opDb, copy, copyEpoch, late, failures>>

\* store_and_activate_external_profile: the settings first, the manager's profile
\* after the settings lock is released.
StoreExternal(i) ==
    /\ op[i] = "store" /\ GoOp(i, "profile")
    /\ mode' = [mode EXCEPT ![i] = "external"]
    /\ UNCHANGED <<stores, locks, profile, index, held, tasks, opDb, copy, copyEpoch, late, failures>>

ActivateExternal(i) ==
    /\ op[i] = "profile" /\ GoOp(i, "clear")
    /\ profile' = [profile EXCEPT ![i] = "external"]
    /\ UNCHANGED <<stores, locks, mode, index, held, tasks, opDb, copy, copyEpoch, late, failures>>

\* The index survives the command.
ClearIndex_Kept(i) ==
    /\ op[i] \in {"clear", "declined"} /\ StopOp(i)
    /\ held' = [held EXCEPT ![i] = @ \ {"operation", "migration"}]
    /\ UNCHANGED <<stores, locks, settings, index, tasks, failures>>

\* A command that has a result, a switch or none, forgets the index and drops its lease.
ClearIndex(i) ==
    /\ op[i] \in {"clear", "declined"} /\ StopOp(i)
    /\ index' = [index EXCEPT ![i] = NoDb]
    /\ held' = [held EXCEPT ![i] = @ \ {"operation", "migration"}]
    /\ UNCHANGED <<stores, locks, settings, tasks, failures>>

-----------------------------------------------------------------------------
(* migrate_managed_to_external.                                             *)

BeginMigration(i) ==
    /\ i \in Switchers /\ op[i] = "idle" /\ (HalfSwitches \/ mode[i] = "managed")
    /\ Begin(i, "migration") /\ GoOp(i, "preflight")
    /\ UNCHANGED <<stores, locks, settings, index, tasks, opDb, copy, copyEpoch, late, failures>>

OpenSource(i) ==
    /\ op[i] = "source" /\ GoOp(i, "target")
    /\ profile' = [profile EXCEPT ![i] = "managed"]
    /\ opDb' = [opDb EXCEPT ![i] = i]
    /\ UNCHANGED <<stores, locks, mode, index, held, tasks, copy, copyEpoch, late, failures>>

TargetEmpty == items["external"] = {} /\ txs["external"] = {}

\* An empty target has its schema brought up to date; with any other nothing is migrated.
OpenTarget(i) ==
    /\ op[i] = "target"
    /\ \/ TargetEmpty /\ Free("external") /\ GoOp(i, "dump")
       \/ ~TargetEmpty /\ GoOp(i, "declined")
    /\ UNCHANGED <<stores, locks, settings, index, held, tasks, opDb, copy, copyEpoch, late, failures>>

Dump(i) ==
    /\ op[i] = "dump" /\ GoOp(i, "import")
    /\ copy' = [copy EXCEPT ![i] = items[opDb[i]]]
    /\ UNCHANGED <<stores, locks, settings, index, held, tasks, opDb, copyEpoch, late, failures>>

\* The transactions come along. (Those of the managed database are as they were when
\* it was dumped: tasks and other operations are kept out.)
Imported(T) == {IF t = "active" THEN "imported" ELSE t : t \in T}

\* psql takes no lock and is not one transaction: a part may be in when it fails.
Import(i) ==
    /\ op[i] = "import"
    /\ \/ /\ items' = [items EXCEPT !["external"] = @ \cup copy[i]]
          /\ txs' = [txs EXCEPT !["external"] = @ \cup Imported(txs[i])]
          /\ GoOp(i, "verify") /\ UNCHANGED <<held, opDb, copy, copyEpoch, late, failures>>
       \/ /\ \E part \in SUBSET copy[i] : items' = [items EXCEPT !["external"] = @ \cup part]
          /\ \E part \in SUBSET Imported(txs[i]) : txs' = [txs EXCEPT !["external"] = @ \cup part]
          /\ Fault /\ StopOp(i) /\ Done(i, "migration")
    /\ UNCHANGED <<epoch, locks, settings, index, tasks>>

\* Only the transactions are compared.
Agree_OfTransactions(i) == txs["external"] = Imported(txs[i])
\* Row counts and content fingerprints of the two databases.
Agree(i) == items["external"] = items[i] /\ txs["external"] = Imported(txs[i])

\* They agree, or the profile stays.
Verify(i) ==
    /\ op[i] = "verify"
    /\ \/ /\ Agree(i) /\ GoOp(i, "store")
          /\ copyEpoch' = [copyEpoch EXCEPT ![i] = epoch["external"]]
       \/ ~Agree(i) /\ GoOp(i, "declined") /\ copyEpoch' = copyEpoch
    /\ UNCHANGED <<stores, locks, settings, index, held, tasks, opDb, copy, late, failures>>

-----------------------------------------------------------------------------
(* Failures, get_state, and programs that die.                              *)

\* An operation or migration is refused or fails, or the migration is cancelled:
\* the command returns an error and keeps the index. Once the settings are
\* written only the program's death ends it.
FailOp(i) ==
    /\ \/ op[i] = "rlock" /\ ~Free(opDb[i]) /\ failures' = failures
       \/ op[i] \in {"leased", "refused"} /\ failures' = failures
       \/ /\ op[i] = "schema" \/ (op[i] = "target" /\ TargetEmpty)
          /\ ~Free("external") /\ failures' = failures
       \/ /\ op[i] \in {"rlock", "rcheck", "rdrop", "managed", "external", "schema", "preflight",
                        "source", "target", "dump", "verify", "store"} \cup (IF HalfSwitches THEN {"connect"} ELSE {})
          /\ Fault
    /\ StopOp(i)
    /\ held' = [held EXCEPT ![i] = @ \ {"operation", "migration"}]
    /\ exclusive' = [d \in Databases |-> IF exclusive[d] = i THEN NoDb ELSE exclusive[d]]
    /\ UNCHANGED <<stores, shared, settings, index, tasks>>

\* Any screen that shows the state of the database, guarded by nothing: in
\* external mode it turns the profile to what the settings say. The manager is
\* locked from the turn to the managed profile to the new settings.
GetState(i) ==
    /\ op[i] # "connect" /\ mode[i] = "external" /\ profile[i] # "external"
    /\ profile' = [profile EXCEPT ![i] = "external"]
    /\ UNCHANGED <<stores, locks, mode, index, held, tasks, ops, late, failures>>

\* The program dies and is started again; its first screen asks for the state.
Restart(i) ==
    /\ Fault
    /\ profile' = [profile EXCEPT ![i] = mode[i]]
    /\ index' = [index EXCEPT ![i] = NoDb]
    /\ held' = [held EXCEPT ![i] = {}]
    /\ task' = [task EXCEPT ![i] = "idle"]
    /\ taskDb' = [taskDb EXCEPT ![i] = NoDb] /\ taskEpoch' = [taskEpoch EXCEPT ![i] = 0]
    /\ StopOp(i)
    /\ shared' = Unlocked(i)
    /\ exclusive' = [d \in Databases |-> IF exclusive[d] = i THEN NoDb ELSE exclusive[d]]
    /\ UNCHANGED <<stores, mode>>

Task(i) ==
    \/ BeginTask(i) \/ ConnectTask(i) \/ LockTask(i) \/ LoadIndex(i)
    \/ Analyze(i) \/ OpenTransaction(i) \/ Record(i) \/ EndTask(i) \/ FailTask(i)

Operation(i) ==
    \/ BeginReset(i) \/ LockReset(i) \/ CheckReset(i) \/ DropAndCreate(i)
    \/ BeginSwitch(i) \/ ToManaged(i) \/ SetManaged(i)
    \/ Preflight(i) \/ UpgradeExternal(i) \/ StoreExternal(i) \/ ActivateExternal(i) \/ ClearIndex(i)
    \/ BeginMigration(i) \/ OpenSource(i) \/ OpenTarget(i) \/ Dump(i)
    \/ Import(i) \/ Verify(i) \/ FailOp(i)

Next == \E i \in Instances : Task(i) \/ Decide(i) \/ Operation(i) \/ GetState(i) \/ Restart(i)

Spec == Init /\ [][Next]_vars

-----------------------------------------------------------------------------
ControlTypeOK ==
    /\ items \in [Databases -> SUBSET Items]
    /\ txs \in [Databases -> SUBSET {"active", "imported", "archived", "removed"}]
    /\ epoch \in [Databases -> Nat]
    /\ shared \in [Databases -> SUBSET Instances]
    /\ exclusive \in [Databases -> Instances \cup {NoDb}]
    /\ mode \in [Instances -> {"managed", "external"}]
    /\ profile \in [Instances -> {"managed", "external"}]
    /\ index \in [Instances -> Databases \cup {NoDb}]
    /\ held \in [Instances -> SUBSET {"task", "migration", "operation"}]
    /\ task \in [Instances -> TaskSteps] /\ taskDb \in [Instances -> Databases \cup {NoDb}]
    /\ taskEpoch \in [Instances -> Nat]
    /\ op \in [Instances -> OpSteps] /\ opDb \in [Instances -> Databases \cup {NoDb}]
    /\ copy \in [Instances -> SUBSET Items] /\ copyEpoch \in [Instances -> Nat]
    /\ late \in [Instances -> BOOLEAN]
    /\ failures \in 0..MaxFailures

\* No instance resets a database under a task of another, nor drops a
\* transaction that a task left for recovery: a task finds the schema it locked,
\* and what a task opens after a reset has checked the transactions is not lost.
\* (An import takes no lock: what it brings in at that moment goes with the rest.)
ResetIsSafe ==
    \A i \in Instances :
        /\ task[i] \in {"index", "work"} => taskEpoch[i] = epoch[taskDb[i]]
        /\ op[i] = "rdrop" => "active" \notin txs[opDb[i]]

\* When a migration writes the settings and turns the profile, everything that
\* was recorded in the managed database, by tasks or by commands, is in the external
\* one, whatever was written since the dump; unless another instance reset that one
\* since the comparison. What a command writes after the comparison may be missing.
MigrationLosesNothing ==
    \A i \in Instances : Switching(i) =>
        \/ items[i] \subseteq items["external"] \cup (IF late[i] THEN Decisions ELSE {})
        \/ epoch["external"] # copyEpoch[i]

\* A task compares with an index of the library it writes to, through every
\* switch of the database.
IndexIsOfDatabase == \A i \in Instances : task[i] = "work" => index[i] = taskDb[i]

\* A reset is refused for transactions only when one still needs recovery
\* (README: refused while there are unfinished file transactions).
ResetRefusedForCause ==
    \A i \in Instances : op[i] = "refused" => Unfinished(opDb[i]) # {}
===============================================================================
