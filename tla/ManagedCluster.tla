---------------------------- MODULE ManagedCluster ----------------------------
(***************************************************************************)
(* The managed PostgreSQL cluster of the desktop program: how              *)
(* PostgresManager::initialize creates it, hands its generated credentials *)
(* from the staging directory to the data directory, takes up an           *)
(* initialisation that was interrupted, and starts the server; with        *)
(* crashes between any two file operations, file operations that fail, and *)
(* an initdb that outlives the program that launched it.                   *)
(*                                                                         *)
(* A directory is the set of what matters in it, with "dir" for itself.    *)
(* Passwords are numbers, a new one for each initdb; 0 is no password.     *)
(***************************************************************************)
EXTENDS Naturals

CONSTANTS
    MaxFaults,     \* bound: crashes and failed operations
    TornRemovals   \* may a removal whose error is ignored leave a directory half removed?

ASSUME ClusterAssumption == MaxFaults \in Nat /\ TornRemovals \in BOOLEAN

VARIABLES
    data,       \* postgres_data
    staging,    \* postgres_staging
    pw,         \* the password in memory, in the two credential files, and the cluster's own
    made,       \* passwords generated so far
    orphan,     \* password of an initdb whose program died; 0 if there is none
    server,     \* is the postmaster of the cluster up?
    connected,  \* did the last initialize() of this process end with connection_ok?
    used,       \* does the cluster hold the user's data?
    pc,         \* "down", "idle", or what initialize() does next
    faults

dirs  == <<data, staging>>
world == <<orphan, server, used>>
vars == <<dirs, pw, made, world, connected, pc, faults>>

DataFiles    == {"dir", "cluster", "port", "cred"}  \* "cluster": cluster_files_exist()
StagingFiles == {"dir", "port", "cred", "complete"} \* "complete": INITDB_COMPLETE_FILE
Steps == {"down", "idle", "check", "unstage", "decide", "port", "cred", "sweep", "load",
          "fresh", "mkdir", "wport", "wcred", "spawn", "initdb", "failed", "mark",
          "mvport", "mvcred", "tidy", "start"}

\* Nothing is there yet, or a directory of the name that is no cluster.
Init ==
    /\ data \in {{}, {"dir"}} /\ staging = {}
    /\ pw = [h \in {"memory", "staged", "published", "cluster"} |-> 0]
    /\ made = 0 /\ orphan = 0
    /\ server = FALSE /\ connected = FALSE /\ used = FALSE
    /\ pc = "down" /\ faults = 0

\* What a remove_dir_all that gave up may leave of directory d.
Torn(d) == {rest \in SUBSET d : "dir" \in rest}
\* What `let _ = remove_dir_all(d)` leaves.
Swept(d) == {{}} \cup (IF TornRemovals THEN Torn(d) ELSE {})

\* The completion marker forgotten: any staged metadata beside a data directory.
Discardable_AnyStaging == "dir" \in data /\ "dir" \in staging
\* Only a directory that is no cluster is discarded.
Discardable_NotACluster ==
    /\ "dir" \in data /\ "cluster" \notin data
    /\ {"port", "cred"} \subseteq staging /\ "complete" \notin staging
    /\ {"port", "cred"} \cap data = {}

\* An interrupted first initialisation: staged metadata, no completion marker,
\* nothing published. Only then is a data directory ever discarded.
Discardable ==
    /\ "dir" \in data
    /\ {"port", "cred"} \subseteq staging
    /\ "complete" \notin staging
    /\ {"port", "cred"} \cap data = {}

Goto(p) == pc' = p /\ UNCHANGED <<world, connected>>

-----------------------------------------------------------------------------
(* The process: PostgresManager::new, a call of initialize(), its ends.     *)

\* new(): the saved credentials, if the file is there.
Launch ==
    /\ pc = "down"
    /\ pw' = [pw EXCEPT !["memory"] = IF "cred" \in data THEN pw["published"] ELSE 0]
    /\ pc' = "idle"
    /\ UNCHANGED <<dirs, made, world, connected, faults>>

\* From get_state when a cluster is there, or from the initialize command.
Initialize ==
    /\ pc = "idle" /\ ~connected
    /\ Goto("check") /\ UNCHANGED <<dirs, pw, made, faults>>

\* A file operation fails with nothing done and `?` returns the error.
FileError ==
    /\ pc \in {"port", "cred", "fresh", "mkdir", "wport", "wcred", "mark", "mvport", "mvcred"}
    /\ faults < MaxFaults /\ faults' = faults + 1
    /\ Goto("idle") /\ UNCHANGED <<dirs, pw, made>>

\* The program dies, or is closed in the middle. An initdb it launched may go
\* on; so does a postmaster.
Crash ==
    /\ pc # "down" /\ faults < MaxFaults /\ faults' = faults + 1
    /\ pc' = "down" /\ connected' = FALSE
    /\ pw' = [pw EXCEPT !["memory"] = 0]
    /\ \/ orphan' = orphan
       \/ pc = "initdb" /\ orphan' = pw["memory"]
    /\ UNCHANGED <<dirs, made, server, used>>

\* shutdown() before the program exits.
Quit ==
    /\ pc = "idle" /\ connected
    /\ pc' = "down" /\ connected' = FALSE /\ server' = FALSE
    /\ pw' = [pw EXCEPT !["memory"] = 0]
    /\ UNCHANGED <<dirs, made, orphan, used, faults>>

\* The program works on the database.
Use ==
    /\ pc = "idle" /\ connected /\ ~used
    /\ used' = TRUE
    /\ UNCHANGED <<dirs, pw, made, orphan, server, connected, pc, faults>>

-----------------------------------------------------------------------------
(* initialize(), taking up what an earlier call left.                       *)

Proceed ==
    /\ pc = "check" /\ ~Discardable
    /\ Goto("decide") /\ UNCHANGED <<dirs, pw, made, faults>>

\* remove_dir_all of the data directory; one that fails may have removed a part.
\* An initdb that is still running does not survive the loss of its directory.
DiscardData ==
    /\ pc = "check" /\ Discardable
    /\ \/ data' = {} /\ pc' = "unstage" /\ faults' = faults
       \/ /\ data' \in Torn(data) /\ pc' = "idle"
          /\ faults < MaxFaults /\ faults' = faults + 1
    /\ orphan' = 0
    /\ UNCHANGED <<staging, pw, made, server, used, connected>>

DiscardStaging ==
    /\ pc = "unstage"
    /\ \/ staging' = {} /\ Goto("decide") /\ faults' = faults
       \/ /\ staging' \in Torn(staging) /\ Goto("idle")
          /\ faults < MaxFaults /\ faults' = faults + 1
    /\ UNCHANGED <<data, pw, made>>

\* The two refusals: a data directory that is no cluster, and a staging
\* directory beside a cluster that has no completion marker.
Foreign  == "dir" \in data /\ "cluster" \notin data
Unmarked == "cluster" \in data /\ "dir" \in staging /\ "complete" \notin staging

Refuse ==
    /\ pc = "decide" /\ (Foreign \/ Unmarked)
    /\ Goto("idle") /\ UNCHANGED <<dirs, pw, made, faults>>

HandOver ==
    /\ pc = "decide" /\ "cluster" \in data /\ {"dir", "complete"} \subseteq staging
    /\ Goto("port") /\ UNCHANGED <<dirs, pw, made, faults>>

\* One file of the handoff, from the staging to the data directory unless it is
\* there already; refused when it is in neither.
Move(file, next) ==
    /\ data' = IF file \in data \cup staging THEN data \cup {file} ELSE data
    /\ staging' = IF file \in data THEN staging ELSE staging \ {file}
    /\ pw' = IF file = "cred" /\ file \in staging \ data
             THEN [pw EXCEPT !["published"] = pw["staged"]] ELSE pw
    /\ Goto(IF file \in data \cup staging THEN next ELSE "idle")
    /\ UNCHANGED <<made, faults>>

PublishPort == pc = "port" /\ Move("port", "cred")
PublishCred == pc = "cred" /\ Move("cred", "sweep")

\* The staging directory goes; an error is ignored.
SweepStaging ==
    /\ pc \in {"sweep", "tidy"}
    /\ \/ staging' \in Swept(staging) /\ faults' = faults
       \/ staging' = staging /\ faults < MaxFaults /\ faults' = faults + 1
    /\ Goto(IF pc = "sweep" THEN "load" ELSE "start")
    /\ UNCHANGED <<data, pw, made>>

\* The handoff finished without reading the credentials it published.
LoadSaved_Forgotten ==
    /\ pc = "load"
    /\ Goto("start") /\ UNCHANGED <<dirs, pw, made, faults>>

\* load_saved_config()
LoadSaved ==
    /\ pc = "load"
    /\ pw' = [pw EXCEPT !["memory"] = IF "cred" \in data THEN pw["published"] ELSE pw["memory"]]
    /\ Goto("start") /\ UNCHANGED <<dirs, made, faults>>

Reuse ==
    /\ pc = "decide" /\ "cluster" \in data /\ "dir" \notin staging
    /\ Goto("start") /\ UNCHANGED <<dirs, pw, made, faults>>

-----------------------------------------------------------------------------
(* initialize(), creating a cluster.                                        *)

NewPassword ==
    /\ pc = "decide" /\ "dir" \notin data
    /\ made' = made + 1
    /\ pw' = [pw EXCEPT !["memory"] = made + 1]
    /\ Goto("fresh") /\ UNCHANGED <<dirs, faults>>

ClearStaging ==
    /\ pc = "fresh" /\ staging' = {}
    /\ Goto("mkdir") /\ UNCHANGED <<data, pw, made, faults>>

MakeStaging ==
    /\ pc = "mkdir" /\ staging' = staging \cup {"dir"}
    /\ Goto("wport") /\ UNCHANGED <<data, pw, made, faults>>

StagePort ==
    /\ pc = "wport" /\ staging' = staging \cup {"port"}
    /\ Goto("wcred") /\ UNCHANGED <<data, pw, made, faults>>

StageCred ==
    /\ pc = "wcred" /\ staging' = staging \cup {"cred"}
    /\ pw' = [pw EXCEPT !["staged"] = pw["memory"]]
    /\ Goto("spawn") /\ UNCHANGED <<data, made, faults>>

\* initdb has made the data directory and is filling it.
SpawnInitdb ==
    /\ pc = "spawn" /\ data' = data \cup {"dir"}
    /\ Goto("initdb") /\ UNCHANGED <<staging, pw, made, faults>>

InitdbDone ==
    /\ pc = "initdb" /\ data' = data \cup {"cluster"}
    /\ pw' = [pw EXCEPT !["cluster"] = pw["memory"]]
    /\ Goto("mark") /\ UNCHANGED <<staging, made, faults>>

\* initdb fails: both directories go, errors ignored, and the call ends.
InitdbFails ==
    /\ pc = "initdb" /\ faults < MaxFaults /\ faults' = faults + 1
    /\ data' \in Swept(data)
    /\ Goto("failed") /\ UNCHANGED <<staging, pw, made>>

GiveUp ==
    /\ pc = "failed" /\ staging' \in Swept(staging)
    /\ Goto("idle") /\ UNCHANGED <<data, pw, made, faults>>

MarkComplete ==
    /\ pc = "mark" /\ staging' = staging \cup {"complete"}
    /\ Goto("mvport") /\ UNCHANGED <<data, pw, made, faults>>

RenamePort == pc = "mvport" /\ Move("port", "mvcred")
RenameCred == pc = "mvcred" /\ Move("cred", "tidy")

-----------------------------------------------------------------------------
(* start_server(), and the initdb nobody waits for.                         *)

\* pg_ctl start; a postmaster that is already up counts as started.
\* Every connection, the one that creates the database, the one that creates the
\* extension and the last test, logs in with the password in memory.
CanConnect == pw["memory"] = pw["cluster"]

StartServer ==
    /\ pc = "start"
    /\ server' = TRUE
    /\ connected' = CanConnect
    /\ pc' = "idle"
    /\ UNCHANGED <<dirs, pw, made, orphan, used, faults>>

StartFails ==
    /\ pc = "start" /\ ~server
    /\ faults < MaxFaults /\ faults' = faults + 1
    /\ Goto("idle") /\ UNCHANGED <<dirs, pw, made>>

OrphanEnds ==
    /\ orphan # 0 /\ orphan' = 0
    /\ \/ /\ data' = data \cup {"cluster"}
          /\ pw' = [pw EXCEPT !["cluster"] = orphan]
       \/ UNCHANGED <<data, pw>>
    /\ UNCHANGED <<staging, made, server, used, connected, pc, faults>>

Initializing ==
    \/ Proceed \/ DiscardData \/ DiscardStaging \/ Refuse
    \/ HandOver \/ PublishPort \/ PublishCred \/ SweepStaging \/ LoadSaved \/ Reuse
    \/ NewPassword \/ ClearStaging \/ MakeStaging \/ StagePort \/ StageCred
    \/ SpawnInitdb \/ InitdbDone \/ InitdbFails \/ GiveUp \/ MarkComplete
    \/ RenamePort \/ RenameCred \/ StartServer \/ StartFails

Next ==
    \/ Initializing \/ Launch \/ Initialize \/ OrphanEnds
    \/ Use \/ Quit \/ FileError \/ Crash

Spec == Init /\ [][Next]_vars

\* A call of initialize() runs on, an orphaned initdb ends, and the user starts
\* the program again and lets it initialise the database.
FairSpec ==
    /\ Spec
    /\ WF_vars(Initializing) /\ WF_vars(Launch) /\ WF_vars(Initialize)
    /\ WF_vars(OrphanEnds)

-----------------------------------------------------------------------------
ClusterTypeOK ==
    /\ data \subseteq DataFiles /\ staging \subseteq StagingFiles
    /\ pw \in [{"memory", "staged", "published", "cluster"} -> Nat]
    /\ made \in Nat /\ orphan \in Nat
    /\ server \in BOOLEAN /\ connected \in BOOLEAN /\ used \in BOOLEAN
    /\ pc \in Steps /\ faults \in 0..MaxFaults

\* The credentials the program starts the server with, and the published ones
\* beside a cluster, are the ones initdb created the cluster with, whichever
\* launches it took to get there ("instead of generating credentials that no
\* longer match the DB").
PasswordFits ==
    /\ pc = "start" => pw["memory"] = pw["cluster"]
    /\ {"cluster", "cred"} \subseteq data => pw["published"] = pw["cluster"]

\* A cluster that was ever used is never discarded, emptied or initialised
\* again, whatever an earlier launch left in the staging directory.
UsedDataKept ==
    used => "cluster" \in data /\ orphan = 0 /\ pc # "initdb"

\* However often an initialisation is interrupted, a later launch gets a
\* cluster it can connect to; a directory that was no cluster to begin with is
\* left as it is for ever.
ClusterComesUp == []<>connected \/ []Foreign
===============================================================================
