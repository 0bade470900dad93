------------------------ MODULE ManagedCluster_proofs ------------------------
(***************************************************************************)
(* Theorems about ManagedCluster, for every number of faults and whether   *)
(* or not ignored removals may leave a directory half removed.  What each  *)
(* step of initialize() leaves on disk is the inductive part; the last     *)
(* section is about how a call ends.                                       *)
(***************************************************************************)
EXTENDS ManagedCluster, TLAPS

\* A directory that is gone holds nothing.
Empty == ("dir" \notin data => data = {}) /\ ("dir" \notin staging => staging = {})

\* What initialize() knows of the two directories at each of its steps.
AtStep ==
    /\ pc \in {"unstage", "fresh", "mkdir", "wport", "wcred", "spawn"} => data = {}
    /\ pc = "mkdir" => staging = {}
    /\ pc = "wport" => staging = {"dir"}
    /\ pc = "wcred" => staging = {"dir", "port"}
    /\ pc \in {"spawn", "initdb", "mark"} =>
          staging = {"dir", "port", "cred"} /\ pw["staged"] = pw["memory"]
    /\ pc = "initdb" => data = {"dir"}
    /\ pc = "failed" => "cluster" \notin data
    /\ pc = "mark" => data = {"dir", "cluster"}
    /\ pc \in {"mvport", "mvcred"} =>
          /\ "cluster" \in data /\ {"dir", "cred", "complete"} \subseteq staging
          /\ pw["staged"] = pw["memory"]
    /\ pc \in {"mark", "mvport", "mvcred", "tidy", "start"} =>
          "cluster" \in data /\ pw["memory"] = pw["cluster"]
    /\ pc \in {"port", "cred"} => "cluster" \in data /\ {"dir", "complete"} \subseteq staging
    /\ pc \in {"sweep", "load", "tidy", "start"} => {"cluster", "cred"} \subseteq data

\* An orphaned initdb is at work in an unpublished directory, beside the
\* credentials it was given.
OrphanInv ==
    orphan # 0 =>
        /\ pc \in {"down", "idle", "check"} /\ data = {"dir"}
        /\ {"dir", "port", "cred"} \subseteq staging /\ "complete" \notin staging
        /\ pw["staged"] = orphan

\* Whichever of the three places the credentials are in, they fit the cluster.
PasswordInv ==
    /\ {"cluster", "cred"} \subseteq data => pw["published"] = pw["cluster"]
    /\ "cluster" \in data /\ {"complete", "cred"} \subseteq staging /\ "cred" \notin data
          => pw["staged"] = pw["cluster"]
    /\ "cluster" \in data /\ staging = {} =>
          /\ "cred" \in data
          /\ pc \notin {"down", "load"} => pw["memory"] = pw["cluster"]

UsedInv ==
    /\ connected => pc = "idle" /\ {"cluster", "cred"} \subseteq data
    /\ used => {"cluster", "cred"} \subseteq data

ClusterInv == ClusterTypeOK /\ Empty /\ AtStep /\ OrphanInv /\ PasswordInv /\ UsedInv

-----------------------------------------------------------------------------
\* The program has not been started yet.
LEMMA InitClusterInv == Init => ClusterInv
<1> SUFFICES ASSUME Init PROVE ClusterInv
  OBVIOUS
<1> USE ClusterAssumption DEF Init
<1>1. pw \in [{"memory", "staged", "published", "cluster"} -> Nat]
  OBVIOUS
<1>2. ClusterTypeOK
  <2>1. /\ data \subseteq DataFiles /\ staging \subseteq StagingFiles
        /\ pc \in Steps /\ made \in Nat /\ orphan \in Nat
        /\ server \in BOOLEAN /\ connected \in BOOLEAN /\ used \in BOOLEAN
    BY DEF Steps, DataFiles
  <2>2. faults \in 0..MaxFaults
    OBVIOUS
  <2> QED
    BY <1>1, <2>1, <2>2 DEF ClusterTypeOK
<1> QED
  BY <1>2 DEF ClusterInv, Empty, AtStep, OrphanInv, PasswordInv, UsedInv

\* A removal that gave up leaves the directory and nothing new in it; one whose
\* error is ignored leaves that or nothing.
LEMMA Removals ==
    ASSUME NEW d
    PROVE  /\ \A rest \in Torn(d) : rest \subseteq d /\ "dir" \in rest
           /\ \A rest \in Swept(d) : rest \subseteq d /\ ("dir" \in rest \/ rest = {})
<1>1. \A rest \in Torn(d) : rest \subseteq d /\ "dir" \in rest
  BY DEF Torn
<1> QED
  BY <1>1 DEF Swept

\* Every step keeps types.
LEMMA TypeStep ==
    ASSUME ClusterInv, [Next]_vars
    PROVE  ClusterTypeOK'
<1> USE ClusterAssumption DEF ClusterInv, ClusterTypeOK, DataFiles, StagingFiles, Steps
<1>1. CASE UNCHANGED vars
  BY <1>1 DEF vars, dirs, world
<1>2. CASE Proceed
  BY <1>2 DEF Proceed, Discardable, dirs, world, Goto
<1>3. CASE DiscardData
  <2>1. data' \subseteq data /\ ("dir" \in data' \/ data' = {} \/ data' = data)
    BY <1>3, Removals DEF DiscardData
  <2> QED
    BY <1>3, <2>1 DEF DiscardData, Discardable, dirs, world, Goto
<1>4. CASE DiscardStaging
  <2>1. staging' \subseteq staging /\ ("dir" \in staging' \/ staging' = {} \/ staging' = staging)
    BY <1>4, Removals DEF DiscardStaging
  <2> QED
    BY <1>4, <2>1 DEF DiscardStaging, dirs, world, Goto
<1>5. CASE Refuse
  BY <1>5 DEF Refuse, dirs, world, Goto
<1>6. CASE HandOver
  BY <1>6 DEF HandOver, dirs, world, Goto
<1>7. CASE PublishPort
  BY <1>7 DEF PublishPort, Move, dirs, world, Goto
<1>8. CASE PublishCred
  BY <1>8 DEF PublishCred, Move, dirs, world, Goto
<1>9. CASE SweepStaging
  <2>1. staging' \subseteq staging /\ ("dir" \in staging' \/ staging' = {} \/ staging' = staging)
    BY <1>9, Removals DEF SweepStaging
  <2> QED
    BY <1>9, <2>1 DEF SweepStaging, dirs, world, Goto
<1>10. CASE LoadSaved
  BY <1>10 DEF LoadSaved, dirs, world, Goto
<1>11. CASE Reuse
  BY <1>11 DEF Reuse, dirs, world, Goto
<1>12. CASE NewPassword
  BY <1>12 DEF NewPassword, dirs, world, Goto
<1>13. CASE ClearStaging
  BY <1>13 DEF ClearStaging, dirs, world, Goto
<1>14. CASE MakeStaging
  BY <1>14 DEF MakeStaging, dirs, world, Goto
<1>15. CASE StagePort
  BY <1>15 DEF StagePort, dirs, world, Goto
<1>16. CASE StageCred
  BY <1>16 DEF StageCred, dirs, world, Goto
<1>17. CASE SpawnInitdb
  BY <1>17 DEF SpawnInitdb, dirs, world, Goto
<1>18. CASE InitdbDone
  BY <1>18 DEF InitdbDone, dirs, world, Goto
<1>19. CASE InitdbFails
  <2>1. data' \subseteq data /\ ("dir" \in data' \/ data' = {} \/ data' = data)
    BY <1>19, Removals DEF InitdbFails
  <2> QED
    BY <1>19, <2>1 DEF InitdbFails, dirs, world, Goto
<1>20. CASE GiveUp
  <2>1. staging' \subseteq staging /\ ("dir" \in staging' \/ staging' = {} \/ staging' = staging)
    BY <1>20, Removals DEF GiveUp
  <2> QED
    BY <1>20, <2>1 DEF GiveUp, dirs, world, Goto
<1>21. CASE MarkComplete
  BY <1>21 DEF MarkComplete, dirs, world, Goto
<1>22. CASE RenamePort
  BY <1>22 DEF RenamePort, Move, dirs, world, Goto
<1>23. CASE RenameCred
  BY <1>23 DEF RenameCred, Move, dirs, world, Goto
<1>24. CASE StartServer
  BY <1>24 DEF StartServer, CanConnect, dirs, world
<1>25. CASE StartFails
  BY <1>25 DEF StartFails, dirs, world, Goto
<1>26. CASE Launch
  BY <1>26 DEF Launch, dirs, world
<1>27. CASE Initialize
  BY <1>27 DEF Initialize, dirs, world, Goto
<1>28. CASE OrphanEnds
  <2>0. pc' = pc /\ pc \in {"down", "idle", "check"}
    BY <1>28 DEF OrphanEnds, OrphanInv
  <2>1. CASE data' = data \cup {"cluster"} /\ pw' = [pw EXCEPT !["cluster"] = orphan]
    BY <1>28, <2>0, <2>1 DEF OrphanEnds, dirs, world
  <2>2. CASE UNCHANGED <<data, pw>>
    BY <1>28, <2>0, <2>2 DEF OrphanEnds, dirs, world
  <2> QED
    BY <1>28, <2>1, <2>2 DEF OrphanEnds
<1>29. CASE Use
  BY <1>29 DEF Use, dirs, world
<1>30. CASE Quit
  BY <1>30 DEF Quit, dirs, world
<1>31. CASE FileError
  BY <1>31 DEF FileError, dirs, world, Goto
<1>32. CASE Crash
  <2>1. pw["memory"] \in Nat
    OBVIOUS
  <2>2. pw' \in [{"memory", "staged", "published", "cluster"} -> Nat]
    BY <1>32 DEF Crash
  <2>3. orphan' \in Nat
    BY <1>32, <2>1 DEF Crash
  <2>4. faults' \in 0..MaxFaults
    BY <1>32 DEF Crash
  <2> QED
    BY <1>32, <2>2, <2>3, <2>4 DEF Crash, dirs, world
<1> QED
  BY <1>1, <1>2, <1>3, <1>4, <1>5, <1>6, <1>7, <1>8, <1>9, <1>10, <1>11, <1>12, <1>13, <1>14, <1>15, <1>16, <1>17, <1>18, <1>19, <1>20, <1>21, <1>22, <1>23, <1>24, <1>25, <1>26, <1>27, <1>28, <1>29, <1>30, <1>31, <1>32 DEF Next, Initializing

\* Every step keeps the emptiness of a directory that is gone.
LEMMA EmptyStep ==
    ASSUME ClusterInv, [Next]_vars
    PROVE  Empty'
<1> USE ClusterAssumption DEF ClusterInv, ClusterTypeOK, DataFiles, StagingFiles, Empty, AtStep
<1>1. CASE UNCHANGED vars
  BY <1>1 DEF vars, dirs, world
<1>2. CASE Proceed
  BY <1>2 DEF Proceed, Discardable, dirs, world, Goto
<1>3. CASE DiscardData
  <2>1. data' \subseteq data /\ ("dir" \in data' \/ data' = {} \/ data' = data)
    BY <1>3, Removals DEF DiscardData
  <2> QED
    BY <1>3, <2>1 DEF DiscardData, Discardable, dirs, world, Goto
<1>4. CASE DiscardStaging
  <2>1. staging' \subseteq staging /\ ("dir" \in staging' \/ staging' = {} \/ staging' = staging)
    BY <1>4, Removals DEF DiscardStaging
  <2> QED
    BY <1>4, <2>1 DEF DiscardStaging, dirs, world, Goto
<1>5. CASE Refuse
  BY <1>5 DEF Refuse, dirs, world, Goto
<1>6. CASE HandOver
  BY <1>6 DEF HandOver, dirs, world, Goto
<1>7. CASE PublishPort
  BY <1>7 DEF PublishPort, Move, dirs, world, Goto
<1>8. CASE PublishCred
  BY <1>8 DEF PublishCred, Move, dirs, world, Goto
<1>9. CASE SweepStaging
  <2>1. staging' \subseteq staging /\ ("dir" \in staging' \/ staging' = {} \/ staging' = staging)
    BY <1>9, Removals DEF SweepStaging
  <2> QED
    BY <1>9, <2>1 DEF SweepStaging, dirs, world, Goto
<1>10. CASE LoadSaved
  BY <1>10 DEF LoadSaved, dirs, world, Goto
<1>11. CASE Reuse
  BY <1>11 DEF Reuse, dirs, world, Goto
<1>12. CASE NewPassword
  BY <1>12 DEF NewPassword, dirs, world, Goto
<1>13. CASE ClearStaging
  BY <1>13 DEF ClearStaging, dirs, world, Goto
<1>14. CASE MakeStaging
  BY <1>14 DEF MakeStaging, dirs, world, Goto
<1>15. CASE StagePort
  BY <1>15 DEF StagePort, dirs, world, Goto
<1>16. CASE StageCred
  BY <1>16 DEF StageCred, dirs, world, Goto
<1>17. CASE SpawnInitdb
  BY <1>17 DEF SpawnInitdb, dirs, world, Goto
<1>18. CASE InitdbDone
  BY <1>18 DEF InitdbDone, dirs, world, Goto
<1>19. CASE InitdbFails
  <2>1. data' \subseteq data /\ ("dir" \in data' \/ data' = {} \/ data' = data)
    BY <1>19, Removals DEF InitdbFails
  <2> QED
    BY <1>19, <2>1 DEF InitdbFails, dirs, world, Goto
<1>20. CASE GiveUp
  <2>1. staging' \subseteq staging /\ ("dir" \in staging' \/ staging' = {} \/ staging' = staging)
    BY <1>20, Removals DEF GiveUp
  <2> QED
    BY <1>20, <2>1 DEF GiveUp, dirs, world, Goto
<1>21. CASE MarkComplete
  BY <1>21 DEF MarkComplete, dirs, world, Goto
<1>22. CASE RenamePort
  BY <1>22 DEF RenamePort, Move, dirs, world, Goto
<1>23. CASE RenameCred
  BY <1>23 DEF RenameCred, Move, dirs, world, Goto
<1>24. CASE StartServer
  BY <1>24 DEF StartServer, CanConnect, dirs, world
<1>25. CASE StartFails
  BY <1>25 DEF StartFails, dirs, world, Goto
<1>26. CASE Launch
  BY <1>26 DEF Launch, dirs, world
<1>27. CASE Initialize
  BY <1>27 DEF Initialize, dirs, world, Goto
<1>28. CASE OrphanEnds
  <2>1. "dir" \in data
    BY <1>28 DEF OrphanEnds, OrphanInv
  <2>2. "dir" \in data' /\ staging' = staging
    BY <1>28, <2>1 DEF OrphanEnds
  <2> QED
    BY <2>2 DEF Empty
<1>29. CASE Use
  BY <1>29 DEF Use, dirs, world
<1>30. CASE Quit
  BY <1>30 DEF Quit, dirs, world
<1>31. CASE FileError
  BY <1>31 DEF FileError, dirs, world, Goto
<1>32. CASE Crash
  BY <1>32 DEF Crash, dirs, world
<1> QED
  BY <1>1, <1>2, <1>3, <1>4, <1>5, <1>6, <1>7, <1>8, <1>9, <1>10, <1>11, <1>12, <1>13, <1>14, <1>15, <1>16, <1>17, <1>18, <1>19, <1>20, <1>21, <1>22, <1>23, <1>24, <1>25, <1>26, <1>27, <1>28, <1>29, <1>30, <1>31, <1>32 DEF Next, Initializing

\* Every step keeps what initialize() knows of the directories.
LEMMA AtStepStep ==
    ASSUME ClusterInv, [Next]_vars
    PROVE  AtStep'
<1> USE ClusterAssumption DEF ClusterInv, ClusterTypeOK, DataFiles, StagingFiles, Empty, AtStep, OrphanInv, PasswordInv
<1>1. CASE UNCHANGED vars
  BY <1>1 DEF vars, dirs, world
<1>2. CASE Proceed
  BY <1>2 DEF Proceed, Discardable, dirs, world, Goto
<1>3. CASE DiscardData
  <2>1. data' \subseteq data /\ ("dir" \in data' \/ data' = {} \/ data' = data)
    BY <1>3, Removals DEF DiscardData
  <2> QED
    BY <1>3, <2>1 DEF DiscardData, Discardable, dirs, world, Goto
<1>4. CASE DiscardStaging
  <2>1. staging' \subseteq staging /\ ("dir" \in staging' \/ staging' = {} \/ staging' = staging)
    BY <1>4, Removals DEF DiscardStaging
  <2> QED
    BY <1>4, <2>1 DEF DiscardStaging, dirs, world, Goto
<1>5. CASE Refuse
  BY <1>5 DEF Refuse, dirs, world, Goto
<1>6. CASE HandOver
  BY <1>6 DEF HandOver, dirs, world, Goto
<1>7. CASE PublishPort
  BY <1>7 DEF PublishPort, Move, dirs, world, Goto
<1>8. CASE PublishCred
  BY <1>8 DEF PublishCred, Move, dirs, world, Goto
<1>9. CASE SweepStaging
  <2>1. staging' \subseteq staging /\ ("dir" \in staging' \/ staging' = {} \/ staging' = staging)
    BY <1>9, Removals DEF SweepStaging
  <2> QED
    BY <1>9, <2>1 DEF SweepStaging, dirs, world, Goto
<1>10. CASE LoadSaved
  BY <1>10 DEF LoadSaved, dirs, world, Goto
<1>11. CASE Reuse
  BY <1>11 DEF Reuse, dirs, world, Goto
<1>12. CASE NewPassword
  BY <1>12 DEF NewPassword, dirs, world, Goto
<1>13. CASE ClearStaging
  BY <1>13 DEF ClearStaging, dirs, world, Goto
<1>14. CASE MakeStaging
  BY <1>14 DEF MakeStaging, dirs, world, Goto
<1>15. CASE StagePort
  BY <1>15 DEF StagePort, dirs, world, Goto
<1>16. CASE StageCred
  BY <1>16 DEF StageCred, dirs, world, Goto
<1>17. CASE SpawnInitdb
  BY <1>17 DEF SpawnInitdb, dirs, world, Goto
<1>18. CASE InitdbDone
  BY <1>18 DEF InitdbDone, dirs, world, Goto
<1>19. CASE InitdbFails
  <2>1. data' \subseteq data /\ ("dir" \in data' \/ data' = {} \/ data' = data)
    BY <1>19, Removals DEF InitdbFails
  <2> QED
    BY <1>19, <2>1 DEF InitdbFails, dirs, world, Goto
<1>20. CASE GiveUp
  <2>1. staging' \subseteq staging /\ ("dir" \in staging' \/ staging' = {} \/ staging' = staging)
    BY <1>20, Removals DEF GiveUp
  <2> QED
    BY <1>20, <2>1 DEF GiveUp, dirs, world, Goto
<1>21. CASE MarkComplete
  BY <1>21 DEF MarkComplete, dirs, world, Goto
<1>22. CASE RenamePort
  BY <1>22 DEF RenamePort, Move, dirs, world, Goto
<1>23. CASE RenameCred
  BY <1>23 DEF RenameCred, Move, dirs, world, Goto
<1>24. CASE StartServer
  BY <1>24 DEF StartServer, CanConnect, dirs, world
<1>25. CASE StartFails
  BY <1>25 DEF StartFails, dirs, world, Goto
<1>26. CASE Launch
  BY <1>26 DEF Launch, dirs, world
<1>27. CASE Initialize
  BY <1>27 DEF Initialize, dirs, world, Goto
<1>28. CASE OrphanEnds
  <2>1. pc' \in {"down", "idle", "check"}
    BY <1>28 DEF OrphanEnds, OrphanInv
  <2> QED
    BY ONLY <2>1 DEF AtStep
<1>29. CASE Use
  BY <1>29 DEF Use, dirs, world
<1>30. CASE Quit
  BY <1>30 DEF Quit, dirs, world
<1>31. CASE FileError
  BY <1>31 DEF FileError, dirs, world, Goto
<1>32. CASE Crash
  BY <1>32 DEF Crash, dirs, world
<1> QED
  BY <1>1, <1>2, <1>3, <1>4, <1>5, <1>6, <1>7, <1>8, <1>9, <1>10, <1>11, <1>12, <1>13, <1>14, <1>15, <1>16, <1>17, <1>18, <1>19, <1>20, <1>21, <1>22, <1>23, <1>24, <1>25, <1>26, <1>27, <1>28, <1>29, <1>30, <1>31, <1>32 DEF Next, Initializing

\* Every step keeps what surrounds an orphaned initdb.
LEMMA OrphanStep ==
    ASSUME ClusterInv, [Next]_vars
    PROVE  OrphanInv'
<1> USE ClusterAssumption DEF ClusterInv, ClusterTypeOK, DataFiles, StagingFiles, Empty, AtStep, OrphanInv, Discardable
<1>1. CASE UNCHANGED vars
  BY <1>1 DEF vars, dirs, world
<1>2. CASE Proceed
  BY <1>2 DEF Proceed, Discardable, dirs, world, Goto
<1>3. CASE DiscardData
  <2>1. data' \subseteq data /\ ("dir" \in data' \/ data' = {} \/ data' = data)
    BY <1>3, Removals DEF DiscardData
  <2> QED
    BY <1>3, <2>1 DEF DiscardData, Discardable, dirs, world, Goto
<1>4. CASE DiscardStaging
  <2>1. staging' \subseteq staging /\ ("dir" \in staging' \/ staging' = {} \/ staging' = staging)
    BY <1>4, Removals DEF DiscardStaging
  <2> QED
    BY <1>4, <2>1 DEF DiscardStaging, dirs, world, Goto
<1>5. CASE Refuse
  BY <1>5 DEF Refuse, dirs, world, Goto
<1>6. CASE HandOver
  BY <1>6 DEF HandOver, dirs, world, Goto
<1>7. CASE PublishPort
  BY <1>7 DEF PublishPort, Move, dirs, world, Goto
<1>8. CASE PublishCred
  BY <1>8 DEF PublishCred, Move, dirs, world, Goto
<1>9. CASE SweepStaging
  <2>1. staging' \subseteq staging /\ ("dir" \in staging' \/ staging' = {} \/ staging' = staging)
    BY <1>9, Removals DEF SweepStaging
  <2> QED
    BY <1>9, <2>1 DEF SweepStaging, dirs, world, Goto
<1>10. CASE LoadSaved
  BY <1>10 DEF LoadSaved, dirs, world, Goto
<1>11. CASE Reuse
  BY <1>11 DEF Reuse, dirs, world, Goto
<1>12. CASE NewPassword
  BY <1>12 DEF NewPassword, dirs, world, Goto
<1>13. CASE ClearStaging
  BY <1>13 DEF ClearStaging, dirs, world, Goto
<1>14. CASE MakeStaging
  BY <1>14 DEF MakeStaging, dirs, world, Goto
<1>15. CASE StagePort
  BY <1>15 DEF StagePort, dirs, world, Goto
<1>16. CASE StageCred
  BY <1>16 DEF StageCred, dirs, world, Goto
<1>17. CASE SpawnInitdb
  BY <1>17 DEF SpawnInitdb, dirs, world, Goto
<1>18. CASE InitdbDone
  BY <1>18 DEF InitdbDone, dirs, world, Goto
<1>19. CASE InitdbFails
  <2>1. data' \subseteq data /\ ("dir" \in data' \/ data' = {} \/ data' = data)
    BY <1>19, Removals DEF InitdbFails
  <2> QED
    BY <1>19, <2>1 DEF InitdbFails, dirs, world, Goto
<1>20. CASE GiveUp
  <2>1. staging' \subseteq staging /\ ("dir" \in staging' \/ staging' = {} \/ staging' = staging)
    BY <1>20, Removals DEF GiveUp
  <2> QED
    BY <1>20, <2>1 DEF GiveUp, dirs, world, Goto
<1>21. CASE MarkComplete
  BY <1>21 DEF MarkComplete, dirs, world, Goto
<1>22. CASE RenamePort
  BY <1>22 DEF RenamePort, Move, dirs, world, Goto
<1>23. CASE RenameCred
  BY <1>23 DEF RenameCred, Move, dirs, world, Goto
<1>24. CASE StartServer
  BY <1>24 DEF StartServer, CanConnect, dirs, world
<1>25. CASE StartFails
  BY <1>25 DEF StartFails, dirs, world, Goto
<1>26. CASE Launch
  BY <1>26 DEF Launch, dirs, world
<1>27. CASE Initialize
  BY <1>27 DEF Initialize, dirs, world, Goto
<1>28. CASE OrphanEnds
  <2>0. pc' = pc /\ pc \in {"down", "idle", "check"}
    BY <1>28 DEF OrphanEnds, OrphanInv
  <2>1. CASE data' = data \cup {"cluster"} /\ pw' = [pw EXCEPT !["cluster"] = orphan]
    BY <1>28, <2>0, <2>1 DEF OrphanEnds, dirs, world
  <2>2. CASE UNCHANGED <<data, pw>>
    BY <1>28, <2>0, <2>2 DEF OrphanEnds, dirs, world
  <2> QED
    BY <1>28, <2>1, <2>2 DEF OrphanEnds
<1>29. CASE Use
  BY <1>29 DEF Use, dirs, world
<1>30. CASE Quit
  BY <1>30 DEF Quit, dirs, world
<1>31. CASE FileError
  BY <1>31 DEF FileError, dirs, world, Goto
<1>32. CASE Crash
  BY <1>32 DEF Crash, dirs, world
<1> QED
  BY <1>1, <1>2, <1>3, <1>4, <1>5, <1>6, <1>7, <1>8, <1>9, <1>10, <1>11, <1>12, <1>13, <1>14, <1>15, <1>16, <1>17, <1>18, <1>19, <1>20, <1>21, <1>22, <1>23, <1>24, <1>25, <1>26, <1>27, <1>28, <1>29, <1>30, <1>31, <1>32 DEF Next, Initializing

\* Every step keeps the fit of the credentials.
LEMMA PasswordStep ==
    ASSUME ClusterInv, [Next]_vars
    PROVE  PasswordInv'
<1> USE ClusterAssumption DEF ClusterInv, ClusterTypeOK, DataFiles, StagingFiles, Empty, AtStep, OrphanInv, PasswordInv
<1>1. CASE UNCHANGED vars
  BY <1>1 DEF vars, dirs, world
<1>2. CASE Proceed
  BY <1>2 DEF Proceed, Discardable, dirs, world, Goto
<1>3. CASE DiscardData
  <2>1. data' \subseteq data /\ ("dir" \in data' \/ data' = {} \/ data' = data)
    BY <1>3, Removals DEF DiscardData
  <2> QED
    BY <1>3, <2>1 DEF DiscardData, Discardable, dirs, world, Goto
<1>4. CASE DiscardStaging
  <2>1. staging' \subseteq staging /\ ("dir" \in staging' \/ staging' = {} \/ staging' = staging)
    BY <1>4, Removals DEF DiscardStaging
  <2> QED
    BY <1>4, <2>1 DEF DiscardStaging, dirs, world, Goto
<1>5. CASE Refuse
  BY <1>5 DEF Refuse, dirs, world, Goto
<1>6. CASE HandOver
  BY <1>6 DEF HandOver, dirs, world, Goto
<1>7. CASE PublishPort
  BY <1>7 DEF PublishPort, Move, dirs, world, Goto
<1>8. CASE PublishCred
  BY <1>8 DEF PublishCred, Move, dirs, world, Goto
<1>9. CASE SweepStaging
  <2>1. staging' \subseteq staging /\ ("dir" \in staging' \/ staging' = {} \/ staging' = staging)
    BY <1>9, Removals DEF SweepStaging
  <2> QED
    BY <1>9, <2>1 DEF SweepStaging, dirs, world, Goto
<1>10. CASE LoadSaved
  BY <1>10 DEF LoadSaved, dirs, world, Goto
<1>11. CASE Reuse
  BY <1>11 DEF Reuse, dirs, world, Goto
<1>12. CASE NewPassword
  BY <1>12 DEF NewPassword, dirs, world, Goto
<1>13. CASE ClearStaging
  BY <1>13 DEF ClearStaging, dirs, world, Goto
<1>14. CASE MakeStaging
  BY <1>14 DEF MakeStaging, dirs, world, Goto
<1>15. CASE StagePort
  BY <1>15 DEF StagePort, dirs, world, Goto
<1>16. CASE StageCred
  BY <1>16 DEF StageCred, dirs, world, Goto
<1>17. CASE SpawnInitdb
  BY <1>17 DEF SpawnInitdb, dirs, world, Goto
<1>18. CASE InitdbDone
  BY <1>18 DEF InitdbDone, dirs, world, Goto
<1>19. CASE InitdbFails
  <2>1. data' \subseteq data /\ ("dir" \in data' \/ data' = {} \/ data' = data)
    BY <1>19, Removals DEF InitdbFails
  <2> QED
    BY <1>19, <2>1 DEF InitdbFails, dirs, world, Goto
<1>20. CASE GiveUp
  <2>1. staging' \subseteq staging /\ ("dir" \in staging' \/ staging' = {} \/ staging' = staging)
    BY <1>20, Removals DEF GiveUp
  <2> QED
    BY <1>20, <2>1 DEF GiveUp, dirs, world, Goto
<1>21. CASE MarkComplete
  BY <1>21 DEF MarkComplete, dirs, world, Goto
<1>22. CASE RenamePort
  BY <1>22 DEF RenamePort, Move, dirs, world, Goto
<1>23. CASE RenameCred
  BY <1>23 DEF RenameCred, Move, dirs, world, Goto
<1>24. CASE StartServer
  BY <1>24 DEF StartServer, CanConnect, dirs, world
<1>25. CASE StartFails
  BY <1>25 DEF StartFails, dirs, world, Goto
<1>26. CASE Launch
  BY <1>26 DEF Launch, dirs, world
<1>27. CASE Initialize
  BY <1>27 DEF Initialize, dirs, world, Goto
<1>28. CASE OrphanEnds
  <2>0. pc' = pc /\ pc \in {"down", "idle", "check"}
    BY <1>28 DEF OrphanEnds, OrphanInv
  <2>1. CASE data' = data \cup {"cluster"} /\ pw' = [pw EXCEPT !["cluster"] = orphan]
    BY <1>28, <2>0, <2>1 DEF OrphanEnds, dirs, world
  <2>2. CASE UNCHANGED <<data, pw>>
    BY <1>28, <2>0, <2>2 DEF OrphanEnds, dirs, world
  <2> QED
    BY <1>28, <2>1, <2>2 DEF OrphanEnds
<1>29. CASE Use
  BY <1>29 DEF Use, dirs, world
<1>30. CASE Quit
  BY <1>30 DEF Quit, dirs, world
<1>31. CASE FileError
  BY <1>31 DEF FileError, dirs, world, Goto
<1>32. CASE Crash
  BY <1>32 DEF Crash, dirs, world
<1> QED
  BY <1>1, <1>2, <1>3, <1>4, <1>5, <1>6, <1>7, <1>8, <1>9, <1>10, <1>11, <1>12, <1>13, <1>14, <1>15, <1>16, <1>17, <1>18, <1>19, <1>20, <1>21, <1>22, <1>23, <1>24, <1>25, <1>26, <1>27, <1>28, <1>29, <1>30, <1>31, <1>32 DEF Next, Initializing

\* Every step keeps the files of a used cluster.
LEMMA UsedStep ==
    ASSUME ClusterInv, [Next]_vars
    PROVE  UsedInv'
<1> USE ClusterAssumption DEF ClusterInv, ClusterTypeOK, DataFiles, StagingFiles, Empty, AtStep, OrphanInv, UsedInv
<1>1. CASE UNCHANGED vars
  BY <1>1 DEF vars, dirs, world
<1>2. CASE Proceed
  BY <1>2 DEF Proceed, Discardable, dirs, world, Goto
<1>3. CASE DiscardData
  <2>1. data' \subseteq data /\ ("dir" \in data' \/ data' = {} \/ data' = data)
    BY <1>3, Removals DEF DiscardData
  <2> QED
    BY <1>3, <2>1 DEF DiscardData, Discardable, dirs, world, Goto
<1>4. CASE DiscardStaging
  <2>1. staging' \subseteq staging /\ ("dir" \in staging' \/ staging' = {} \/ staging' = staging)
    BY <1>4, Removals DEF DiscardStaging
  <2> QED
    BY <1>4, <2>1 DEF DiscardStaging, dirs, world, Goto
<1>5. CASE Refuse
  BY <1>5 DEF Refuse, dirs, world, Goto
<1>6. CASE HandOver
  BY <1>6 DEF HandOver, dirs, world, Goto
<1>7. CASE PublishPort
  BY <1>7 DEF PublishPort, Move, dirs, world, Goto
<1>8. CASE PublishCred
  BY <1>8 DEF PublishCred, Move, dirs, world, Goto
<1>9. CASE SweepStaging
  <2>1. staging' \subseteq staging /\ ("dir" \in staging' \/ staging' = {} \/ staging' = staging)
    BY <1>9, Removals DEF SweepStaging
  <2> QED
    BY <1>9, <2>1 DEF SweepStaging, dirs, world, Goto
<1>10. CASE LoadSaved
  BY <1>10 DEF LoadSaved, dirs, world, Goto
<1>11. CASE Reuse
  BY <1>11 DEF Reuse, dirs, world, Goto
<1>12. CASE NewPassword
  BY <1>12 DEF NewPassword, dirs, world, Goto
<1>13. CASE ClearStaging
  BY <1>13 DEF ClearStaging, dirs, world, Goto
<1>14. CASE MakeStaging
  BY <1>14 DEF MakeStaging, dirs, world, Goto
<1>15. CASE StagePort
  BY <1>15 DEF StagePort, dirs, world, Goto
<1>16. CASE StageCred
  BY <1>16 DEF StageCred, dirs, world, Goto
<1>17. CASE SpawnInitdb
  BY <1>17 DEF SpawnInitdb, dirs, world, Goto
<1>18. CASE InitdbDone
  BY <1>18 DEF InitdbDone, dirs, world, Goto
<1>19. CASE InitdbFails
  <2>1. data' \subseteq data /\ ("dir" \in data' \/ data' = {} \/ data' = data)
    BY <1>19, Removals DEF InitdbFails
  <2> QED
    BY <1>19, <2>1 DEF InitdbFails, dirs, world, Goto
<1>20. CASE GiveUp
  <2>1. staging' \subseteq staging /\ ("dir" \in staging' \/ staging' = {} \/ staging' = staging)
    BY <1>20, Removals DEF GiveUp
  <2> QED
    BY <1>20, <2>1 DEF GiveUp, dirs, world, Goto
<1>21. CASE MarkComplete
  BY <1>21 DEF MarkComplete, dirs, world, Goto
<1>22. CASE RenamePort
  BY <1>22 DEF RenamePort, Move, dirs, world, Goto
<1>23. CASE RenameCred
  BY <1>23 DEF RenameCred, Move, dirs, world, Goto
<1>24. CASE StartServer
  BY <1>24 DEF StartServer, CanConnect, dirs, world
<1>25. CASE StartFails
  BY <1>25 DEF StartFails, dirs, world, Goto
<1>26. CASE Launch
  BY <1>26 DEF Launch, dirs, world
<1>27. CASE Initialize
  BY <1>27 DEF Initialize, dirs, world, Goto
<1>28. CASE OrphanEnds
  <2>0. pc' = pc /\ pc \in {"down", "idle", "check"}
    BY <1>28 DEF OrphanEnds, OrphanInv
  <2>1. CASE data' = data \cup {"cluster"} /\ pw' = [pw EXCEPT !["cluster"] = orphan]
    BY <1>28, <2>0, <2>1 DEF OrphanEnds, dirs, world
  <2>2. CASE UNCHANGED <<data, pw>>
    BY <1>28, <2>0, <2>2 DEF OrphanEnds, dirs, world
  <2> QED
    BY <1>28, <2>1, <2>2 DEF OrphanEnds
<1>29. CASE Use
  BY <1>29 DEF Use, dirs, world
<1>30. CASE Quit
  BY <1>30 DEF Quit, dirs, world
<1>31. CASE FileError
  BY <1>31 DEF FileError, dirs, world, Goto
<1>32. CASE Crash
  BY <1>32 DEF Crash, dirs, world
<1> QED
  BY <1>1, <1>2, <1>3, <1>4, <1>5, <1>6, <1>7, <1>8, <1>9, <1>10, <1>11, <1>12, <1>13, <1>14, <1>15, <1>16, <1>17, <1>18, <1>19, <1>20, <1>21, <1>22, <1>23, <1>24, <1>25, <1>26, <1>27, <1>28, <1>29, <1>30, <1>31, <1>32 DEF Next, Initializing

-----------------------------------------------------------------------------
\* The invariant holds throughout.
THEOREM ClusterInvariant == Spec => []ClusterInv
<1>1. ClusterInv /\ [Next]_vars => ClusterInv'
  BY TypeStep, EmptyStep, AtStepStep, OrphanStep, PasswordStep, UsedStep DEF ClusterInv
<1> QED
  BY <1>1, InitClusterInv, PTL DEF Spec

\* The types hold throughout.
THEOREM ClusterTypeCorrect == Spec => []ClusterTypeOK
<1>1. ClusterInv => ClusterTypeOK
  BY DEF ClusterInv
<1> QED
  BY <1>1, ClusterInvariant, PTL

\* The server is only ever started with the password its cluster was created
\* with, and the published credentials are the cluster's.
THEOREM PasswordAlwaysFits == Spec => []PasswordFits
<1>1. ClusterInv => PasswordFits
  BY DEF ClusterInv, AtStep, PasswordInv, PasswordFits
<1> QED
  BY <1>1, ClusterInvariant, PTL

\* A cluster that was used is never discarded and never meets another initdb.
THEOREM UsedDataIsKept == Spec => []UsedDataKept
<1>1. ClusterInv => UsedDataKept
  BY DEF ClusterInv, AtStep, OrphanInv, UsedInv, UsedDataKept
<1> QED
  BY <1>1, ClusterInvariant, PTL

-----------------------------------------------------------------------------
(* How a call of initialize() ends.  ClusterComesUp needs fairness and     *)
(* stays with TLC; what it rests on is that an earlier interruption never  *)
(* leaves something a later call cannot take up.                           *)

\* Where the two metadata files are while a cluster is handed over.
HandoverInv ==
    /\ "cluster" \in data /\ "complete" \in staging =>
          {"port", "cred"} \subseteq data \cup staging
    /\ pc \in {"cred", "mvcred"} => "port" \in data
    /\ pc \in {"sweep", "tidy"} => {"cluster", "port", "cred"} \subseteq data

\* Once an initdb has been launched, what is there is taken up or discarded;
\* before, there is no cluster and nothing is staged.
ReadyInv ==
    /\ made > 0 /\ "dir" \in data =>
          \/ Discardable
          \/ "cluster" \in data /\ ("complete" \in staging \/ staging = {})
    /\ pc = "decide" => ~Discardable
    /\ pc = "failed" => data = {}
    /\ made = 0 =>
          /\ "cluster" \notin data /\ staging = {}
          /\ pc \in {"down", "idle", "check", "decide"}

\* Every step keeps the metadata files of a marked cluster.
LEMMA HandoverStep ==
    ASSUME ClusterInv, HandoverInv, [Next]_vars
    PROVE  HandoverInv'
<1> USE ClusterAssumption DEF ClusterInv, ClusterTypeOK, DataFiles, StagingFiles, Empty, AtStep, HandoverInv, Discardable
<1> USE DEF dirs, world, Goto
<1>1. CASE UNCHANGED vars
  BY <1>1 DEF vars
<1>2. CASE Proceed \/ Refuse \/ HandOver \/ LoadSaved \/ Reuse \/ StageCred
  BY <1>2 DEF Proceed, Refuse, HandOver, LoadSaved, Reuse, StageCred
<1>3. CASE DiscardData
  <2>1. data' \subseteq data /\ (data' = {} \/ "dir" \in data')
    BY <1>3, Removals DEF DiscardData
  <2> QED
    BY <1>3, <2>1 DEF DiscardData
<1>4. CASE DiscardStaging
  <2>1. staging' \subseteq staging
    BY <1>4, Removals DEF DiscardStaging
  <2> QED
    BY <1>4, <2>1 DEF DiscardStaging
<1>5. CASE PublishPort
  BY <1>5 DEF PublishPort, Move
<1>6. CASE PublishCred
  BY <1>6 DEF PublishCred, Move
<1>7. CASE RenamePort
  BY <1>7 DEF RenamePort, Move
<1>8. CASE RenameCred
  BY <1>8 DEF RenameCred, Move
<1>9. CASE SweepStaging
  <2>1. staging' \subseteq staging
    BY <1>9, Removals DEF SweepStaging
  <2>2. ~TornRemovals => staging' = {} \/ staging' = staging
    BY <1>9 DEF SweepStaging, Swept
  <2> QED
    BY <1>9, <2>1, <2>2 DEF SweepStaging
<1>10. CASE NewPassword
  BY <1>10 DEF NewPassword
<1>11. CASE ClearStaging \/ MakeStaging \/ StagePort
  BY <1>11 DEF ClearStaging, MakeStaging, StagePort
<1>12. CASE SpawnInitdb
  BY <1>12 DEF SpawnInitdb
<1>13. CASE InitdbDone
  BY <1>13 DEF InitdbDone
<1>14. CASE InitdbFails
  <2>1. data' \subseteq data /\ (~TornRemovals => data' = {})
    BY <1>14, Removals DEF InitdbFails, Swept
  <2> QED
    BY <1>14, <2>1 DEF InitdbFails
<1>15. CASE GiveUp
  <2>1. staging' \subseteq staging /\ (~TornRemovals => staging' = {})
    BY <1>15, Removals DEF GiveUp, Swept
  <2> QED
    BY <1>15, <2>1 DEF GiveUp
<1>16. CASE MarkComplete
  BY <1>16 DEF MarkComplete
<1>17. CASE StartServer \/ StartFails \/ Launch \/ Initialize \/ Use \/ Quit \/ Crash
  BY <1>17 DEF StartServer, StartFails, Launch, Initialize, Use, Quit, Crash
<1>18. CASE OrphanEnds
  BY <1>18 DEF OrphanEnds, OrphanInv
<1>19. CASE FileError
  BY <1>19 DEF FileError
<1> QED
  BY <1>1, <1>2, <1>3, <1>4, <1>5, <1>6, <1>7, <1>8, <1>9, <1>10, <1>11, <1>12, <1>13, <1>14,
     <1>15, <1>16, <1>17, <1>18, <1>19 DEF Next, Initializing

\* Every step keeps what is there fit to be taken up, if no removal is torn.
LEMMA ReadyStep ==
    ASSUME ~TornRemovals, ClusterInv, HandoverInv, ReadyInv, [Next]_vars
    PROVE  ReadyInv'
<1> USE ClusterAssumption DEF ClusterInv, ClusterTypeOK, DataFiles, StagingFiles, Empty, AtStep, HandoverInv, ReadyInv, Discardable
<1> USE DEF dirs, world, Goto
<1>1. CASE UNCHANGED vars
  BY <1>1 DEF vars
<1>2. CASE Proceed \/ Refuse \/ HandOver \/ LoadSaved \/ Reuse \/ StageCred
  BY <1>2 DEF Proceed, Refuse, HandOver, LoadSaved, Reuse, StageCred
<1>3. CASE DiscardData
  <2>1. data' \subseteq data /\ (data' = {} \/ "dir" \in data')
    BY <1>3, Removals DEF DiscardData
  <2> QED
    BY <1>3, <2>1 DEF DiscardData
<1>4. CASE DiscardStaging
  <2>1. staging' \subseteq staging
    BY <1>4, Removals DEF DiscardStaging
  <2> QED
    BY <1>4, <2>1 DEF DiscardStaging
<1>5. CASE PublishPort
  BY <1>5 DEF PublishPort, Move
<1>6. CASE PublishCred
  BY <1>6 DEF PublishCred, Move
<1>7. CASE RenamePort
  BY <1>7 DEF RenamePort, Move
<1>8. CASE RenameCred
  BY <1>8 DEF RenameCred, Move
<1>9. CASE SweepStaging
  <2>1. staging' \subseteq staging
    BY <1>9, Removals DEF SweepStaging
  <2>2. ~TornRemovals => staging' = {} \/ staging' = staging
    BY <1>9 DEF SweepStaging, Swept
  <2> QED
    BY <1>9, <2>1, <2>2 DEF SweepStaging
<1>10. CASE NewPassword
  BY <1>10 DEF NewPassword
<1>11. CASE ClearStaging \/ MakeStaging \/ StagePort
  BY <1>11 DEF ClearStaging, MakeStaging, StagePort
<1>12. CASE SpawnInitdb
  BY <1>12 DEF SpawnInitdb
<1>13. CASE InitdbDone
  BY <1>13 DEF InitdbDone
<1>14. CASE InitdbFails
  <2>1. data' \subseteq data /\ (~TornRemovals => data' = {})
    BY <1>14, Removals DEF InitdbFails, Swept
  <2> QED
    BY <1>14, <2>1 DEF InitdbFails
<1>15. CASE GiveUp
  <2>1. staging' \subseteq staging /\ (~TornRemovals => staging' = {})
    BY <1>15, Removals DEF GiveUp, Swept
  <2> QED
    BY <1>15, <2>1 DEF GiveUp
<1>16. CASE MarkComplete
  BY <1>16 DEF MarkComplete
<1>17. CASE StartServer \/ StartFails \/ Launch \/ Initialize \/ Use \/ Quit \/ Crash
  BY <1>17 DEF StartServer, StartFails, Launch, Initialize, Use, Quit, Crash
<1>18. CASE OrphanEnds
  BY <1>18 DEF OrphanEnds, OrphanInv
<1>19. CASE FileError
  BY <1>19 DEF FileError
<1> QED
  BY <1>1, <1>2, <1>3, <1>4, <1>5, <1>6, <1>7, <1>8, <1>9, <1>10, <1>11, <1>12, <1>13, <1>14,
     <1>15, <1>16, <1>17, <1>18, <1>19 DEF Next, Initializing

\* Both hold throughout.
LEMMA InterruptionsInvariant == Spec => [](HandoverInv /\ (~TornRemovals => ReadyInv))
<1>1. Init => HandoverInv /\ ReadyInv
  BY DEF Init, HandoverInv, ReadyInv, Discardable
<1>2. ClusterInv /\ HandoverInv /\ [Next]_vars => HandoverInv'
  BY HandoverStep
<1>3. ClusterInv /\ HandoverInv /\ (~TornRemovals => ReadyInv) /\ [Next]_vars => (~TornRemovals => ReadyInv)'
  BY ReadyStep
<1> QED
  BY <1>1, <1>2, <1>3, ClusterInvariant, PTL DEF Spec

\* How a call of initialize() may end in which no operation fails.
Arrived ==
    \/ connected'
    \/ Foreign /\ (TornRemovals \/ made = 0)
    \/ Unmarked /\ TornRemovals

LEMMA CallArrivesStep ==
    ASSUME ClusterInv, HandoverInv, ~TornRemovals => ReadyInv,
           Initializing, pc # "failed", pc' = "idle", faults' = faults
    PROVE  Arrived
<1> USE DEF ClusterInv, ClusterTypeOK, AtStep, Arrived, Goto
<1>0. faults + 1 # faults
  OBVIOUS
<1>1. CASE Refuse
  <2>1. CASE TornRemovals
    BY <1>1, <2>1 DEF Refuse
  <2>2. CASE ~TornRemovals /\ made = 0
    BY <1>1, <2>2 DEF Refuse, ReadyInv, Unmarked
  <2>3. CASE ~TornRemovals /\ made > 0
    BY <1>1, <2>3 DEF Refuse, ReadyInv, Unmarked, Foreign, DataFiles, Empty
  <2> QED
    BY <2>1, <2>2, <2>3
<1>2. CASE StartServer
  BY <1>2 DEF StartServer, CanConnect
<1>3. CASE PublishPort \/ PublishCred
  BY <1>3 DEF PublishPort, PublishCred, Move, HandoverInv
<1>4. CASE RenamePort \/ RenameCred
  BY <1>4 DEF RenamePort, RenameCred, Move, HandoverInv
<1>5. CASE DiscardData \/ DiscardStaging \/ InitdbFails \/ StartFails
  BY <1>0, <1>5 DEF DiscardData, DiscardStaging, InitdbFails, StartFails
<1>6. CASE Proceed \/ HandOver \/ SweepStaging \/ LoadSaved \/ Reuse
  BY <1>6 DEF Proceed, HandOver, SweepStaging, LoadSaved, Reuse
<1>7. CASE NewPassword \/ ClearStaging \/ MakeStaging \/ StagePort \/ StageCred
  BY <1>7 DEF NewPassword, ClearStaging, MakeStaging, StagePort, StageCred
<1>8. CASE SpawnInitdb \/ InitdbDone \/ GiveUp \/ MarkComplete
  BY <1>8 DEF SpawnInitdb, InitdbDone, GiveUp, MarkComplete
<1> QED
  BY <1>1, <1>2, <1>3, <1>4, <1>5, <1>6, <1>7, <1>8 DEF Initializing

\* A call in which nothing fails ends with a connection, whatever interruptions
\* came before it.  It is refused only over a directory that was no cluster when
\* the program was first started, unless a removal whose error was ignored has
\* left a directory half removed.
THEOREM CallsArrive ==
    Spec => [][Initializing /\ pc # "failed" /\ pc' = "idle" /\ faults' = faults => Arrived]_vars
<1>1. /\ ClusterInv /\ HandoverInv /\ (~TornRemovals => ReadyInv) /\ [Next]_vars
      => [Initializing /\ pc # "failed" /\ pc' = "idle" /\ faults' = faults => Arrived]_vars
  BY CallArrivesStep
<1> QED
  BY <1>1, ClusterInvariant, InterruptionsInvariant, PTL DEF Spec
===============================================================================
