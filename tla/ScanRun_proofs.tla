---------------------------- MODULE ScanRun_proofs ----------------------------
(***************************************************************************)
(* Theorems about ScanRun, for every set of albums, files and identifiers  *)
(* and every number of cancels, faults and edits: an interrupted analysis  *)
(* that is resumed and retried in any way links its duplicates, keeps its  *)
(* checkpoints and hands on a run that agrees with its albums.             *)
(***************************************************************************)
EXTENDS ScanRun, WellFoundedInduction, TLAPS

-----------------------------------------------------------------------------
\* A set of numbers has a least one.
LEMMA LeastNumber ==
    ASSUME NEW S \in SUBSET Nat, S # {}
    PROVE  \E m \in S : \A n \in S : m <= n
<1> DEFINE R == {ss \in Nat \X Nat : ss[1] < ss[2]}
<1>1. IsWellFoundedOn(R, Nat)
  BY NatLessThanWellFounded, Zenon DEF OpToRel
<1>2. \A m, n \in Nat : n < m => <<n, m>> \in R
  OBVIOUS
<1>3. \E m \in S : \A n \in S : ~(<<n, m>> \in R)
  <2> HIDE DEF R
  <2> QED
    BY <1>1, WFMin
<1>4. PICK m \in S : \A n \in S : ~(n < m)
  <2> HIDE DEF R
  <2> QED
    BY <1>2, <1>3, Zenon
<1> QED
  BY <1>4

\* So the lowest id of some rows is the id of one of them.
LEMMA LowestIdIn ==
    ASSUME NEW I, I \subseteq ImageRows, I # {}
    PROVE  LowestId(I) \in I
<1>1. IdsOf(I) \in SUBSET Nat /\ IdsOf(I) # {}
  <2>1. \A i \in I : i.id \in Ids
    BY DEF ImageRows
  <2>2. Ids \subseteq Nat
    BY ScanAssumption
  <2> QED
    BY <2>1, <2>2 DEF IdsOf
<1>2. PICK m \in IdsOf(I) : \A n \in IdsOf(I) : m <= n
  BY <1>1, LeastNumber
<1>3. PICK i \in I : i.id = m
  BY <1>2 DEF IdsOf
<1>4. \A j \in I : i.id <= j.id
  BY <1>2, <1>3 DEF IdsOf
<1> QED
  BY <1>3, <1>4 DEF LowestId

\* Linked is an equivalence on identifiers that grows with the candidates.
LEMMA LinkedGrows ==
    ASSUME NEW C, NEW D, C \subseteq D, NEW x, NEW y, Linked(C, x, y)
    PROVE  Linked(D, x, y)
BY DEF Linked

LEMMA LinkedItself == ASSUME NEW C, NEW x PROVE Linked(C, x, x)
BY DEF Linked

LEMMA LinkedPair ==
    ASSUME NEW C, NEW x, NEW y, {x, y} \in C
    PROVE  Linked(C, x, y)
BY DEF Linked

LEMMA LinkedOn ==
    ASSUME NEW C, NEW x, NEW y, NEW z, Linked(C, x, y), Linked(C, y, z)
    PROVE  Linked(C, x, z)
BY DEF Linked

LEMMA LinkedBack ==
    ASSUME NEW C, C \subseteq SUBSET Ids, NEW x \in Ids, NEW y, Linked(C, x, y)
    PROVE  Linked(C, y, x)
<1> SUFFICES ASSUME NEW S \in SUBSET Ids, y \in S, \A c \in C : c \cap S # {} => c \subseteq S,
                    x \notin S
             PROVE  FALSE
  BY DEF Linked
<1> DEFINE T == Ids \ S
<1>1. \A c \in C : c \cap T # {} => c \subseteq T
  OBVIOUS
<1>2. y \in T
  <2>1. T \in SUBSET Ids /\ x \in T
    OBVIOUS
  <2> QED
    BY <1>1, <2>1 DEF Linked
<1> QED
  BY <1>2

\* Linked is having a path: the identifiers of s, each joined to the next.
Path(C, s, n, x, y) ==
    /\ s \in [0..n -> Ids] /\ s[0] = x /\ s[n] = y
    /\ \A k \in 0..(n - 1) : \E c \in C : s[k] \in c /\ s[k + 1] \in c

\* No path leaves a set that no candidate leaves: of the identifiers outside it,
\* one would come first.
LEMMA PathStays ==
    ASSUME NEW C, NEW S, \A c \in C : c \cap S # {} => c \subseteq S, NEW x \in S,
           NEW n \in Nat, NEW s, NEW y, Path(C, s, n, x, y)
    PROVE  y \in S
<1> DEFINE Out == {k \in 0..n : s[k] \notin S}
<1> SUFFICES ASSUME Out # {} PROVE FALSE
  BY DEF Path
<1>1. PICK k \in Out : \A j \in Out : k <= j
  <2>1. Out \in SUBSET Nat
    OBVIOUS
  <2> QED
    BY <2>1, LeastNumber
<1>2. k \in 1..n
  BY <1>1 DEF Path
<1>3. k - 1 \in 0..(n - 1) /\ k - 1 \in 0..n /\ (k - 1) + 1 = k
  BY <1>2
<1>4. s[k - 1] \in S
  BY <1>1, <1>3
<1>5. PICK c \in C : s[k - 1] \in c /\ s[k] \in c
  BY <1>3 DEF Path
<1> QED
  BY <1>1, <1>4, <1>5

\* A path goes on along any candidate it has come to.
LEMMA PathOn ==
    ASSUME NEW C, NEW x, NEW y, NEW n \in Nat, NEW s, Path(C, s, n, x, y),
           NEW c \in C, y \in c, NEW z \in Ids, z \in c
    PROVE  \E t : Path(C, t, n + 1, x, z)
<1> DEFINE t == [k \in 0..(n + 1) |-> IF k = n + 1 THEN z ELSE s[k]]
<1>1. s \in [0..n -> Ids]
  BY DEF Path
<1>2. t \in [0..(n + 1) -> Ids]
  BY <1>1
<1>3. \A k \in 0..n : t[k] = s[k]
  OBVIOUS
<1>4. t[n + 1] = z
  OBVIOUS
<1> HIDE DEF t
<1>5. t[0] = x
  BY <1>3 DEF Path
<1>6. ASSUME NEW k \in 0..n PROVE \E d \in C : t[k] \in d /\ t[k + 1] \in d
  <2>1. CASE k = n
    BY <2>1, <1>3, <1>4 DEF Path
  <2>2. CASE k # n
    <3>1. k \in 0..(n - 1) /\ k + 1 \in 0..n
      BY <2>2
    <3> QED
      BY <3>1, <1>3 DEF Path
  <2> QED
    BY <2>1, <2>2
<1>7. 0..((n + 1) - 1) = 0..n
  OBVIOUS
<1> QED
  BY <1>2, <1>4, <1>5, <1>6, <1>7 DEF Path

\* ExactDuplicatesLinked speaks of paths: two identifiers are linked exactly when
\* the candidates lead from one to the other, as the code's union of them would.
THEOREM LinkedByAPath ==
    ASSUME NEW C, C \subseteq SUBSET Ids, NEW x \in Ids, NEW y \in Ids
    PROVE  Linked(C, x, y) <=> \E n \in Nat : \E s : Path(C, s, n, x, y)
<1> DEFINE R == {z \in Ids : \E n \in Nat : \E s : Path(C, s, n, x, z)}
<1>1. ASSUME Linked(C, x, y) PROVE y \in R
  <2>1. x \in R
    <3> DEFINE s == [k \in 0..0 |-> x]
    <3>1. Path(C, s, 0, x, x)
      BY DEF Path
    <3> QED
      BY <3>1
  <2>2. ASSUME NEW c \in C, NEW u \in c \cap R, NEW v \in c PROVE v \in R
    <3>1. PICK n \in Nat : \E s : Path(C, s, n, x, u)
      BY <2>2
    <3>2. PICK s : Path(C, s, n, x, u)
      BY <3>1
    <3>3. v \in Ids
      OBVIOUS
    <3>4. \E t : Path(C, t, n + 1, x, v)
      BY <3>2, <3>3, PathOn
    <3> QED
      BY <3>3, <3>4
  <2>3. \A c \in C : c \cap R # {} => c \subseteq R
    BY <2>2
  <2>4. R \in SUBSET Ids
    OBVIOUS
  <2> HIDE DEF R
  <2> QED
    BY <1>1, <2>1, <2>3, <2>4 DEF Linked
<1>2. ASSUME NEW n \in Nat, NEW s, Path(C, s, n, x, y) PROVE Linked(C, x, y)
  BY <1>2, PathStays DEF Linked
<1> QED
  BY <1>1, <1>2

-----------------------------------------------------------------------------
\* Before the first scan there is nothing.
LEMMA InitScanInv == Init => ScanInv
<1> SUFFICES ASSUME Init PROVE ScanInv
  OBVIOUS
<1> USE ScanAssumption DEF Init
<1>1. current \in Albums
  OBVIOUS
<1>2. ScanTypeOK
  <2>1. disk \in [Albums -> {Gone} \cup SUBSET Files]
    OBVIOUS
  <2>2. edits \in 0..MaxEdits /\ faults \in 0..MaxFaults /\ cancels \in 0..MaxCancels
    OBVIOUS
  <2> QED
    BY <1>1, <2>1, <2>2 DEF ScanTypeOK, RunStates, AlbumStates, Steps
<1>3. \A a \in Albums : ~Finished(a)
  BY DEF Finished
<1>4. FinishedRows = {}
  BY DEF FinishedRows
<1> QED
  BY <1>2, <1>3, <1>4 DEF ScanInv, StepInv, Looping, RowInv, FileInv, IndexInv, WrittenInv,
       RunStateMatchesAlbums, ExactDuplicatesLinked

\* The candidates of an album join rows of it and rows of the index.
LEMMA DetectedRows ==
    ASSUME ScanTypeOK, NEW I \in SUBSET images
    PROVE  \A c \in Detected(I) : \A x \in c : x \in Ids /\ \E i \in I \cup index : i.id = x
<1> USE DEF ScanTypeOK
<1>1. ASSUME NEW k \in Keys
      PROVE  \A c \in Star(I, k) : \A x \in c : \E i \in I \cup index : i.id = x
  <2> DEFINE own     == {i \in I : k \in ExactKeys(i)}
             prior   == {i \in index : k \in ExactKeys(i)}
             members == own \cup (IF prior = {} THEN {} ELSE {LowestId(prior)})
  <2>1. prior # {} => LowestId(prior) \in index
    BY LowestIdIn
  <2>2. members \subseteq I \cup index
    BY <2>1
  <2>3. members # {} => LowestId(members) \in members
    <3>1. members \subseteq ImageRows
      BY <2>2
    <3> HIDE DEF members
    <3> QED
      BY <3>1, LowestIdIn
  <2>4. Star(I, k) = IF own = {} THEN {}
                     ELSE {{m.id, LowestId(members).id} : m \in members \ {LowestId(members)}}
    BY DEF Star
  <2> HIDE DEF members, own
  <2> QED
    BY <2>2, <2>3, <2>4
<1>2. \A c \in Doubts(I) : \A x \in c : \E i \in I : i.id = x
  BY DEF Doubts, Resembles
<1>3. \A i \in I \cup index : i.id \in Ids
  BY DEF ImageRows
<1>4. \A c \in Detected(I) : c \in Doubts(I) \/ \E k \in Keys : c \in Star(I, k)
  BY Zenon DEF Detected
<1> QED
  BY <1>1, <1>2, <1>3, <1>4

\* Every step keeps types.
LEMMA TypeStep ==
    ASSUME ScanInv, [Next]_vars
    PROVE  ScanTypeOK'
<1> USE ScanAssumption DEF ScanInv, ScanTypeOK, RunStates, AlbumStates, Steps, Unfinished
<1>1. CASE UNCHANGED vars
  BY <1>1 DEF vars, rows, memory, bounds
<1>2. CASE ClearStale
  BY <1>2 DEF ClearStale, ResetAlbums, rows, memory, bounds
<1>3. CASE Reopen
  BY <1>3 DEF Reopen, rows, memory, bounds
<1>4. CASE Enumerate
  BY <1>4 DEF Enumerate, SourceAlbums, Fault, rows, memory, bounds
<1>5. CASE InsertAlbums
  BY <1>5 DEF InsertAlbums, Fault, rows, memory, bounds
<1>6. CASE LoadRun
  BY <1>6 DEF LoadRun, rows, memory, bounds
<1>7. CASE NextAlbum
  BY <1>7 DEF NextAlbum, SetAlbum, rows, memory, bounds
<1>8. CASE CaptureSnapshot
  BY <1>8 DEF CaptureSnapshot, SetAlbum, FailAlbum, StopLoop, Fault, rows, memory, bounds
<1>9. CASE VerifySnapshot
  BY <1>9 DEF VerifySnapshot, SetAlbum, FailAlbum, StopLoop, Fault, rows, memory, bounds
<1>10. CASE WalkAlbum
  BY <1>10 DEF WalkAlbum, SetAlbum, FailAlbum, Fault, rows, memory, bounds
<1>11. CASE Fingerprint
  <2>1. images' \subseteq ImageRows
    <3>1. PICK F \in SUBSET walked :
              \E id \in [F -> FreeIds] : images' = images \cup {RowOf(f, id[f]) : f \in F}
      BY <1>11 DEF Fingerprint
    <3>2. PICK id \in [F -> FreeIds] : images' = images \cup {RowOf(f, id[f]) : f \in F}
      BY <3>1
    <3>3. \A f \in F : RowOf(f, id[f]) \in ImageRows
      BY DEF RowOf, ImageRows, FreeIds, Decodes
    <3> QED
      BY <3>2, <3>3
  <2> QED
    BY <1>11, <2>1 DEF Fingerprint, bounds
<1>12. CASE DetectDuplicates
  <2>1. candidates' \subseteq SUBSET Ids
    <3>1. candidates' \subseteq candidates \cup Detected(RowsOf({current}))
      BY <1>12 DEF DetectDuplicates
    <3>2. \A c \in Detected(RowsOf({current})) : c \subseteq Ids
      BY DetectedRows DEF RowsOf
    <3> QED
      BY <3>1, <3>2
  <2> QED
    BY <1>12, <2>1 DEF DetectDuplicates, SetAlbum, FailAlbum, StopLoop, Fault, memory
<1>13. CASE FinalizeAlbum
  BY <1>13 DEF FinalizeAlbum, SetAlbum, RowsOf, rows, memory, bounds
<1>14. CASE GroupDuplicates
  BY <1>14 DEF GroupDuplicates, rows, memory, bounds
<1>15. CASE CloseScan
  BY <1>15 DEF CloseScan, CloseState, rows, memory, bounds
<1>16. CASE ScanStops
  BY <1>16 DEF ScanStops, Fault, rows, memory, bounds
<1>17. CASE StartScan
  BY <1>17 DEF StartScan, rows, memory, bounds
<1>18. CASE ResumeScan
  BY <1>18 DEF ResumeScan, rows, memory, bounds
<1>19. CASE CancelScan
  BY <1>19 DEF CancelScan, rows, memory, bounds
<1>20. CASE AbandonRun
  BY <1>20 DEF AbandonRun, rows, memory, bounds
<1>21. ASSUME NEW a \in Albums, RetryAlbum(a) PROVE ScanTypeOK'
  BY <1>21 DEF RetryAlbum, ResetAlbums, rows, memory, bounds
<1>22. ASSUME NEW a \in Albums, EditSource(a) PROVE ScanTypeOK'
  BY <1>22 DEF EditSource, rows, memory, bounds
<1> QED
  BY <1>1, <1>2, <1>3, <1>4, <1>5, <1>6, <1>7, <1>8, <1>9, <1>10, <1>11, <1>12, <1>13, <1>14, <1>15, <1>16, <1>17, <1>18, <1>19, <1>20, <1>21, <1>22 DEF Next, ScanStep
\* Every step knows the state of run and albums.
LEMMA StepStep ==
    ASSUME ScanInv, [Next]_vars
    PROVE  StepInv'
<1> USE ScanAssumption DEF ScanInv, ScanTypeOK, AlbumStates, StepInv, Looping, Unfinished
<1>1. CASE UNCHANGED vars
  BY <1>1 DEF vars, rows, memory, bounds
<1>2. CASE ClearStale
  BY <1>2 DEF ClearStale, ResetAlbums, rows, memory, bounds
<1>3. CASE Reopen
  BY <1>3 DEF Reopen, rows, memory, bounds
<1>4. CASE Enumerate
  BY <1>4 DEF Enumerate, SourceAlbums, Fault, rows, memory, bounds
<1>5. CASE InsertAlbums
  BY <1>5 DEF InsertAlbums, Fault, rows, memory, bounds
<1>6. CASE LoadRun
  BY <1>6 DEF LoadRun, rows, memory, bounds, Finished
<1>7. CASE NextAlbum
  BY <1>7 DEF NextAlbum, SetAlbum, rows, memory, bounds
<1>8. CASE CaptureSnapshot
  BY <1>8 DEF CaptureSnapshot, SetAlbum, FailAlbum, StopLoop, Fault, rows, memory, bounds
<1>9. CASE VerifySnapshot
  BY <1>9 DEF VerifySnapshot, SetAlbum, FailAlbum, StopLoop, Fault, rows, memory, bounds
<1>10. CASE WalkAlbum
  BY <1>10 DEF WalkAlbum, SetAlbum, FailAlbum, Fault, rows, memory, bounds
<1>11. CASE Fingerprint
  BY <1>11 DEF Fingerprint, rows, memory, bounds
<1>12. CASE DetectDuplicates
  BY <1>12 DEF DetectDuplicates, SetAlbum, FailAlbum, StopLoop, Fault, rows, memory, bounds
<1>13. CASE FinalizeAlbum
  BY <1>13 DEF FinalizeAlbum, SetAlbum, RowsOf, rows, memory, bounds
<1>14. CASE GroupDuplicates
  BY <1>14 DEF GroupDuplicates, rows, memory, bounds, Finished
<1>15. CASE CloseScan
  BY <1>15 DEF CloseScan, CloseState, rows, memory, bounds, Finished
<1>16. CASE ScanStops
  BY <1>16 DEF ScanStops, Fault, rows, memory, bounds
<1>17. CASE StartScan
  BY <1>17 DEF StartScan, rows, memory, bounds
<1>18. CASE ResumeScan
  BY <1>18 DEF ResumeScan, rows, memory, bounds
<1>19. CASE CancelScan
  BY <1>19 DEF CancelScan, rows, memory, bounds
<1>20. CASE AbandonRun
  BY <1>20 DEF AbandonRun, rows, memory, bounds
<1>21. ASSUME NEW a \in Albums, RetryAlbum(a) PROVE StepInv'
  BY <1>21 DEF RetryAlbum, ResetAlbums, rows, memory, bounds
<1>22. ASSUME NEW a \in Albums, EditSource(a) PROVE StepInv'
  BY <1>22 DEF EditSource, rows, memory, bounds
<1> QED
  BY <1>1, <1>2, <1>3, <1>4, <1>5, <1>6, <1>7, <1>8, <1>9, <1>10, <1>11, <1>12, <1>13, <1>14, <1>15, <1>16, <1>17, <1>18, <1>19, <1>20, <1>21, <1>22 DEF Next, ScanStep
\* Rows stay distinct, and candidates between rows that exist.
LEMMA RowStep ==
    ASSUME ScanInv, [Next]_vars
    PROVE  RowInv'
<1> USE ScanAssumption DEF ScanInv, ScanTypeOK, ImageRows, RowInv, StepInv, Looping
<1>1. CASE UNCHANGED vars
  BY <1>1 DEF vars, rows, memory, bounds
<1>2. CASE ClearStale
  <2>1. images' = images \ RowsOf({b \in Albums : album[b] = "analyzing"})
    BY <1>2 DEF ClearStale, ResetAlbums
  <2> QED
    BY <1>2, <2>1 DEF ClearStale, ResetAlbums, RowsOf, IdsOf
<1>3. CASE Reopen
  BY <1>3 DEF Reopen, rows, memory, bounds
<1>4. CASE Enumerate
  BY <1>4 DEF Enumerate, SourceAlbums, Fault, rows, memory, bounds
<1>5. CASE InsertAlbums
  BY <1>5 DEF InsertAlbums, Fault, rows, memory, bounds
<1>6. CASE LoadRun
  BY <1>6 DEF LoadRun, rows, memory, bounds
<1>7. CASE NextAlbum
  BY <1>7 DEF NextAlbum, SetAlbum, rows, memory, bounds
<1>8. CASE CaptureSnapshot
  BY <1>8 DEF CaptureSnapshot, SetAlbum, FailAlbum, StopLoop, Fault, rows, memory, bounds
<1>9. CASE VerifySnapshot
  BY <1>9 DEF VerifySnapshot, SetAlbum, FailAlbum, StopLoop, Fault, rows, memory, bounds
<1>10. CASE WalkAlbum
  BY <1>10 DEF WalkAlbum, SetAlbum, FailAlbum, Fault, rows, memory, bounds
<1>11. CASE Fingerprint
  <2>0. PICK F \in SUBSET walked :
            \E id \in [F -> FreeIds] : /\ \A f, g \in F : id[f] = id[g] => f = g
                                       /\ images' = images \cup {RowOf(f, id[f]) : f \in F}
    BY <1>11 DEF Fingerprint
  <2>1. PICK id \in [F -> FreeIds] :
            /\ \A f, g \in F : id[f] = id[g] => f = g
            /\ images' = images \cup {RowOf(f, id[f]) : f \in F}
    BY <2>0
  <2> DEFINE new == {RowOf(f, id[f]) : f \in F}
  <2>2. \A i \in new : i.album = current /\ i.file \in F /\ i.id = id[i.file] /\ i = RowOf(i.file, i.id)
    BY DEF RowOf
  <2>3. \A i \in new, j \in images : i.id # j.id /\ i.album # j.album
    BY <2>2, <1>11 DEF FreeIds, IdsOf, Fingerprint
  <2>4. \A i, j \in new : i.id = j.id \/ i.file = j.file => i = j
    BY <2>1, <2>2
  <2> HIDE DEF new
  <2>5. images' = images \cup new
    BY <2>1 DEF new
  <2> QED
    BY <1>11, <2>2, <2>3, <2>4, <2>5 DEF Fingerprint
<1>12. CASE DetectDuplicates
  <2>1. \A c \in candidates' : \A x \in c : \E i \in images : i.id = x
    <3>1. candidates' \subseteq candidates \cup Detected(RowsOf({current}))
      BY <1>12 DEF DetectDuplicates
    <3>2. \A c \in Detected(RowsOf({current})) : \A x \in c : \E i \in images \cup index : i.id = x
      BY DetectedRows DEF RowsOf
    <3>3. index \subseteq images
      BY DEF IndexInv
    <3> QED
      BY <3>1, <3>2, <3>3
  <2> QED
    BY <1>12, <2>1 DEF DetectDuplicates, SetAlbum, FailAlbum, StopLoop, memory
<1>13. CASE FinalizeAlbum
  BY <1>13 DEF FinalizeAlbum, SetAlbum, RowsOf, rows, memory, bounds
<1>14. CASE GroupDuplicates
  BY <1>14 DEF GroupDuplicates, rows, memory, bounds, Finished
<1>15. CASE CloseScan
  BY <1>15 DEF CloseScan, CloseState, rows, memory, bounds
<1>16. CASE ScanStops
  BY <1>16 DEF ScanStops, Fault, rows, memory, bounds
<1>17. CASE StartScan
  BY <1>17 DEF StartScan, rows, memory, bounds
<1>18. CASE ResumeScan
  BY <1>18 DEF ResumeScan, rows, memory, bounds
<1>19. CASE CancelScan
  BY <1>19 DEF CancelScan, rows, memory, bounds
<1>20. CASE AbandonRun
  BY <1>20 DEF AbandonRun, rows, memory, bounds
<1>21. ASSUME NEW a \in Albums, RetryAlbum(a) PROVE RowInv'
  <2>1. images' = images \ RowsOf({a})
    BY <1>21 DEF RetryAlbum, ResetAlbums
  <2> QED
    BY <1>21, <2>1 DEF RetryAlbum, ResetAlbums, RowsOf, IdsOf
<1>22. ASSUME NEW a \in Albums, EditSource(a) PROVE RowInv'
  BY <1>22 DEF EditSource, rows, memory, bounds
<1> QED
  BY <1>1, <1>2, <1>3, <1>4, <1>5, <1>6, <1>7, <1>8, <1>9, <1>10, <1>11, <1>12, <1>13, <1>14, <1>15, <1>16, <1>17, <1>18, <1>19, <1>20, <1>21, <1>22 DEF Next, ScanStep
\* The rows of a checkpoint are the files of its snapshot.
LEMMA FileStep ==
    ASSUME ScanInv, [Next]_vars
    PROVE  FileInv'
<1> USE ScanAssumption DEF ScanInv, ScanTypeOK, FileInv, StepInv, Looping, FilesOf, Finished
<1>1. CASE UNCHANGED vars
  BY <1>1 DEF vars, rows, memory, bounds
<1>2. CASE ClearStale
  <2>1. \A b \in Albums : Finished(b)' => Finished(b) /\ FilesOf(b)' = FilesOf(b)
    BY <1>2 DEF ClearStale, ResetAlbums, RowsOf
  <2> QED
    BY <1>2, <2>1 DEF ClearStale, bounds
<1>3. CASE Reopen
  BY <1>3 DEF Reopen, rows, memory, bounds
<1>4. CASE Enumerate
  BY <1>4 DEF Enumerate, SourceAlbums, Fault, rows, memory, bounds
<1>5. CASE InsertAlbums
  BY <1>5 DEF InsertAlbums, Fault, rows, memory, bounds
<1>6. CASE LoadRun
  BY <1>6 DEF LoadRun, rows, memory, bounds
<1>7. CASE NextAlbum
  BY <1>7 DEF NextAlbum, SetAlbum, rows, memory, bounds
<1>8. CASE CaptureSnapshot
  BY <1>8 DEF CaptureSnapshot, SetAlbum, FailAlbum, StopLoop, Fault, rows, memory, bounds
<1>9. CASE VerifySnapshot
  BY <1>9 DEF VerifySnapshot, SetAlbum, FailAlbum, StopLoop, Fault, rows, memory, bounds, SnapshotMatches
<1>10. CASE WalkAlbum
  BY <1>10 DEF WalkAlbum, SetAlbum, FailAlbum, Fault, rows, memory, bounds
<1>11. CASE Fingerprint
  <2>0. PICK F \in SUBSET walked :
            /\ F = walked \/ cancel
            /\ \E id \in [F -> FreeIds] : images' = images \cup {RowOf(f, id[f]) : f \in F}
    BY <1>11 DEF Fingerprint
  <2>1. PICK id \in [F -> FreeIds] : images' = images \cup {RowOf(f, id[f]) : f \in F}
    BY <2>0
  <2>2. \A b \in Albums : b # current => FilesOf(b)' = FilesOf(b)
    BY <2>1, <1>11 DEF RowOf, Fingerprint
  <2>3. FilesOf(current)' = F
    <3>1. \A i \in images : i.album # current
      BY <1>11 DEF RowInv, Fingerprint
    <3>2. \A f \in F : RowOf(f, id[f]).album = current /\ RowOf(f, id[f]).file = f
      BY DEF RowOf
    <3>3. {j \in images' : j.album = current} = {RowOf(f, id[f]) : f \in F}
      BY <2>1, <3>1, <3>2
    <3>4. FilesOf(current)' = {i.file : i \in {RowOf(f, id[f]) : f \in F}}
      BY <3>3, <1>11 DEF Fingerprint
    <3>5. \A x : x \in {i.file : i \in {RowOf(f, id[f]) : f \in F}} <=> x \in F
      BY <3>2
    <3> HIDE DEF FilesOf
    <3> QED
      BY <3>4, <3>5, Zenon
  <2> HIDE DEF FilesOf
  <2> QED
    BY <1>11, <2>0, <2>2, <2>3 DEF Fingerprint, bounds
<1>12. CASE DetectDuplicates
  BY <1>12 DEF DetectDuplicates, SetAlbum, FailAlbum, StopLoop, Fault, rows, memory, bounds
<1>13. CASE FinalizeAlbum
  BY <1>13 DEF FinalizeAlbum, SetAlbum, RowsOf, rows, memory, bounds
<1>14. CASE GroupDuplicates
  BY <1>14 DEF GroupDuplicates, rows, memory, bounds
<1>15. CASE CloseScan
  BY <1>15 DEF CloseScan, CloseState, rows, memory, bounds
<1>16. CASE ScanStops
  BY <1>16 DEF ScanStops, Fault, rows, memory, bounds
<1>17. CASE StartScan
  BY <1>17 DEF StartScan, rows, memory, bounds
<1>18. CASE ResumeScan
  BY <1>18 DEF ResumeScan, rows, memory, bounds
<1>19. CASE CancelScan
  BY <1>19 DEF CancelScan, rows, memory, bounds
<1>20. CASE AbandonRun
  BY <1>20 DEF AbandonRun, rows, memory, bounds
<1>21. ASSUME NEW a \in Albums, RetryAlbum(a) PROVE FileInv'
  <2>1. \A b \in Albums : Finished(b)' => Finished(b) /\ FilesOf(b)' = FilesOf(b)
    BY <1>21 DEF RetryAlbum, ResetAlbums, RowsOf
  <2> QED
    BY <1>21, <2>1 DEF RetryAlbum, bounds
<1>22. ASSUME NEW a \in Albums, EditSource(a) PROVE FileInv'
  BY <1>22 DEF EditSource, rows, memory, bounds
<1> QED
  BY <1>1, <1>2, <1>3, <1>4, <1>5, <1>6, <1>7, <1>8, <1>9, <1>10, <1>11, <1>12, <1>13, <1>14, <1>15, <1>16, <1>17, <1>18, <1>19, <1>20, <1>21, <1>22 DEF Next, ScanStep
\* The index follows the checkpoints.
LEMMA IndexStep ==
    ASSUME ScanInv, [Next]_vars
    PROVE  IndexInv'
<1> USE ScanAssumption DEF ScanInv, ScanTypeOK, IndexInv, StepInv, ImageRows, Looping, Finished
<1>1. CASE UNCHANGED vars
  BY <1>1 DEF vars, rows, memory, bounds
<1>2. CASE ClearStale
  BY <1>2 DEF ClearStale, ResetAlbums, rows, memory, bounds, RowsOf
<1>3. CASE Reopen
  BY <1>3 DEF Reopen, rows, memory, bounds
<1>4. CASE Enumerate
  BY <1>4 DEF Enumerate, SourceAlbums, Fault, rows, memory, bounds
<1>5. CASE InsertAlbums
  BY <1>5 DEF InsertAlbums, Fault, rows, memory, bounds
<1>6. CASE LoadRun
  BY <1>6 DEF LoadRun, rows, memory, bounds
<1>7. CASE NextAlbum
  BY <1>7 DEF NextAlbum, SetAlbum, rows, memory, bounds
<1>8. CASE CaptureSnapshot
  BY <1>8 DEF CaptureSnapshot, SetAlbum, FailAlbum, StopLoop, Fault, rows, memory, bounds
<1>9. CASE VerifySnapshot
  BY <1>9 DEF VerifySnapshot, SetAlbum, FailAlbum, StopLoop, Fault, rows, memory, bounds
<1>10. CASE WalkAlbum
  BY <1>10 DEF WalkAlbum, SetAlbum, FailAlbum, Fault, rows, memory, bounds
<1>11. CASE Fingerprint
  <2>1. \A i \in images' : i \in images \/ i.album = current
    BY <1>11 DEF Fingerprint, RowOf
  <2>2. images \subseteq images'
    BY <1>11 DEF Fingerprint
  <2> QED
    BY <1>11, <2>1, <2>2 DEF Fingerprint
<1>12. CASE DetectDuplicates
  BY <1>12 DEF DetectDuplicates, SetAlbum, FailAlbum, StopLoop, Fault, rows, memory, bounds
<1>13. CASE FinalizeAlbum
  BY <1>13 DEF FinalizeAlbum, SetAlbum, RowsOf, rows, memory, bounds
<1>14. CASE GroupDuplicates
  BY <1>14 DEF GroupDuplicates, rows, memory, bounds
<1>15. CASE CloseScan
  BY <1>15 DEF CloseScan, CloseState, rows, memory, bounds
<1>16. CASE ScanStops
  BY <1>16 DEF ScanStops, Fault, rows, memory, bounds
<1>17. CASE StartScan
  BY <1>17 DEF StartScan, rows, memory, bounds
<1>18. CASE ResumeScan
  BY <1>18 DEF ResumeScan, rows, memory, bounds
<1>19. CASE CancelScan
  BY <1>19 DEF CancelScan, rows, memory, bounds
<1>20. CASE AbandonRun
  BY <1>20 DEF AbandonRun, rows, memory, bounds
<1>21. ASSUME NEW a \in Albums, RetryAlbum(a) PROVE IndexInv'
  BY <1>21 DEF RetryAlbum, ResetAlbums, rows, memory, bounds, RowsOf
<1>22. ASSUME NEW a \in Albums, EditSource(a) PROVE IndexInv'
  BY <1>22 DEF EditSource, rows, memory, bounds
<1> QED
  BY <1>1, <1>2, <1>3, <1>4, <1>5, <1>6, <1>7, <1>8, <1>9, <1>10, <1>11, <1>12, <1>13, <1>14, <1>15, <1>16, <1>17, <1>18, <1>19, <1>20, <1>21, <1>22 DEF Next, ScanStep
\* Candidates are written before the checkpoint, and nothing changes in between.
LEMMA WrittenStep ==
    ASSUME ScanInv, [Next]_vars
    PROVE  WrittenInv'
<1>1. CASE UNCHANGED <<pc, images, index, current, candidates>>
  <2>1. Detected(RowsOf({current}))' = Detected(RowsOf({current}))
    BY <1>1 DEF Detected, Star, RowsOf
  <2> QED
    BY <1>1, <2>1 DEF ScanInv, WrittenInv
<1>2. CASE DetectDuplicates
  <2>1. UNCHANGED <<images, index, current>>
    BY <1>2 DEF DetectDuplicates, memory
  <2>2. Detected(RowsOf({current}))' = Detected(RowsOf({current}))
    BY <2>1 DEF Detected, Star, RowsOf
  <2> QED
    BY <1>2, <2>2 DEF WrittenInv, DetectDuplicates, FailAlbum, StopLoop
<1>3. CASE pc' # "finalize"
  BY <1>3 DEF WrittenInv
<1>4. DetectDuplicates \/ pc' # "finalize" \/ UNCHANGED <<pc, images, index, current, candidates>>
  BY DEF Next, ScanStep, ClearStale, Reopen, Enumerate, InsertAlbums, LoadRun, NextAlbum,
       CaptureSnapshot, VerifySnapshot, WalkAlbum, Fingerprint, FinalizeAlbum, GroupDuplicates,
       CloseScan, ScanStops, StartScan, ResumeScan, CancelScan, AbandonRun, RetryAlbum,
       EditSource, FailAlbum, StopLoop, Fault, vars, rows, memory, bounds
<1> QED
  BY <1>1, <1>2, <1>3, <1>4

\* The state of the run agrees with its albums.
LEMMA StateStep ==
    ASSUME ScanInv, [Next]_vars
    PROVE  RunStateMatchesAlbums'
<1> USE ScanAssumption DEF ScanInv, ScanTypeOK, AlbumStates, RunStateMatchesAlbums, AllFinished, StepInv, Looping, Unfinished
<1>1. CASE UNCHANGED vars
  BY <1>1 DEF vars, rows, memory, bounds
<1>2. CASE ClearStale
  BY <1>2 DEF ClearStale, ResetAlbums, rows, memory, bounds
<1>3. CASE Reopen
  BY <1>3 DEF Reopen, rows, memory, bounds
<1>4. CASE Enumerate
  BY <1>4 DEF Enumerate, SourceAlbums, Fault, rows, memory, bounds
<1>5. CASE InsertAlbums
  BY <1>5 DEF InsertAlbums, Fault, rows, memory, bounds
<1>6. CASE LoadRun
  BY <1>6 DEF LoadRun, rows, memory, bounds
<1>7. CASE NextAlbum
  BY <1>7 DEF NextAlbum, SetAlbum, rows, memory, bounds
<1>8. CASE CaptureSnapshot
  BY <1>8 DEF CaptureSnapshot, SetAlbum, FailAlbum, StopLoop, Fault, rows, memory, bounds
<1>9. CASE VerifySnapshot
  BY <1>9 DEF VerifySnapshot, SetAlbum, FailAlbum, StopLoop, Fault, rows, memory, bounds
<1>10. CASE WalkAlbum
  BY <1>10 DEF WalkAlbum, SetAlbum, FailAlbum, Fault, rows, memory, bounds
<1>11. CASE Fingerprint
  BY <1>11 DEF Fingerprint, rows, memory, bounds
<1>12. CASE DetectDuplicates
  BY <1>12 DEF DetectDuplicates, SetAlbum, FailAlbum, StopLoop, Fault, rows, memory, bounds
<1>13. CASE FinalizeAlbum
  BY <1>13 DEF FinalizeAlbum, SetAlbum, RowsOf, rows, memory, bounds
<1>14. CASE GroupDuplicates
  BY <1>14 DEF GroupDuplicates, rows, memory, bounds, Finished
<1>15. CASE CloseScan
  BY <1>15 DEF CloseScan, CloseState, rows, memory, bounds
<1>16. CASE ScanStops
  BY <1>16 DEF ScanStops, Fault, rows, memory, bounds
<1>17. CASE StartScan
  BY <1>17 DEF StartScan, rows, memory, bounds
<1>18. CASE ResumeScan
  BY <1>18 DEF ResumeScan, rows, memory, bounds
<1>19. CASE CancelScan
  BY <1>19 DEF CancelScan, rows, memory, bounds
<1>20. CASE AbandonRun
  BY <1>20 DEF AbandonRun, rows, memory, bounds
<1>21. ASSUME NEW a \in Albums, RetryAlbum(a) PROVE RunStateMatchesAlbums'
  BY <1>21 DEF RetryAlbum, ResetAlbums, rows, memory, bounds
<1>22. ASSUME NEW a \in Albums, EditSource(a) PROVE RunStateMatchesAlbums'
  BY <1>22 DEF EditSource, rows, memory, bounds
<1> QED
  BY <1>1, <1>2, <1>3, <1>4, <1>5, <1>6, <1>7, <1>8, <1>9, <1>10, <1>11, <1>12, <1>13, <1>14, <1>15, <1>16, <1>17, <1>18, <1>19, <1>20, <1>21, <1>22 DEF Next, ScanStep
-----------------------------------------------------------------------------
\* Two analyzed rows that share a key stay linked as long as neither they nor the
\* candidates between analyzed rows are lost.
LEMMA LinksKept ==
    ASSUME ScanInv, FinishedRows' = FinishedRows,
           \A c \in candidates : c \subseteq IdsOf(FinishedRows) => c \in candidates'
    PROVE  ExactDuplicatesLinked'
<1> DEFINE among == {c \in candidates : c \subseteq IdsOf(FinishedRows)}
<1>1. IdsOf(FinishedRows)' = IdsOf(FinishedRows)
  BY DEF IdsOf
<1>2. among \subseteq among'
  BY <1>1
<1> SUFFICES ASSUME NEW i \in FinishedRows, NEW j \in FinishedRows, ExactKeys(i) \cap ExactKeys(j) # {}
             PROVE  Linked(among', i.id, j.id)
  BY DEF ExactDuplicatesLinked, ExactKeys
<1>3. Linked(among, i.id, j.id)
  BY DEF ScanInv, ExactDuplicatesLinked
<1> HIDE DEF among
<1> QED
  BY <1>2, <1>3, LinkedGrows

\* An album that starts anew takes no candidate between analyzed rows with it.
LEMMA ResetKeepsLinks ==
    ASSUME ScanInv, NEW A, \A a \in A : ~Finished(a), A \subseteq Albums, ResetAlbums(A)
    PROVE  /\ FinishedRows' = FinishedRows
           /\ \A c \in candidates : c \subseteq IdsOf(FinishedRows) => c \in candidates'
<1>1. \A i \in FinishedRows, j \in RowsOf(A) : i.id # j.id
  BY DEF ScanInv, RowInv, FinishedRows, RowsOf
<1>2. IdsOf(FinishedRows) \cap IdsOf(RowsOf(A)) = {}
  BY <1>1 DEF IdsOf
<1>3. \A c \in candidates : c \subseteq IdsOf(FinishedRows) => c \in candidates'
  BY <1>2 DEF ResetAlbums
<1>4. \A i \in images : i.album \in Albums
  BY DEF ScanInv, ScanTypeOK, ImageRows
<1>5. album' = [a \in Albums |-> IF a \in A THEN "pending" ELSE album[a]] /\ images' = images \ RowsOf(A)
  BY DEF ResetAlbums
<1>6. \A i \in images : i \in images' /\ Finished(i.album)' <=> Finished(i.album)
  BY <1>4, <1>5 DEF Finished, RowsOf
<1> QED
  BY <1>3, <1>5, <1>6 DEF FinishedRows

\* The stars of all keys are among the candidates of an album.
LEMMA StarDetected ==
    ASSUME NEW I, NEW k \in Keys
    PROVE  \A c \in Star(I, k) : c \in Detected(I)
<1> SUFFICES ASSUME NEW c \in Star(I, k) PROVE c \in UNION {Star(I, n) : n \in Keys}
  BY DEF Detected
<1> QED
  OBVIOUS

\* A row with key k that is a checkpoint, or about to be, is linked to the one of
\* lowest id among the rows of the album and the representative of the run.
LEMMA LinkedToCenter ==
    ASSUME ScanInv, pc = "finalize", NEW k \in Keys,
           NEW J, J = FinishedRows \cup RowsOf({current}),
           NEW i \in J, k \in ExactKeys(i),
           NEW own, own = {m \in RowsOf({current}) : k \in ExactKeys(m)}, own # {},
           NEW prior, prior = {m \in index : k \in ExactKeys(m)},
           NEW members, members = own \cup (IF prior = {} THEN {} ELSE {LowestId(prior)})
    PROVE  Linked({c \in candidates : c \subseteq IdsOf(J)}, i.id, LowestId(members).id)
<1> DEFINE among == {c \in candidates : c \subseteq IdsOf(FinishedRows)}
           joined == {c \in candidates : c \subseteq IdsOf(J)}
           low == LowestId(members)
<1> USE DEF ScanInv, ScanTypeOK
<1>1. prior # {} => LowestId(prior) \in prior
  BY LowestIdIn
<1>2. prior \subseteq FinishedRows
  BY DEF IndexInv, FinishedRows
<1>3. members \subseteq J /\ members # {}
  BY <1>1, <1>2
<1>4. J \subseteq ImageRows
  BY DEF FinishedRows, RowsOf
<1>5. low \in members
  BY <1>3, <1>4, LowestIdIn
<1>6. \A m \in members \ {low} : {m.id, low.id} \in joined
  <2>1. \A m \in members \ {low} : {m.id, low.id} \in Star(RowsOf({current}), k)
    BY DEF Star
  <2>2. \A c \in Star(RowsOf({current}), k) : c \in Detected(RowsOf({current}))
    BY StarDetected
  <2>3. \A m \in J : m.id \in IdsOf(J)
    BY DEF IdsOf
  <2>4. \A m \in members \ {low} : {m.id, low.id} \in candidates
    BY <2>1, <2>2 DEF WrittenInv
  <2> HIDE DEF low
  <2> QED
    BY <1>3, <1>5, <2>3, <2>4
<1>7. \A m \in members : Linked(joined, m.id, low.id)
  <2> HIDE DEF joined, low
  <2> QED
    BY <1>6, LinkedPair, LinkedItself
<1>8. CASE i \in RowsOf({current})
  BY <1>7, <1>8
<1>9. CASE i \in FinishedRows
  <2>1. i.ok
    BY DEF ExactKeys
  <2>2. i \in prior
    BY <1>9, <2>1 DEF IndexInv, FinishedRows, Looping
  <2> DEFINE p == LowestId(prior)
  <2>3. p \in FinishedRows /\ k \in ExactKeys(p) /\ p \in members
    BY <1>1, <1>2, <2>2
  <2>4. Linked(among, i.id, p.id)
    BY <1>9, <2>3 DEF ExactDuplicatesLinked
  <2>5. among \subseteq joined
    BY DEF IdsOf
  <2>6. Linked(joined, p.id, low.id)
    BY <1>7, <2>3
  <2>7. Linked(joined, i.id, low.id)
    <3> HIDE DEF among, joined, low, p
    <3>1. Linked(joined, i.id, p.id)
      BY <2>4, <2>5, LinkedGrows
    <3> QED
      BY <2>6, <3>1, LinkedOn
  <2> QED
    BY <2>7
<1> QED
  BY <1>8, <1>9

\* The checkpoint of an album joins its rows to each other and to the earlier ones.
LEMMA CheckpointLinks ==
    ASSUME ScanInv, FinalizeAlbum, ~cancel
    PROVE  ExactDuplicatesLinked'
<1> DEFINE J == FinishedRows \cup RowsOf({current})
           joined == {c \in candidates : c \subseteq IdsOf(J)}
<1> USE DEF ScanInv, ScanTypeOK
<1>1. pc = "finalize" /\ UNCHANGED <<images, candidates>>
  BY DEF FinalizeAlbum
<1>2. FinishedRows' = J
  <2>1. \A a \in Albums : Finished(a)' <=> Finished(a) \/ a = current
    BY <1>1 DEF FinalizeAlbum, SetAlbum, Finished
  <2>2. \A i \in images : i.album \in Albums
    BY DEF ImageRows
  <2> QED
    BY <1>1, <2>1, <2>2 DEF FinishedRows, RowsOf
<1>3. IdsOf(FinishedRows)' = IdsOf(J)
  BY <1>2 DEF IdsOf
<1> SUFFICES ASSUME NEW i \in J, NEW j \in J, ExactKeys(i) \cap ExactKeys(j) # {}
             PROVE  Linked(joined, i.id, j.id)
  BY <1>1, <1>2, <1>3 DEF ExactDuplicatesLinked, ExactKeys
<1>4. J \subseteq ImageRows
  BY DEF FinishedRows, RowsOf
<1>5. PICK k \in ExactKeys(i) : k \in ExactKeys(j)
  OBVIOUS
<1>6. k \in Keys
  BY <1>4, <1>5, ScanAssumption DEF ExactKeys, ImageRows
<1> DEFINE own == {m \in RowsOf({current}) : k \in ExactKeys(m)}
<1>7. CASE own = {}
  <2>1. i \in FinishedRows /\ j \in FinishedRows
    BY <1>5, <1>7
  <2>2. Linked({c \in candidates : c \subseteq IdsOf(FinishedRows)}, i.id, j.id)
    BY <2>1 DEF ExactDuplicatesLinked
  <2>3. {c \in candidates : c \subseteq IdsOf(FinishedRows)} \subseteq joined
    BY DEF IdsOf
  <2> HIDE DEF joined
  <2> QED
    BY <2>2, <2>3, LinkedGrows
<1>8. CASE own # {}
  <2> DEFINE prior == {m \in index : k \in ExactKeys(m)}
             members == own \cup (IF prior = {} THEN {} ELSE {LowestId(prior)})
             low == LowestId(members)
  <2>1. Linked(joined, i.id, low.id) /\ Linked(joined, j.id, low.id)
    BY <1>1, <1>5, <1>6, <1>8, LinkedToCenter
  <2>2. joined \subseteq SUBSET Ids /\ j.id \in Ids
    BY <1>4 DEF ImageRows
  <2> HIDE DEF joined, low
  <2>3. Linked(joined, low.id, j.id)
    BY <2>1, <2>2, LinkedBack
  <2> QED
    BY <2>1, <2>3, LinkedOn
<1> QED
  BY <1>7, <1>8

\* Every step keeps exact duplicates linked.
LEMMA LinkStep ==
    ASSUME ScanInv, [Next]_vars
    PROVE  ExactDuplicatesLinked'
<1>1. CASE UNCHANGED <<images, candidates, album>>
  <2>1. FinishedRows' = FinishedRows
    BY <1>1 DEF FinishedRows, Finished
  <2> QED
    BY <1>1, <2>1, LinksKept
<1>2. CASE \E A \in SUBSET Albums : ResetAlbums(A) /\ \A a \in A : ~Finished(a)
  BY <1>2, ResetKeepsLinks, LinksKept
<1>3. CASE FinalizeAlbum /\ ~cancel
  BY <1>3, CheckpointLinks
<1>4. ASSUME candidates \subseteq candidates',
             \A i \in images' : i \in images \/ ~Finished(i.album)', images \subseteq images',
             \A a \in Albums : Finished(a)' <=> Finished(a)
      PROVE  ExactDuplicatesLinked'
  <2>1. FinishedRows' = FinishedRows
    BY <1>4 DEF FinishedRows, ScanInv, ScanTypeOK, ImageRows
  <2> QED
    BY <1>4, <2>1, LinksKept
<1> USE DEF ScanInv, ScanTypeOK, ImageRows
<1>5. CASE ClearStale
  BY <1>2, <1>5 DEF ClearStale, Finished
<1>6. ASSUME NEW a \in Albums, RetryAlbum(a) PROVE ExactDuplicatesLinked'
  <2>1. {a} \in SUBSET Albums /\ ResetAlbums({a}) /\ ~Finished(a)
    BY <1>6 DEF RetryAlbum, Finished
  <2> QED
    BY <1>2, <2>1
<1>7. CASE InsertAlbums
  BY <1>4, <1>7 DEF InsertAlbums, Finished
<1>8. CASE NextAlbum
  BY <1>4, <1>8 DEF NextAlbum, SetAlbum, StepInv, Finished
<1>9. CASE CaptureSnapshot \/ VerifySnapshot \/ WalkAlbum \/ DetectDuplicates
  <2>1. images' = images /\ candidates \subseteq candidates'
    BY <1>9 DEF CaptureSnapshot, VerifySnapshot, WalkAlbum, DetectDuplicates
  <2>2. album' = album \/ FailAlbum
    BY <1>9 DEF CaptureSnapshot, VerifySnapshot, WalkAlbum, DetectDuplicates, StopLoop
  <2>3. album[current] = "analyzing"
    BY <1>9 DEF CaptureSnapshot, VerifySnapshot, WalkAlbum, DetectDuplicates, StepInv, Looping
  <2>4. \A a \in Albums : Finished(a)' <=> Finished(a)
    BY <2>2, <2>3 DEF FailAlbum, SetAlbum, Finished
  <2> QED
    BY <1>4, <2>1, <2>4
<1>10. CASE Fingerprint
  <2>1. album[current] = "analyzing"
    BY <1>10 DEF Fingerprint, StepInv, Looping
  <2>2. \A i \in images' : i \in images \/ i.album = current
    BY <1>10 DEF Fingerprint, RowOf
  <2>3. images \subseteq images' /\ UNCHANGED <<candidates, album, current>>
    BY <1>10 DEF Fingerprint
  <2> QED
    BY <1>4, <2>1, <2>2, <2>3 DEF Finished
<1>11. CASE GroupDuplicates
  BY <1>4, <1>11 DEF GroupDuplicates, Finished
<1>12. CASE FinalizeAlbum
  BY <1>1, <1>3, <1>12 DEF FinalizeAlbum
<1>13. CASE \/ Reopen \/ Enumerate \/ LoadRun \/ CloseScan \/ ScanStops \/ StartScan \/ ResumeScan
            \/ CancelScan \/ AbandonRun \/ (\E a \in Albums : EditSource(a)) \/ UNCHANGED vars
  BY <1>1, <1>13 DEF Reopen, Enumerate, LoadRun, CloseScan, ScanStops, StartScan, ResumeScan,
       CancelScan, AbandonRun, EditSource, vars, rows
<1> QED
  BY <1>5, <1>6, <1>7, <1>8, <1>9, <1>10, <1>11, <1>12, <1>13 DEF Next, ScanStep

-----------------------------------------------------------------------------
\* The invariant holds throughout.
THEOREM ScanInvariant == Spec => []ScanInv
<1>1. ScanInv /\ [Next]_vars => ScanInv'
  BY TypeStep, StepStep, RowStep, FileStep, IndexStep, WrittenStep, StateStep, LinkStep
     DEF ScanInv
<1> QED
  BY <1>1, InitScanInv, PTL DEF Spec

\* The types of rows, disk and scan.
THEOREM ScanTypeCorrect == Spec => []ScanTypeOK
BY ScanInvariant, PTL DEF ScanInv

\* Exact duplicates come to one review group, however often the analysis was
\* cancelled, stopped, resumed and retried before.
THEOREM DuplicatesAreLinked == Spec => []ExactDuplicatesLinked
BY ScanInvariant, PTL DEF ScanInv

\* Review and commit get a run only when every album of it is analyzed, and a
\* cancelled run has albums left.
THEOREM RunStateIsTrue == Spec => []RunStateMatchesAlbums
BY ScanInvariant, PTL DEF ScanInv

\* Nothing of an interrupted or failed attempt is left in an analyzed album.
THEOREM NothingIsLeft == Spec => []NoLeftovers
<1>1. ScanInv => NoLeftovers
  <2> SUFFICES ASSUME ScanInv PROVE NoLeftovers
    OBVIOUS
  <2>1. \A i, j \in FinishedRows : i.album = j.album /\ i.file = j.file => i = j
    BY DEF ScanInv, RowInv, FinishedRows
  <2>2. \A a \in Albums : {i.file : i \in RowsOf({a})} = FilesOf(a)
    BY DEF RowsOf, FilesOf
  <2>3. UNION candidates \subseteq IdsOf(images)
    BY DEF ScanInv, RowInv, IdsOf
  <2> QED
    BY <2>1, <2>2, <2>3 DEF ScanInv, FileInv, NoLeftovers
<1> QED
  BY <1>1, ScanInvariant, PTL

\* A checkpoint is final.
THEOREM CheckpointsStay == Spec => CheckpointsKept
<1>1. ASSUME ScanInv, [Next]_vars, NEW a \in Albums, Finished(a)
      PROVE  Finished(a)' /\ RowsOf({a})' = RowsOf({a})
  <2> USE DEF ScanInv, ScanTypeOK, Finished, RowsOf
  <2>1. CASE UNCHANGED <<album, images>>
    BY <1>1, <2>1
  <2>2. ASSUME NEW A, ResetAlbums(A), \A b \in A : ~Finished(b)
        PROVE  Finished(a)' /\ RowsOf({a})' = RowsOf({a})
    BY <1>1, <2>2 DEF ResetAlbums
  <2>3. CASE ClearStale
    BY <2>2, <2>3 DEF ClearStale
  <2>4. ASSUME NEW b \in Albums, RetryAlbum(b) PROVE Finished(a)' /\ RowsOf({a})' = RowsOf({a})
    BY <2>2, <2>4 DEF RetryAlbum
  <2>5. CASE InsertAlbums \/ GroupDuplicates
    BY <1>1, <2>5 DEF InsertAlbums, GroupDuplicates
  <2>6. CASE NextAlbum
    BY <1>1, <2>6 DEF NextAlbum, SetAlbum, StepInv
  <2>7. CASE CaptureSnapshot \/ VerifySnapshot \/ WalkAlbum \/ DetectDuplicates \/ FinalizeAlbum
    <3>1. a # current
      BY <1>1, <2>7 DEF CaptureSnapshot, VerifySnapshot, WalkAlbum, DetectDuplicates, FinalizeAlbum,
           StepInv, Looping
    <3> QED
      BY <1>1, <2>7, <3>1 DEF CaptureSnapshot, VerifySnapshot, WalkAlbum, DetectDuplicates,
           FinalizeAlbum, FailAlbum, StopLoop, SetAlbum
  <2>8. CASE Fingerprint
    <3>1. a # current /\ images \subseteq images' /\ album' = album
      BY <1>1, <2>8 DEF Fingerprint, StepInv, Looping
    <3>2. \A i \in images' : i \in images \/ i.album = current
      BY <2>8 DEF Fingerprint, RowOf
    <3> QED
      BY <1>1, <3>1, <3>2
  <2>9. CASE \/ Reopen \/ Enumerate \/ LoadRun \/ CloseScan \/ ScanStops \/ StartScan \/ ResumeScan
             \/ CancelScan \/ AbandonRun \/ (\E b \in Albums : EditSource(b)) \/ UNCHANGED vars
    BY <2>1, <2>9 DEF Reopen, Enumerate, LoadRun, CloseScan, ScanStops, StartScan, ResumeScan,
         CancelScan, AbandonRun, EditSource, vars, rows
  <2> QED
    BY <1>1, <2>3, <2>4, <2>5, <2>6, <2>7, <2>8, <2>9 DEF Next, ScanStep
<1>2. ScanInv /\ [Next]_vars =>
          [\A a \in Albums : Finished(a) => Finished(a)' /\ RowsOf({a})' = RowsOf({a})]_vars
  BY <1>1
<1> QED
  BY <1>2, ScanInvariant, PTL DEF Spec, CheckpointsKept
===============================================================================
