-------------------------- MODULE PlanReview_proofs --------------------------
(***************************************************************************)
(* Theorems about PlanReview, for every set of albums, images and          *)
(* candidates: groups only grow together, so that no decision of a person  *)
(* is lost when they are built again, and a run gets ready, and a plan     *)
(* committed, only for what was reviewed.                                  *)
(***************************************************************************)
EXTENDS PlanReview, WellFoundedInduction, TLAPS

-----------------------------------------------------------------------------
(* Groups.                                                                  *)

\* What is common to two closed sets is closed, and so is what one has more.
LEMMA ClosedMeet ==
    ASSUME NEW E, NEW S, NEW T, Closed(E, S), Closed(E, T)
    PROVE  Closed(E, S \cap T) /\ Closed(E, S \ T)
BY DEF Closed

\* Two groups that meet are one.
LEMMA GroupsDisjoint ==
    ASSUME NEW E, NEW G \in GroupsOf(E), NEW H \in GroupsOf(E), NEW x \in G, x \in H
    PROVE  G = H
<1>1. Closed(E, G \cap H)
  BY ClosedMeet DEF GroupsOf
<1>2. G \cap H \in SUBSET G /\ G \cap H \in SUBSET H /\ G \cap H # {}
  OBVIOUS
<1>3. G \cap H = G /\ G \cap H = H
  BY <1>1, <1>2 DEF GroupsOf
<1> QED
  BY <1>3

\* Every image that a candidate mentions is in a group: the least closed set
\* around it.
LEMMA GroupAround ==
    ASSUME NEW E, NEW x \in Points(E)
    PROVE  \E G \in GroupsOf(E) : x \in G
<1> DEFINE G == {y \in Points(E) : \A S \in SUBSET Points(E) : x \in S /\ Closed(E, S) => y \in S}
<1>1. G \in SUBSET Points(E) /\ x \in G
  OBVIOUS
<1>2. Closed(E, G)
  <2> SUFFICES ASSUME NEW c \in E, NEW y \in Ends(c) \cap G, NEW z \in Ends(c)
               PROVE  z \in G
    BY DEF Closed
  <2>1. z \in Points(E)
    BY DEF Points
  <2>2. ASSUME NEW S \in SUBSET Points(E), x \in S, Closed(E, S) PROVE z \in S
    <3>1. y \in S
      BY <2>2
    <3> QED
      BY <2>2, <3>1 DEF Closed
  <2> QED
    BY <2>1, <2>2
<1>3. ASSUME NEW S \in SUBSET G, S # {}, Closed(E, S) PROVE S = G
  <2>1. CASE x \in S
    <3>1. S \in SUBSET Points(E)
      OBVIOUS
    <3>2. \A y \in G : y \in S
      BY <1>3, <2>1, <3>1
    <3> QED
      BY <3>2
  <2>2. CASE x \notin S
    <3>1. G \ S \in SUBSET Points(E) /\ x \in G \ S
      BY <1>1, <2>2
    <3>2. Closed(E, G \ S)
      <4> HIDE DEF G
      <4> QED
        BY <1>2, <1>3, ClosedMeet
    <3>3. \A y \in G : y \in G \ S
      BY <3>1, <3>2
    <3> HIDE DEF G
    <3> QED
      BY <1>3, <3>3
  <2> QED
    BY <2>1, <2>2
<1> HIDE DEF G
<1>4. G \in GroupsOf(E)
  BY <1>1, <1>2, <1>3 DEF GroupsOf
<1> QED
  BY <1>1, <1>4

\* With more candidates, groups only grow together.
LEMMA GroupsGrow ==
    ASSUME NEW D, NEW E, D \subseteq E, NEW G \in GroupsOf(D)
    PROVE  \E H \in GroupsOf(E) : G \subseteq H
<1>1. PICK x \in G : x \in Points(D)
  BY DEF GroupsOf
<1>2. x \in Points(E)
  BY <1>1 DEF Points
<1>3. PICK H \in GroupsOf(E) : x \in H
  BY <1>2, GroupAround
<1>4. Closed(D, H)
  BY DEF GroupsOf, Closed
<1>5. Closed(D, G \cap H)
  BY <1>4, ClosedMeet DEF GroupsOf
<1>6. G \cap H = G
  BY <1>1, <1>3, <1>5 DEF GroupsOf
<1> QED
  BY <1>6

\* A walk along candidates: from x, over the images in s, to y.
Walk(E, s, n, x, y) ==
    /\ s \in [0..n -> Points(E)] /\ s[0] = x /\ s[n] = y
    /\ \A k \in 0..(n - 1) : \E c \in E : s[k] \in Ends(c) /\ s[k + 1] \in Ends(c)

Reached(E, x) == {y \in Points(E) : \E n \in Nat : \E s : Walk(E, s, n, x, y)}

\* A set of numbers has a least one.
LEMMA LeastNumber ==
    ASSUME NEW S \in SUBSET Nat, S # {}
    PROVE  \E m \in S : \A n \in S : m <= n
<1> DEFINE R == {ss \in Nat \X Nat : ss[1] < ss[2]}
<1>1. IsWellFoundedOn(R, Nat)
  BY NatLessThanWellFounded, Zenon DEF OpToRel
<1>2. \A m, n \in Nat : n < m => <<n, m>> \in R
  OBVIOUS
<1>3. \E m \in S : \A n \in S : ~(<<n, m>> \in R)
  <2> HIDE DEF R
  <2> QED
    BY <1>1, WFMin
<1>4. PICK m \in S : \A n \in S : ~(n < m)
  <2> HIDE DEF R
  <2> QED
    BY <1>2, <1>3, Zenon
<1> QED
  BY <1>4

\* No walk leaves a closed set: of the images outside it, one would come first.
LEMMA WalkStays ==
    ASSUME NEW E, NEW S, Closed(E, S), NEW x \in S, NEW n \in Nat, NEW s, NEW y,
           Walk(E, s, n, x, y)
    PROVE  y \in S
<1> DEFINE Out == {k \in 0..n : s[k] \notin S}
<1> SUFFICES ASSUME Out # {} PROVE FALSE
  BY DEF Walk
<1>1. PICK k \in Out : \A j \in Out : k <= j
  <2>1. Out \in SUBSET Nat
    OBVIOUS
  <2> QED
    BY <2>1, LeastNumber
<1>2. k \in 1..n
  BY <1>1 DEF Walk
<1>3. k - 1 \in 0..(n - 1) /\ k - 1 \in 0..n /\ (k - 1) + 1 = k
  BY <1>2
<1>4. s[k - 1] \in S
  BY <1>1, <1>3
<1>5. PICK c \in E : s[k - 1] \in Ends(c) /\ s[k] \in Ends(c)
  BY <1>3 DEF Walk
<1> QED
  BY <1>1, <1>4, <1>5 DEF Closed

\* A walk goes on along any candidate it has come to.
LEMMA WalkOn ==
    ASSUME NEW E, NEW x, NEW y \in Reached(E, x), NEW c \in E, y \in Ends(c), NEW z \in Ends(c)
    PROVE  z \in Reached(E, x)
<1>1. PICK n \in Nat : \E s : Walk(E, s, n, x, y)
  BY DEF Reached
<1>2. PICK s : Walk(E, s, n, x, y)
  BY <1>1
<1>3. z \in Points(E)
  BY DEF Points
<1> DEFINE t == [k \in 0..(n + 1) |-> IF k = n + 1 THEN z ELSE s[k]]
<1>4. s \in [0..n -> Points(E)]
  BY <1>2 DEF Walk
<1>5. t \in [0..(n + 1) -> Points(E)]
  BY <1>3, <1>4
<1>6. \A k \in 0..n : t[k] = s[k]
  OBVIOUS
<1>7. t[n + 1] = z
  OBVIOUS
<1> HIDE DEF t
<1>8. t[0] = x
  BY <1>2, <1>6 DEF Walk
<1>9. ASSUME NEW k \in 0..n PROVE \E d \in E : t[k] \in Ends(d) /\ t[k + 1] \in Ends(d)
  <2>1. CASE k = n
    BY <2>1, <1>2, <1>6, <1>7 DEF Walk
  <2>2. CASE k # n
    <3>1. k \in 0..(n - 1) /\ k + 1 \in 0..n
      BY <2>2
    <3> QED
      BY <3>1, <1>2, <1>6 DEF Walk
  <2> QED
    BY <2>1, <2>2
<1>10. Walk(E, t, n + 1, x, z)
  <2>1. 0..((n + 1) - 1) = 0..n
    OBVIOUS
  <2> QED
    BY <1>5, <1>7, <1>8, <1>9, <2>1 DEF Walk
<1> QED
  BY <1>3, <1>10 DEF Reached

\* Groups are what the code's union of candidates computes: from each of its
\* images a walk reaches the whole group, and nothing else.
THEOREM GroupsAreConnected ==
    ASSUME NEW E, NEW G \in GroupsOf(E), NEW x \in G
    PROVE  G = Reached(E, x)
<1>1. x \in Points(E) /\ Closed(E, G)
  BY DEF GroupsOf
<1>2. Reached(E, x) \subseteq G
  BY <1>1, WalkStays DEF Reached
<1>3. x \in Reached(E, x)
  <2> DEFINE s == [k \in 0..0 |-> x]
  <2>1. Walk(E, s, 0, x, x)
    BY <1>1 DEF Walk
  <2> QED
    BY <1>1, <2>1 DEF Reached
<1>4. Closed(E, Reached(E, x))
  BY WalkOn DEF Closed
<1> QED
  BY <1>2, <1>3, <1>4 DEF GroupsOf

\* Groups are made of readable images and of the library.
LEMMA GroupMembers ==
    ASSUME NEW E, E \subseteq Candidates, NEW G \in GroupsOf(E)
    PROVE  G \subseteq Eligible \cup Library
<1>1. \A c \in E : Ends(c) \subseteq Eligible \cup Library
  BY ReviewAssumption DEF Ends, Eligible
<1> QED
  BY <1>1 DEF GroupsOf, Points

\* More albums show more candidates, all albums all of them.
LEMMA VisibleGrows == ASSUME NEW D, NEW F, D \subseteq F PROVE Visible(D) \subseteq Visible(F)
BY DEF Visible

LEMMA AllVisible == Visible(Albums) = Candidates
BY ReviewAssumption DEF Visible

\* The group of an image is a group it is in.
LEMMA GroupOfIs ==
    ASSUME NEW E, NEW i, NEW H \in GroupsOf(E), i \in H
    PROVE  GroupOf(E, i) = H /\ Grouped(E, i)
<1>1. \A G \in GroupsOf(E) : i \in G => G = H
  BY GroupsDisjoint
<1>2. GroupOf(E, i) = H
  BY <1>1 DEF GroupOf
<1> QED
  BY <1>2 DEF Grouped, GroupsOf

\* What building the groups makes of them.
LEMMA RebuiltGroups ==
    ASSUME NEW E, Rebuild(E)
    PROVE  /\ \A h \in groups' : /\ h.members \in GroupsOf(E)
                                 /\ h.manual <=> NeedsManual(E, h.members)
                                 /\ h.resolved <=> ~NeedsManual(E, h.members) \/ StillResolved(h.members)
           /\ \A G \in GroupsOf(E) : \E h \in groups' : h.members = G
<1> DEFINE new(G) == [members |-> G, manual |-> NeedsManual(E, G),
                      resolved |-> ~NeedsManual(E, G) \/ StillResolved(G)]
<1>1. groups' = {new(G) : G \in GroupsOf(E)}
  BY DEF Rebuild
<1>2. \A G : /\ new(G).members = G
             /\ new(G).manual = NeedsManual(E, G)
             /\ new(G).resolved = (~NeedsManual(E, G) \/ StillResolved(G))
  OBVIOUS
<1> HIDE DEF new
<1>3. \A h \in groups' : \E G \in GroupsOf(E) : h = new(G)
  BY <1>1
<1>4. ASSUME NEW h \in groups'
      PROVE  /\ h.members \in GroupsOf(E)
             /\ h.manual <=> NeedsManual(E, h.members)
             /\ h.resolved <=> ~NeedsManual(E, h.members) \/ StillResolved(h.members)
  <2>1. PICK G \in GroupsOf(E) : h = new(G)
    BY <1>3, <1>4
  <2>2. h.members = G /\ h.manual = NeedsManual(E, G)
        /\ h.resolved = (~NeedsManual(E, G) \/ StillResolved(G))
    BY <1>2, <2>1
  <2> QED
    BY <2>2
<1>5. \A G \in GroupsOf(E) : \E h \in groups' : h.members = G
  BY <1>1, <1>2
<1> QED
  BY <1>4, <1>5

\* What a decision on group g makes of the groups.
LEMMA SubmittedGroups ==
    ASSUME PlanTypeOK, NEW g \in groups, NEW K \in SUBSET (g.members \cap Images), Submit(g, K)
    PROVE  /\ \A h \in groups' : \/ h \in groups /\ h # g
                                 \/ h.members = g.members /\ h.manual = g.manual /\ h.resolved
           /\ \A f \in groups : \E h \in groups' : h.members = f.members
<1> DEFINE d == [g EXCEPT !.resolved = TRUE]
<1>1. g \in [members : SUBSET (Images \cup Library), manual : BOOLEAN, resolved : BOOLEAN]
  BY DEF PlanTypeOK
<1>2. d.members = g.members /\ d.manual = g.manual /\ d.resolved
  BY <1>1
<1>3. groups' = (groups \ {g}) \cup {d}
  BY DEF Submit
<1> HIDE DEF d
<1> QED
  BY <1>2, <1>3

\* Building the groups again takes no decision away.
LEMMA RebuildKeeps ==
    ASSUME PlanInv, Rebuild(Visible(done)), NEW i \in Images, by[i] = "user"
    PROVE  by'[i] = "user" /\ action'[i] = action[i]
<1> DEFINE E == Visible(done)
<1>1. PICK H \in GroupsOf(E) :
          /\ i \in H
          /\ H \cap Library # {} \/ \E j \in H \cap Images : by[j] = "user" /\ action[j] = "keep"
  BY DEF PlanInv, DecisionInv, Anchored
<1>2. GroupOf(E, i) = H /\ Grouped(E, i)
  BY <1>1, GroupOfIs
<1>3. ~NothingKept(E, H)
  BY <1>1 DEF NothingKept, FirstAction, Decided
<1>4. ~Saved(E, i, GroupOf(E, i))
  BY <1>2, <1>3 DEF Saved
<1> HIDE DEF E
<1>5. Rebuild(E)
  BY DEF E
<1> QED
  BY <1>2, <1>4, <1>5 DEF Rebuild, Decided, FirstAction

-----------------------------------------------------------------------------
(* Initially and step by step.                                              *)

LEMMA InitPlanInv == Init => PlanInv
<1> SUFFICES ASSUME Init PROVE PlanInv
  OBVIOUS
<1> USE ReviewAssumption DEF Init
<1>1. PlanTypeOK
  <2>1. edits \in 0..MaxEdits
    OBVIOUS
  <2> QED
    BY <2>1 DEF PlanTypeOK, RunStates
<1> QED
  BY <1>1 DEF PlanInv, ScanInv, GroupsInv, DecisionInv, UserInv, CaptureInv, ReviewInv, Agrees,
       Frozen, Pending

\* Groups that are built again have the types of groups.
LEMMA RebuildTypes ==
    ASSUME PlanTypeOK, Rebuild(Visible(done))
    PROVE  /\ groups' \subseteq [members : SUBSET (Images \cup Library), manual : BOOLEAN,
                                 resolved : BOOLEAN]
           /\ action' \in [Images -> {"keep", "exclude"}]
           /\ by' \in [Images -> {"automatic", "user"}]
<1> DEFINE E == Visible(done)
<1>1. \A G \in GroupsOf(E) : G \subseteq Images \cup Library
  BY GroupMembers DEF Visible, Eligible
<1>2. \A G : NeedsManual(E, G) \in BOOLEAN /\ StillResolved(G) \in BOOLEAN
  BY DEF NeedsManual, StillResolved
<1>3. \A i \in Images : FirstAction(E, i, GroupOf(E, i)) \in {"keep", "exclude"}
  BY DEF FirstAction, PlanTypeOK
<1> HIDE DEF E
<1>4. Rebuild(E)
  BY DEF E
<1>5. groups' \subseteq [members : SUBSET (Images \cup Library), manual : BOOLEAN, resolved : BOOLEAN]
  <2> DEFINE new(G) == [members |-> G, manual |-> NeedsManual(E, G),
                        resolved |-> ~NeedsManual(E, G) \/ StillResolved(G)]
  <2>1. groups' = {new(G) : G \in GroupsOf(E)}
    BY <1>4 DEF Rebuild
  <2>2. ASSUME NEW G \in GroupsOf(E)
        PROVE  new(G) \in [members : SUBSET (Images \cup Library), manual : BOOLEAN, resolved : BOOLEAN]
    BY <1>1, <1>2
  <2> HIDE DEF new
  <2> QED
    BY <2>1, <2>2
<1>6. action' \in [Images -> {"keep", "exclude"}]
  BY <1>3, <1>4 DEF Rebuild
<1>7. by' \in [Images -> {"automatic", "user"}]
  BY <1>4 DEF Rebuild
<1> QED
  BY <1>5, <1>6, <1>7

\* Every step keeps types.
LEMMA TypeStep ==
    ASSUME PlanInv, [Next]_vars
    PROVE  PlanTypeOK'
<1> USE ReviewAssumption DEF PlanInv, PlanTypeOK, RunStates, Contents
<1>1. ASSUME NEW a \in Albums, FinalizeAlbum(a) PROVE PlanTypeOK'
  BY <1>1 DEF FinalizeAlbum, reviewing, planning, scanning
<1>2. CASE ScanStops
  BY <1>2 DEF ScanStops, reviewing, planning, scanning
<1>3. CASE ResumeScan
  BY <1>3 DEF ResumeScan, reviewing, planning, scanning
<1>4. CASE GroupAtEnd
  <2>1. CASE Rebuild(Visible(done))
    BY <1>4, <2>1, RebuildTypes DEF GroupAtEnd, planning, scanning
  <2>2. CASE UNCHANGED reviewing
    BY <1>4, <2>2 DEF GroupAtEnd, reviewing, planning, scanning
  <2> QED
    BY <1>4, <2>1, <2>2 DEF GroupAtEnd, Materialize
<1>5. CASE ReadProgress
  BY <1>5 DEF ReadProgress, reviewing, planning, scanning
<1>6. CASE WriteState
  BY <1>6 DEF WriteState, reviewing, planning, scanning
<1>7. CASE OpenReview
  <2>1. CASE Rebuild(Visible(done))
    BY <1>7, <2>1, RebuildTypes DEF OpenReview, planning, scanning
  <2>2. CASE UNCHANGED reviewing
    BY <1>7, <2>2 DEF OpenReview, reviewing, planning, scanning
  <2> QED
    BY <1>7, <2>1, <2>2 DEF OpenReview, Materialize
<1>8. CASE Generate
  BY <1>8 DEF Generate, NewDraft, Drafted, Freezable, reviewing, planning, scanning, Eligible
<1>9. CASE EditPlan
  <2>1. plan' \in [state : {"none", "draft", "frozen", "invalidated"},
                   images : SUBSET Images, mode : {"copy", "move"}]
    BY <1>9 DEF EditPlan, SetAlbumIncluded, SetImageIncluded, SetMode, Eligible
  <2>2. edits' \in 0..MaxEdits
    BY <1>9 DEF EditPlan, Editable
  <2> QED
    BY <1>9, <2>1, <2>2 DEF EditPlan, reviewing, scanning
<1>10. CASE Freeze
  BY <1>10 DEF Freeze, Freezable, reviewing, planning, scanning
<1>11. CASE ShowPlan
  BY <1>11 DEF ShowPlan, reviewing, planning, scanning, Frozen, Content
<1>12. CASE Abandon
  BY <1>12 DEF Abandon, reviewing, planning, scanning, Frozen
<1>13. CASE Capture
  BY <1>13 DEF Capture, reviewing, planning, scanning, Frozen, Content
<1>14. ASSUME NEW g \in groups, NEW K \in SUBSET (g.members \cap Images), Submit(g, K)
      PROVE  PlanTypeOK'
  <2>1. groups' \subseteq [members : SUBSET (Images \cup Library), manual : BOOLEAN, resolved : BOOLEAN]
    BY <1>14 DEF Submit
  <2>2. action' \in [Images -> {"keep", "exclude"}] /\ by' \in [Images -> {"automatic", "user"}]
    BY <1>14 DEF Submit
  <2>3. plan' \in [state : {"none", "draft", "frozen", "invalidated"},
                   images : SUBSET Images, mode : {"copy", "move"}]
    BY <1>14 DEF Submit
  <2>4. run' \in RunStates /\ late' \in BOOLEAN
    BY <1>14 DEF Submit
  <2> QED
    BY <1>14, <2>1, <2>2, <2>3, <2>4 DEF Submit, scanning
<1>15. CASE UNCHANGED vars
  BY <1>15 DEF vars, reviewing, planning, scanning
<1> QED
  BY <1>1, <1>2, <1>3, <1>4, <1>5, <1>6, <1>7, <1>8, <1>9, <1>10, <1>11, <1>12, <1>13, <1>14, <1>15 DEF Next
\* The scan knows which albums are done.
LEMMA ScanStep ==
    ASSUME PlanInv, [Next]_vars
    PROVE  ScanInv'
<1> USE DEF PlanInv, PlanTypeOK, ScanInv
<1>1. CASE UNCHANGED <<scan, done>>
  BY <1>1
<1>2. ASSUME NEW a \in Albums, FinalizeAlbum(a) PROVE ScanInv'
  BY <1>2 DEF FinalizeAlbum, reviewing, planning, scanning
<1>3. CASE ScanStops
  BY <1>3 DEF ScanStops, reviewing, planning, scanning
<1>4. CASE ResumeScan
  BY <1>4 DEF ResumeScan, reviewing, planning, scanning
<1>5. CASE GroupAtEnd
  BY <1>5 DEF GroupAtEnd, reviewing, planning, scanning
<1>6. CASE ReadProgress
  BY <1>6 DEF ReadProgress, reviewing, planning, scanning
<1>7. CASE WriteState
  BY <1>7 DEF WriteState, reviewing, planning, scanning
<1>8. CASE OpenReview \/ Generate \/ EditPlan \/ Freeze \/ ShowPlan \/ Abandon \/ Capture
           \/ (\E g \in groups : \E K \in SUBSET (g.members \cap Images) : Submit(g, K)) \/
           UNCHANGED vars
  BY <1>8, <1>1 DEF OpenReview, Generate, EditPlan, Freeze, ShowPlan, Abandon, Capture,
       Submit, vars, reviewing, planning, scanning
<1> QED
  BY <1>1, <1>2, <1>3, <1>4, <1>5, <1>6, <1>7, <1>8 DEF Next
\* The groups there are stay within groups of the candidates.
LEMMA GroupsStep ==
    ASSUME PlanInv, [Next]_vars
    PROVE  GroupsInv'
<1> USE DEF PlanInv, GroupsInv
<1>1. CASE UNCHANGED <<groups, done>>
  BY <1>1
<1>2. ASSUME NEW a \in Albums, FinalizeAlbum(a) PROVE GroupsInv'
  <2>1. groups' = groups /\ Visible(done) \subseteq Visible(done')
    BY <1>2, VisibleGrows DEF FinalizeAlbum, reviewing
  <2>2. \A G \in GroupsOf(Visible(done)) : \E H \in GroupsOf(Visible(done')) : G \subseteq H
    BY <2>1, GroupsGrow
  <2> QED
    BY <2>1, <2>2
<1>3. CASE GroupAtEnd
  <2>1. CASE Rebuild(Visible(done))
    <3>1. done' = done
      BY <1>3 DEF GroupAtEnd, scanning
    <3>2. \A h \in groups' : h.members \in GroupsOf(Visible(done))
      BY <2>1 DEF Rebuild
    <3> QED
      BY <3>1, <3>2
  <2>2. CASE UNCHANGED reviewing
    BY <1>3, <2>2, <1>1 DEF GroupAtEnd, reviewing, scanning
  <2> QED
    BY <1>3, <2>1, <2>2 DEF GroupAtEnd, Materialize
<1>4. CASE OpenReview
  <2>1. CASE Rebuild(Visible(done))
    <3>1. done' = done
      BY <1>4 DEF OpenReview, scanning
    <3>2. \A h \in groups' : h.members \in GroupsOf(Visible(done))
      BY <2>1 DEF Rebuild
    <3> QED
      BY <3>1, <3>2
  <2>2. CASE UNCHANGED reviewing
    BY <1>4, <2>2, <1>1 DEF OpenReview, reviewing, scanning
  <2> QED
    BY <1>4, <2>1, <2>2 DEF OpenReview, Materialize
<1>5. ASSUME NEW g \in groups, NEW K \in SUBSET (g.members \cap Images), Submit(g, K)
      PROVE  GroupsInv'
  <2>1. done' = done /\ \A h \in groups' : \E f \in groups : h.members = f.members
    BY <1>5, SubmittedGroups DEF Submit, scanning
  <2> QED
    BY <2>1
<1>6. CASE ScanStops \/ ResumeScan \/ ReadProgress \/ WriteState \/ Generate \/ EditPlan \/
           Freeze \/ ShowPlan \/ Abandon \/ Capture \/ UNCHANGED vars
  BY <1>6, <1>1 DEF ScanStops, ResumeScan, ReadProgress, WriteState, Generate, EditPlan,
       Freeze, ShowPlan, Abandon, Capture, vars, reviewing, planning, scanning
<1> QED
  BY <1>1, <1>2, <1>3, <1>4, <1>5, <1>6 DEF Next
\* Decided images stay anchored.
LEMMA DecisionStep ==
    ASSUME PlanInv, [Next]_vars
    PROVE  DecisionInv'
<1>1. CASE UNCHANGED <<action, by, done>>
  BY <1>1 DEF PlanInv, DecisionInv, Anchored
<1>2. ASSUME NEW a \in Albums, FinalizeAlbum(a) PROVE DecisionInv'
  <2>1. UNCHANGED <<action, by>> /\ Visible(done) \subseteq Visible(done')
    BY <1>2, VisibleGrows DEF FinalizeAlbum, reviewing
  <2>2. \A G \in GroupsOf(Visible(done)) : \E H \in GroupsOf(Visible(done')) : G \subseteq H
    BY <2>1, GroupsGrow
  <2>3. ASSUME NEW i \in Images, by[i] = "user" PROVE Anchored(i)'
    <3>1. PICK G \in GroupsOf(Visible(done)) :
              /\ i \in G
              /\ G \cap Library # {} \/ \E j \in G \cap Images : by[j] = "user" /\ action[j] = "keep"
      BY <2>3 DEF PlanInv, DecisionInv, Anchored
    <3>2. PICK H \in GroupsOf(Visible(done')) : G \subseteq H
      BY <2>2
    <3> QED
      BY <2>1, <3>1, <3>2 DEF Anchored
  <2> QED
    BY <2>1, <2>3 DEF DecisionInv
<1>3. CASE GroupAtEnd
  <2>1. done' = done
    BY <1>3 DEF GroupAtEnd, scanning
  <2>2. CASE Rebuild(Visible(done))
    <3>1. \A i \in Images : by'[i] = "user" => by[i] = "user"
      BY <2>2 DEF Rebuild, Decided
    <3>2. \A i \in Images : by[i] = "user" => by'[i] = "user" /\ action'[i] = action[i]
      BY <2>2, RebuildKeeps
    <3>3. ASSUME NEW i \in Images, by'[i] = "user" PROVE Anchored(i)'
      <4>1. Anchored(i)
        BY <3>1, <3>3 DEF PlanInv, DecisionInv
      <4> QED
        BY <2>1, <3>2, <4>1 DEF Anchored
    <3> QED
      BY <3>3 DEF DecisionInv
  <2>3. CASE UNCHANGED reviewing
    BY <1>1, <2>1, <2>3 DEF reviewing
  <2> QED
    BY <1>3, <2>2, <2>3 DEF GroupAtEnd, Materialize
<1>4. CASE OpenReview
  <2>1. done' = done
    BY <1>4 DEF OpenReview, scanning
  <2>2. CASE Rebuild(Visible(done))
    <3>1. \A i \in Images : by'[i] = "user" => by[i] = "user"
      BY <2>2 DEF Rebuild, Decided
    <3>2. \A i \in Images : by[i] = "user" => by'[i] = "user" /\ action'[i] = action[i]
      BY <2>2, RebuildKeeps
    <3>3. ASSUME NEW i \in Images, by'[i] = "user" PROVE Anchored(i)'
      <4>1. Anchored(i)
        BY <3>1, <3>3 DEF PlanInv, DecisionInv
      <4> QED
        BY <2>1, <3>2, <4>1 DEF Anchored
    <3> QED
      BY <3>3 DEF DecisionInv
  <2>3. CASE UNCHANGED reviewing
    BY <1>1, <2>1, <2>3 DEF reviewing
  <2> QED
    BY <1>4, <2>2, <2>3 DEF OpenReview, Materialize
<1>5. ASSUME NEW g \in groups, NEW K \in SUBSET (g.members \cap Images), Submit(g, K)
      PROVE  DecisionInv'
  <2>1. done' = done
    BY <1>5 DEF Submit, scanning
  <2>2. PICK H \in GroupsOf(Visible(done)) : g.members \subseteq H
    BY DEF PlanInv, GroupsInv
  <2>3. \A i \in Images : /\ i \in g.members => by'[i] = "user"
                          /\ i \in K => action'[i] = "keep"
                          /\ i \notin g.members => by'[i] = by[i] /\ action'[i] = action[i]
    BY <1>5 DEF Submit
  <2>4. H \cap Library # {} \/ \E j \in H \cap Images : by'[j] = "user" /\ action'[j] = "keep"
    BY <1>5, <2>2, <2>3 DEF Submit
  <2>5. \A i \in H \cap Images : Anchored(i)'
    BY <2>1, <2>4 DEF Anchored
  <2>6. ASSUME NEW i \in Images, i \notin H, by'[i] = "user" PROVE Anchored(i)'
    <3>1. by[i] = "user"
      BY <2>2, <2>3, <2>6
    <3>2. PICK G \in GroupsOf(Visible(done)) :
              /\ i \in G
              /\ G \cap Library # {} \/ \E j \in G \cap Images : by[j] = "user" /\ action[j] = "keep"
      BY <3>1 DEF PlanInv, DecisionInv, Anchored
    <3>3. G \cap g.members = {}
      BY <2>2, <2>6, <3>2, GroupsDisjoint
    <3>4. G \cap Library # {} \/ \E j \in G \cap Images : by'[j] = "user" /\ action'[j] = "keep"
      BY <2>3, <3>2, <3>3
    <3> QED
      BY <2>1, <3>2, <3>4 DEF Anchored
  <2> QED
    BY <2>5, <2>6 DEF DecisionInv
<1>6. CASE ScanStops \/ ResumeScan \/ ReadProgress \/ WriteState \/ Generate \/ EditPlan \/
           Freeze \/ ShowPlan \/ Abandon \/ Capture \/ UNCHANGED vars
  BY <1>6, <1>1 DEF ScanStops, ResumeScan, ReadProgress, WriteState, Generate, EditPlan,
       Freeze, ShowPlan, Abandon, Capture, vars, reviewing, planning, scanning
<1> QED
  BY <1>1, <1>2, <1>3, <1>4, <1>5, <1>6 DEF Next
\* Resolved groups stay decided by a person.
LEMMA UserStep ==
    ASSUME PlanInv, [Next]_vars
    PROVE  UserInv'
<1>1. CASE UNCHANGED <<groups, by>>
  BY <1>1 DEF PlanInv, UserInv
<1>2. CASE GroupAtEnd
  <2>1. CASE Rebuild(Visible(done))
    <3>1. ASSUME NEW h \in groups', h.manual, h.resolved, NEW i \in h.members \cap Images
          PROVE  by'[i] = "user"
      <4>1. StillResolved(h.members)
        BY <2>1, <3>1, RebuiltGroups
      <4>2. by[i] = "user"
        BY <3>1, <4>1 DEF StillResolved, PlanInv, UserInv
      <4> QED
        BY <2>1, <3>1, <4>2, RebuildKeeps
    <3> QED
      BY <3>1 DEF UserInv
  <2>2. CASE UNCHANGED reviewing
    BY <2>2, <1>1 DEF reviewing
  <2> QED
    BY <1>2, <2>1, <2>2 DEF GroupAtEnd, Materialize
<1>3. CASE OpenReview
  <2>1. CASE Rebuild(Visible(done))
    <3>1. ASSUME NEW h \in groups', h.manual, h.resolved, NEW i \in h.members \cap Images
          PROVE  by'[i] = "user"
      <4>1. StillResolved(h.members)
        BY <2>1, <3>1, RebuiltGroups
      <4>2. by[i] = "user"
        BY <3>1, <4>1 DEF StillResolved, PlanInv, UserInv
      <4> QED
        BY <2>1, <3>1, <4>2, RebuildKeeps
    <3> QED
      BY <3>1 DEF UserInv
  <2>2. CASE UNCHANGED reviewing
    BY <2>2, <1>1 DEF reviewing
  <2> QED
    BY <1>3, <2>1, <2>2 DEF OpenReview, Materialize
<1>4. ASSUME NEW g \in groups, NEW K \in SUBSET (g.members \cap Images), Submit(g, K)
      PROVE  UserInv'
  <2>1. \A i \in Images : by'[i] = IF i \in g.members THEN "user" ELSE by[i]
    BY <1>4 DEF Submit
  <2>2. \A h \in groups' : h \in groups \/ h.members = g.members
    BY <1>4, SubmittedGroups DEF PlanInv
  <2> QED
    BY <2>1, <2>2 DEF PlanInv, UserInv
<1>5. CASE (\E a \in Albums : FinalizeAlbum(a)) \/ ScanStops \/ ResumeScan \/ ReadProgress
           \/ WriteState \/ Generate \/ EditPlan \/ Freeze \/ ShowPlan \/ Abandon \/
           Capture \/ UNCHANGED vars
  BY <1>5, <1>1 DEF FinalizeAlbum, ScanStops, ResumeScan, ReadProgress, WriteState,
       Generate, EditPlan, Freeze, ShowPlan, Abandon, Capture, vars, reviewing, planning,
       scanning
<1> QED
  BY <1>1, <1>2, <1>3, <1>4, <1>5 DEF Next
\* Commit and page stay with the plan.
LEMMA CaptureStep ==
    ASSUME PlanInv, [Next]_vars
    PROVE  CaptureInv'
<1> USE DEF PlanInv, PlanTypeOK, CaptureInv, Frozen, Content
<1>1. CASE UNCHANGED <<plan, shown, captured>>
  BY <1>1
<1>2. CASE Generate
  BY <1>2 DEF Generate, NewDraft, Drafted, Freezable, reviewing, planning, scanning
<1>3. CASE EditPlan
  BY <1>3 DEF EditPlan, Editable, SetAlbumIncluded, SetImageIncluded, SetMode, reviewing, planning, scanning
<1>4. CASE Freeze
  BY <1>4 DEF Freeze, Freezable, reviewing, planning, scanning
<1>5. CASE ShowPlan
  BY <1>5 DEF ShowPlan, reviewing, planning, scanning
<1>6. CASE Abandon
  BY <1>6 DEF Abandon, reviewing, planning, scanning
<1>7. CASE Capture
  BY <1>7 DEF Capture, reviewing, planning, scanning
<1>8. ASSUME NEW g \in groups, NEW K \in SUBSET (g.members \cap Images), Submit(g, K)
      PROVE  CaptureInv'
  BY <1>8 DEF Submit, reviewing, planning, scanning
<1>9. CASE (\E a \in Albums : FinalizeAlbum(a)) \/ ScanStops \/ ResumeScan \/ GroupAtEnd \/
           ReadProgress \/ WriteState \/ OpenReview \/ UNCHANGED vars
  BY <1>9, <1>1 DEF FinalizeAlbum, ScanStops, ResumeScan, GroupAtEnd, ReadProgress,
       WriteState, OpenReview, vars, reviewing, planning, scanning
<1> QED
  BY <1>1, <1>2, <1>3, <1>4, <1>5, <1>6, <1>7, <1>8, <1>9 DEF Next
\* Building the groups again when all albums are done gives all groups, and one
\* with nothing pending keeps it so.
LEMMA RebuildCompletes ==
    ASSUME PlanInv, Rebuild(Visible(done)), done = Albums
    PROVE  Complete' /\ (Complete /\ Pending = {} => Pending' = {})
<1>1. Rebuild(Candidates)
  BY AllVisible
<1>2. Complete'
  <2>1. \A h \in groups' : h.members \in AllGroups /\ (h.manual <=> NeedsManual(Candidates, h.members))
    BY <1>1, RebuiltGroups DEF AllGroups
  <2>2. \A G \in AllGroups : \E h \in groups' : h.members = G
    BY <1>1, RebuiltGroups DEF AllGroups
  <2>3. \A h \in groups' : h.manual = NeedsManual(Candidates, h.members)
    <3>1. \A h \in groups' : h.manual \in BOOLEAN
      BY RebuildTypes DEF PlanInv
    <3>2. \A G : NeedsManual(Candidates, G) \in BOOLEAN
      BY DEF NeedsManual
    <3> QED
      BY <2>1, <3>1, <3>2
  <2>4. {h.members : h \in groups'} = AllGroups
    BY <2>1, <2>2
  <2> QED
    BY <2>3, <2>4 DEF Complete
<1>3. ASSUME Complete, Pending = {}, NEW h \in groups', h.manual PROVE h.resolved
  <2>1. h.members \in GroupsOf(Candidates) /\ NeedsManual(Candidates, h.members)
    BY <1>1, <1>3, RebuiltGroups
  <2>2. PICK f \in groups : f.members = h.members
    BY <1>3, <2>1 DEF Complete, AllGroups
  <2>3. f.manual /\ f.resolved
    BY <1>3, <2>1, <2>2 DEF Complete, Pending
  <2>4. StillResolved(h.members)
    BY <2>2, <2>3 DEF StillResolved
  <2> QED
    BY <1>1, <2>4, RebuiltGroups
<1> QED
  BY <1>2, <1>3 DEF Pending

\* The run, the plan and the scan agree with the review.
LEMMA ReviewStep ==
    ASSUME PlanInv, [Next]_vars
    PROVE  ReviewInv'
<1> SUFFICES ASSUME ~late' PROVE Agrees'
  BY DEF ReviewInv
<1>0. ~late /\ Agrees
  BY DEF PlanInv, ReviewInv, PlanTypeOK, Next, FinalizeAlbum, ScanStops, ResumeScan, GroupAtEnd,
     ReadProgress, WriteState, OpenReview, Submit, Generate, EditPlan, Freeze, ShowPlan, Abandon,
     Capture, vars
<1>1. ASSUME UNCHANGED groups PROVE (Complete' <=> Complete) /\ Pending' = Pending
  BY <1>1 DEF Complete, Pending
<1>2. ASSUME UNCHANGED action PROVE Drafted' = Drafted
  BY <1>2 DEF Drafted, Excluded
<1>3. ASSUME plan'.images = plan.images PROVE Covers' <=> Covers
  BY <1>3 DEF Covers
<1>4. CASE UNCHANGED <<reviewing, planning>> /\
           ((\E a \in Albums : FinalizeAlbum(a)) \/ ScanStops \/ ResumeScan \/ ReadProgress
            \/ WriteState \/ ShowPlan \/ Capture \/ UNCHANGED vars)
  <2>1. /\ (Complete' <=> Complete) /\ Pending' = Pending /\ Drafted' = Drafted
        /\ Covers' <=> Covers
    BY <1>1, <1>2, <1>3, <1>4 DEF reviewing, planning
  <2> USE <1>0, <1>4, <2>1 DEF Agrees, PlanInv, PlanTypeOK, planning, scanning, Frozen
  <2>2. CASE \E a \in Albums : FinalizeAlbum(a)
    BY <2>2 DEF FinalizeAlbum
  <2>3. CASE ScanStops
    BY <2>3 DEF ScanStops
  <2>4. CASE ResumeScan
    BY <2>4 DEF ResumeScan
  <2>5. CASE ReadProgress
    BY <2>5 DEF ReadProgress
  <2>6. CASE WriteState
    BY <2>6 DEF WriteState
  <2>7. CASE ShowPlan
    BY <2>7 DEF ShowPlan
  <2>8. CASE Capture
    <3>1. Content \in Contents /\ Content # NoPlan
      BY ReviewAssumption DEF Contents, Content
    <3> QED
      BY <2>8, <3>1 DEF Capture
  <2>9. CASE UNCHANGED vars
    BY <2>9 DEF vars
  <2> QED
    BY <2>2, <2>3, <2>4, <2>5, <2>6, <2>7, <2>8, <2>9
<1>5. CASE GroupAtEnd
  <2>1. scan = "group" /\ done = Albums /\ plan.state = "none" /\ run \in {"analyzing", "cancelled", "failed"}
    BY <1>0, <1>5 DEF GroupAtEnd, Agrees, PlanInv, ScanInv
  <2>2. Complete'
    BY <1>5, <2>1, RebuildCompletes DEF GroupAtEnd, Materialize, Frozen
  <2> QED
    BY <1>0, <1>5, <2>1, <2>2 DEF GroupAtEnd, Agrees, planning, Frozen
<1>6. CASE OpenReview
  <2>1. scan # "over"
    <3> SUFFICES ASSUME scan = "over" PROVE FALSE
      OBVIOUS
    <3>1. groups = {} /\ Visible(done) # {} /\ done = Albums /\ Complete
      BY <1>0, <1>6 DEF OpenReview, Agrees, PlanInv, ScanInv
    <3>2. PICK c \in Candidates : TRUE
      BY <3>1 DEF Visible
    <3>3. c.from \in Points(Candidates)
      BY DEF Points, Ends
    <3>4. PICK G \in GroupsOf(Candidates) : c.from \in G
      BY <3>3, GroupAround
    <3> QED
      BY <3>1, <3>4 DEF Complete, AllGroups
  <2>2. plan.state = "none" /\ run \in {"analyzing", "cancelled", "failed"}
    BY <1>0, <2>1 DEF Agrees
  <2>3. Rebuild(Visible(done))
    BY <1>6, <2>2 DEF OpenReview, Materialize, Frozen
  <2>4. scan \in {"progress", "write"} => Complete' /\ (Pending = {} => Pending' = {})
    BY <1>0, <2>3, RebuildCompletes DEF PlanInv, ScanInv, Agrees
  <2> QED
    BY <1>0, <1>6, <2>1, <2>2, <2>4 DEF OpenReview, Agrees, planning, scanning, Frozen
<1>7. CASE Generate
  <2>1. scan = "over" /\ Complete /\ UNCHANGED <<groups, action>>
    BY <1>0, <1>7 DEF Generate, Freezable, Agrees, reviewing
  <2>2. Complete' /\ Pending' = {} /\ Drafted' = Drafted
    BY <1>1, <1>2, <1>7, <2>1 DEF Generate
  <2>3. Covers'
    <3> SUFFICES ASSUME NEW G \in AllGroups PROVE G \cap (Library \cup Drafted) # {}
      BY <1>7 DEF Generate, NewDraft, Covers
    <3>1. PICK x \in G : x \in Library \cup (Images \ Excluded)
      BY <1>7, <2>1 DEF Generate, Complete
    <3>2. x \in Eligible \cup Library
      BY GroupMembers DEF AllGroups
    <3> QED
      BY <3>1, <3>2 DEF Drafted
  <2> QED
    BY <1>0, <1>7, <2>1, <2>2, <2>3 DEF Generate, NewDraft, Agrees, scanning, Frozen, Freezable
<1>8. CASE EditPlan
  <2>1. UNCHANGED <<groups, action>> /\ plan.state = "draft" /\ plan'.state = "draft" /\ edits' # 0
    BY <1>8 DEF EditPlan, Editable, SetAlbumIncluded, SetImageIncluded, SetMode, reviewing, PlanInv,
       PlanTypeOK
  <2>2. (Complete' <=> Complete) /\ Pending' = Pending
    BY <1>1, <2>1
  <2> QED
    BY <1>0, <1>8, <2>1, <2>2 DEF EditPlan, Agrees, scanning, Frozen
<1>9. CASE Freeze
  <2>1. /\ UNCHANGED <<groups, action>>
        /\ plan.state = "draft" /\ plan'.state = "frozen" /\ plan'.images = plan.images
    BY <1>9 DEF Freeze, reviewing, PlanInv, PlanTypeOK
  <2>2. (Complete' <=> Complete) /\ Pending' = Pending /\ (Covers' <=> Covers)
    BY <1>1, <1>3, <2>1
  <2> QED
    BY <1>0, <1>9, <2>1, <2>2 DEF Freeze, Agrees, scanning, Frozen
<1>10. CASE Abandon
  <2>1. UNCHANGED <<groups, action>> /\ plan.state # "none" /\ plan'.state = "invalidated"
    BY <1>10 DEF Abandon, reviewing, PlanInv, PlanTypeOK
  <2>2. (Complete' <=> Complete) /\ Pending' = Pending
    BY <1>1, <2>1
  <2> QED
    BY <1>0, <1>10, <2>1, <2>2 DEF Abandon, Agrees, scanning, Frozen
<1>11. ASSUME NEW g \in groups, NEW K \in SUBSET (g.members \cap Images), Submit(g, K) PROVE Agrees'
  <2>1. /\ done = Albums => scan = "over"
        /\ done # Albums => scan \in {"albums", "idle"}
        /\ scan = "over" => done = Albums
    BY <1>0, <1>11 DEF Submit, PlanInv, PlanTypeOK, ScanInv
  <2>2. plan'.state \in {"none", "invalidated"} /\ (plan.state = "none" => plan' = plan)
    BY <1>11 DEF Submit, Frozen, PlanInv, PlanTypeOK
  <2>3. CASE done # Albums
    BY <1>0, <1>11, <2>1, <2>2, <2>3 DEF Submit, ReadyNow, Agrees, scanning, Frozen
  <2>4. CASE done = Albums
    <3>1. /\ \A h \in groups' : \/ h \in groups /\ h # g
                                \/ h.members = g.members /\ h.manual = g.manual /\ h.resolved
          /\ \A f \in groups : \E h \in groups' : h.members = f.members
      BY <1>11, SubmittedGroups DEF PlanInv
    <3>2. Complete'
      <4>1. Complete
        BY <1>0, <2>1, <2>4 DEF Agrees
      <4>2. {h.members : h \in groups'} = {f.members : f \in groups}
        BY <3>1
      <4>3. \A h \in groups' : h.manual = NeedsManual(Candidates, h.members)
        BY <3>1, <4>1 DEF Complete
      <4> QED
        BY <4>1, <4>2, <4>3 DEF Complete
    <3>3. Pending \subseteq {g} => Pending' = {}
      BY <3>1 DEF Pending
    <3>4. run' = "ready_to_commit" => Pending' = {}
      BY <1>0, <1>11, <2>4, <3>3 DEF Submit, ReadyNow, Agrees
    <3> QED
      BY <1>0, <1>11, <2>1, <2>2, <2>4, <3>2, <3>4 DEF Submit, Agrees, scanning, Frozen
  <2> QED
    BY <2>3, <2>4
<1>12. /\ (\E a \in Albums : FinalizeAlbum(a)) \/ ScanStops \/ ResumeScan \/ ReadProgress
          \/ WriteState \/ ShowPlan \/ Capture \/ UNCHANGED vars
       => UNCHANGED <<reviewing, planning>>
  BY DEF FinalizeAlbum, ScanStops, ResumeScan, ReadProgress, WriteState, ShowPlan, Capture, vars
<1> QED
  BY <1>4, <1>5, <1>6, <1>7, <1>8, <1>9, <1>10, <1>11, <1>12 DEF Next

LEMMA PlanInvStep == PlanInv /\ [Next]_vars => PlanInv'
BY TypeStep, ScanStep, GroupsStep, DecisionStep, UserStep, CaptureStep, ReviewStep DEF PlanInv

-----------------------------------------------------------------------------
(* The theorems.                                                            *)

\* The whole invariant, for every instance.
THEOREM PlanInvariant == Spec => []PlanInv
BY InitPlanInv, PlanInvStep, PTL DEF Spec

\* Runs, groups, decisions and plans have their types (types.rs, schema.sql).
THEOREM PlanTypeCorrect == Spec => []PlanTypeOK
<1>1. PlanInv => PlanTypeOK
  BY DEF PlanInv
<1> QED
  BY <1>1, PlanInvariant, PTL

\* A run gets ready only when all its groups are reviewed, and a frozen plan belongs
\* to a run that commit takes, unless a decision fell between the last album and
\* the end of the scan.
THEOREM ReviewedRunsOnly == Spec => []RunAgreesWithReview
<1>1. ASSUME PlanInv PROVE RunAgreesWithReview
  <2> SUFFICES ASSUME ~late PROVE RunAgreesWithReview
    BY DEF RunAgreesWithReview
  <2>1. Agrees
    BY <1>1 DEF PlanInv, ReviewInv
  <2>2. run = "ready_to_commit" \/ plan.state = "draft" => scan = "over"
    BY <2>1 DEF Agrees
  <2>3. scan = "over" /\ Pending = {} => Reviewed
    <3> SUFFICES ASSUME scan = "over", Pending = {} PROVE Reviewed
      OBVIOUS
    <3>1. done = Albums /\ {g.members : g \in groups} = AllGroups
      BY <1>1, <2>1 DEF Agrees, Complete, PlanInv, ScanInv
    <3>2. \A g \in groups : g.manual => g.resolved
      BY DEF Pending
    <3>3. \A g \in groups : g.manual => \A i \in g.members \cap Images : by[i] = "user"
      BY <1>1, <3>2 DEF PlanInv, UserInv
    <3> QED
      BY <3>1, <3>2, <3>3 DEF Reviewed
  <2> QED
    BY <2>1, <2>2, <2>3 DEF RunAgreesWithReview, Agrees
<1> QED
  BY <1>1, PlanInvariant, PTL

\* Commit takes up what the page showed; of a plan nobody edited it leaves an image
\* of every group of duplicates in the library.
THEOREM CommitIsReviewed == Spec => []CommitsWhatWasReviewed
<1>1. ASSUME PlanInv PROVE CommitsWhatWasReviewed
  <2>1. captured # NoPlan => captured = shown /\ Frozen /\ captured.images = plan.images
    BY <1>1 DEF PlanInv, CaptureInv, Content
  <2>2. ~late => Agrees
    BY <1>1 DEF PlanInv, ReviewInv
  <2>3. edits = 0 \/ edits > 0
    BY <1>1, ReviewAssumption DEF PlanInv, PlanTypeOK
  <2> QED
    BY <2>1, <2>2, <2>3 DEF CommitsWhatWasReviewed, Agrees, Covers, Frozen
<1> QED
  BY <1>1, PlanInvariant, PTL

\* A person's decision is changed by a person only, and no draft survives that.
THEOREM DecisionsAreKept == Spec => UserDecisionsKept
<1> DEFINE Kept == \A i \in Images : by[i] = "user" =>
           /\ by'[i] = "user"
           /\ action'[i] # action[i] =>
                  /\ plan'.state # "draft"
                  /\ \E g \in groups : i \in g.members /\ \A j \in g.members \cap Images : by'[j] = "user"
<1>1. ASSUME PlanInv, [Next]_vars PROVE Kept
  <2>1. CASE UNCHANGED <<action, by>>
    BY <2>1
  <2>2. CASE Rebuild(Visible(done))
    BY <1>1, <2>2, RebuildKeeps
  <2>3. ASSUME NEW g \in groups, NEW K \in SUBSET (g.members \cap Images), Submit(g, K) PROVE Kept
    <3>1. \A i \in Images : /\ by'[i] = IF i \in g.members THEN "user" ELSE by[i]
                            /\ i \notin g.members => action'[i] = action[i]
      BY <2>3 DEF Submit
    <3>2. plan'.state # "draft"
      BY <1>1, <2>3 DEF Submit, PlanInv, PlanTypeOK
    <3> QED
      BY <3>1, <3>2
  <2>4. [Next]_vars => \/ UNCHANGED <<action, by>> \/ Rebuild(Visible(done))
                       \/ \E g \in groups : \E K \in SUBSET (g.members \cap Images) : Submit(g, K)
    BY DEF Next, FinalizeAlbum, ScanStops, ResumeScan, GroupAtEnd, ReadProgress, WriteState,
       OpenReview, Generate, EditPlan, Freeze, ShowPlan, Abandon, Capture, Materialize, reviewing, vars
  <2> HIDE DEF Kept
  <2> QED
    BY <1>1, <2>1, <2>2, <2>3, <2>4
<1>2. PlanInv /\ [Next]_vars => [Kept]_vars
  BY <1>1
<1> QED
  BY <1>2, PlanInvariant, PTL DEF Spec, UserDecisionsKept
=============================================================================
