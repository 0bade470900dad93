----------------------------- MODULE PlanReview -----------------------------
(***************************************************************************)
(* From duplicate candidates to a committed plan (review_service.rs): while *)
(* albums are still being analyzed the candidates found so far are joined   *)
(* to groups, a person decides group by group, a draft plan is generated,   *)
(* edited and frozen, and commit takes up the frozen plan the person saw.   *)
(* Every action but the scan's last two is one transaction under the lock   *)
(* of the run row (lock_import_run_for_plan_access).                        *)
(*                                                                         *)
(* Images are their UUIDs, ordered as numbers.  Of several plans of a run   *)
(* only the newest is kept: older ones are invalidated and never read.      *)
(***************************************************************************)
EXTENDS Naturals, FiniteSets

CONSTANTS
    Images,      \* import_images of the run
    Unreadable,  \* those without fingerprints
    Library,     \* library images that candidates point at
    Albums,
    AlbumOf,     \* the album of each image
    Candidates,  \* duplicate_candidates: [from, to, auto, same], where auto is
                 \* the decision auto_duplicate and same is blake3_equal
    NoPlan,
    MaxEdits     \* edits of one draft

Ends(c) == {c.from, c.to}

ASSUME ReviewAssumption ==
    /\ Images \subseteq Nat /\ Library \subseteq Nat /\ Images \cap Library = {}
    /\ IsFiniteSet(Images \cup Library)
    /\ Unreadable \subseteq Images /\ Albums # {}
    /\ AlbumOf \in [Images -> Albums]
    /\ Candidates \subseteq [from : Images \ Unreadable, to : (Images \ Unreadable) \cup Library,
                             auto : BOOLEAN, same : BOOLEAN]
    /\ \A I \in SUBSET Images, m \in {"copy", "move"} : [images |-> I, mode |-> m] # NoPlan
    /\ MaxEdits \in Nat

VARIABLES
    run,      \* import_runs.state
    scan,     \* where the scan is: albums, group, progress, write, idle or over
    verdict,  \* the state it is about to write
    done,     \* albums in analyzed or review_required
    groups,   \* review_groups: members, requires_manual_review, resolved
    action,   \* final_action of each image's group member row
    by,       \* its decision_source
    plan,     \* state, images and mode of the newest import_plans row
    edits,    \* how often the plan was edited since it was generated
    shown,    \* what the commit page last showed (and the hash of it)
    captured, \* what commit took up
    late      \* was a group decided after the last album, before the scan's end?

reviewing == <<groups, action, by>>
planning  == <<plan, edits>>
scanning  == <<scan, verdict, done>>
vars == <<run, scanning, reviewing, planning, shown, captured, late>>

RunStates == {"analyzing", "cancelled", "failed", "review_required", "ready_to_commit",
              "committing", "abandoned"}
Contents  == [images : SUBSET Images, mode : {"copy", "move"}]

PlanTypeOK ==
    /\ run \in RunStates
    /\ scan \in {"albums", "group", "progress", "write", "idle", "over"}
    /\ verdict \in {"review_required", "ready_to_commit"}
    /\ done \subseteq Albums
    /\ groups \subseteq [members : SUBSET (Images \cup Library), manual : BOOLEAN,
                         resolved : BOOLEAN]
    /\ action \in [Images -> {"keep", "exclude"}]
    /\ by \in [Images -> {"automatic", "user"}]
    /\ plan \in [state : {"none", "draft", "frozen", "invalidated"},
                 images : SUBSET Images, mode : {"copy", "move"}]
    /\ edits \in 0..MaxEdits /\ late \in BOOLEAN
    /\ shown \in Contents \cup {NoPlan} /\ captured \in Contents \cup {NoPlan}

Init ==
    /\ run = "analyzing" /\ scan = "albums" /\ verdict = "review_required" /\ done = {}
    /\ groups = {} /\ action = [i \in Images |-> "keep"] /\ by = [i \in Images |-> "automatic"]
    /\ plan = [state |-> "none", images |-> {}, mode |-> "copy"] /\ edits = 0
    /\ shown = NoPlan /\ captured = NoPlan /\ late = FALSE

Frozen == plan.state = "frozen"
Content == [images |-> plan.images, mode |-> plan.mode]

-----------------------------------------------------------------------------
(***************************************************************************)
(* Groups: the connected components of the candidates in E.                *)
(***************************************************************************)

\* Candidates whose images are all in finished albums.
Visible(D) == {c \in Candidates : \A i \in Ends(c) \cap Images : AlbumOf[i] \in D}

Points(E) == UNION {Ends(c) : c \in E}

\* No candidate in E leads out of S.
Closed(E, S) == \A c \in E : Ends(c) \cap S # {} => Ends(c) \subseteq S

\* The connected components: the least sets that no candidate leaves.
GroupsOf(E) ==
    {G \in SUBSET Points(E) :
        /\ G # {} /\ Closed(E, G)
        /\ \A S \in SUBSET G : S # {} /\ Closed(E, S) => S = G}
AllGroups == GroupsOf(Candidates)

NeedsManual(E, G) == \E c \in E : c.from \in G /\ ~c.auto

\* select_representative: a library image first, one that is byte-identical to
\* another before one that is not, the lowest UUID last.
Representative(E, G) ==
    LET kind == IF G \cap Library = {} THEN G ELSE G \cap Library
        same == {x \in kind : \E c \in E : c.same /\ x \in Ends(c)}
        pool == IF same = {} THEN kind ELSE same
    IN  CHOOSE x \in pool : \A y \in pool : x <= y

InitiallyKept(E, G, x) ==
    \/ x \in Library \/ NeedsManual(E, G)
    \/ G \cap Library = {} /\ x = Representative(E, G)

\* Mutant of StillResolved: a group that grew counts as the one it was.
StillResolved_Overlap(G) == \E g \in groups : g.members \subseteq G /\ g.manual /\ g.resolved

\* A group with the members of an old one keeps its state; a new one is pending.
StillResolved(G) == \E g \in groups : g.members = G /\ g.manual /\ g.resolved

\* Mutant of Decided: groups are built from the initial actions.
Decided_Forgotten(i) == FALSE

\* A person's decision on an image survives a change of its group.
Decided(i) == by[i] = "user"

\* What group G keeps of image i before anything is saved, whether that is
\* nothing at all, and the image that is saved then.
FirstAction(E, i, G) ==
    IF Decided(i) THEN action[i] ELSE IF InitiallyKept(E, G, i) THEN "keep" ELSE "exclude"
NothingKept(E, G) == G \cap Library = {} /\ \A i \in G : FirstAction(E, i, G) = "exclude"
Saved(E, i, G) == NothingKept(E, G) /\ i = Representative(E, G)

\* The group of image i, and whether it has one.
GroupOf(E, i) == CHOOSE G \in GroupsOf(E) : i \in G
Grouped(E, i) == i \in Points(E)

\* materialize_review_groups, from the candidates in E.
Rebuild(E) ==
    /\ groups' = {[members |-> G, manual |-> NeedsManual(E, G),
                   resolved |-> ~NeedsManual(E, G) \/ StillResolved(G)] : G \in GroupsOf(E)}
    /\ action' = [i \in Images |->
           IF ~Grouped(E, i) \/ Saved(E, i, GroupOf(E, i)) THEN "keep"
           ELSE FirstAction(E, i, GroupOf(E, i))]
    /\ by' = [i \in Images |->
           IF Grouped(E, i) /\ Decided(i) /\ ~Saved(E, i, GroupOf(E, i)) THEN "user" ELSE "automatic"]

\* A frozen plan keeps the groups it was made from.
Materialize == IF Frozen THEN UNCHANGED reviewing ELSE Rebuild(Visible(done))

Pending == {g \in groups : g.manual /\ ~g.resolved}
Excluded == {i \in Images : action[i] = "exclude"}

-----------------------------------------------------------------------------
(***************************************************************************)
(* The scan, as far as the review sees it.                                 *)
(***************************************************************************)

FinalizeAlbum(a) ==
    /\ scan = "albums" /\ a \notin done
    /\ done' = done \cup {a}
    /\ scan' = IF done' = Albums THEN "group" ELSE "albums"
    /\ UNCHANGED <<run, verdict, reviewing, planning, shown, captured, late>>

\* A cancel, or albums that fail, while albums are left to analyze.
ScanStops ==
    /\ scan = "albums" /\ done # Albums
    /\ run' \in {"cancelled", "failed"} /\ scan' = "idle"
    /\ UNCHANGED <<verdict, done, reviewing, planning, shown, captured, late>>

ResumeScan ==
    /\ scan = "idle" /\ run \in {"cancelled", "failed"}
    /\ run' = "analyzing" /\ scan' = "albums"
    /\ UNCHANGED <<verdict, done, reviewing, planning, shown, captured, late>>

GroupAtEnd ==
    /\ scan = "group"
    /\ Materialize /\ scan' = "progress"
    /\ UNCHANGED <<run, verdict, done, planning, shown, captured, late>>

\* The scan reads the progress, and writes what follows from it in a statement
\* of its own, whatever has become of the run.
ReadProgress ==
    /\ scan = "progress"
    /\ verdict' = IF Pending = {} THEN "ready_to_commit" ELSE "review_required"
    /\ scan' = "write"
    /\ UNCHANGED <<run, done, reviewing, planning, shown, captured, late>>

WriteState ==
    /\ scan = "write"
    /\ run' = verdict /\ scan' = "over"
    /\ UNCHANGED <<verdict, done, reviewing, planning, shown, captured, late>>

-----------------------------------------------------------------------------
(***************************************************************************)
(* The review page.                                                        *)
(***************************************************************************)

\* get_review_groups brings the groups up to date while the run is analyzing, and
\* when there are candidates and no group.
OpenReview ==
    /\ run = "analyzing" \/ (groups = {} /\ Visible(done) # {})
    /\ Materialize
    /\ UNCHANGED <<run, scanning, planning, shown, captured, late>>

\* The last group of a finished analysis is decided.
ReadyNow(g) == Pending \subseteq {g} /\ done = Albums

\* submit_review_group_decision on g: the images in K are kept.
Submit(g, K) ==
    /\ g.manual /\ ~Frozen /\ captured = NoPlan
    /\ K # {} \/ g.members \cap Library # {}
    /\ groups' = (groups \ {g}) \cup {[g EXCEPT !.resolved = TRUE]}
    /\ action' = [i \in Images |-> IF i \notin g.members THEN action[i]
                                   ELSE IF i \in K THEN "keep" ELSE "exclude"]
    /\ by' = [i \in Images |-> IF i \in g.members THEN "user" ELSE by[i]]
    /\ plan' = IF plan.state = "draft" THEN [plan EXCEPT !.state = "invalidated"] ELSE plan
    /\ run' = IF ReadyNow(g) THEN "ready_to_commit" ELSE run
    /\ late' = (late \/ (done = Albums /\ scan # "over"))
    /\ UNCHANGED <<scanning, edits, shown, captured>>

-----------------------------------------------------------------------------
(***************************************************************************)
(* The plan page and the commit page.                                      *)
(***************************************************************************)

\* require_freezable_import_run
Freezable == run \in {"review_required", "ready_to_commit"} /\ done = Albums

\* The image rows a plan may name.
Eligible == Images \ Unreadable

\* build_import_plan_from_group_actions, and what populate_import_plan finds of it.
Drafted == Eligible \ Excluded
NewDraft(I) == [state |-> "draft", images |-> I, mode |-> "copy"]

Generate ==
    /\ plan.state \in {"none", "invalidated"} /\ Freezable
    /\ Candidates # {} => groups # {}
    /\ Pending = {}
    /\ \A g \in groups : g.members \cap (Library \cup (Images \ Excluded)) # {}
    /\ plan' = NewDraft(Drafted)
    /\ edits' = 0
    /\ UNCHANGED <<run, scanning, reviewing, shown, captured, late>>

\* ensure_plan_mutation_allowed
Editable ==
    /\ plan.state = "draft" /\ run \in {"review_required", "ready_to_commit"}
    /\ captured = NoPlan /\ edits < MaxEdits

\* set_plan_album_included: all of an album goes in or none of it does.
SetAlbumIncluded(a) ==
    LET I == {i \in Images : AlbumOf[i] = a} IN
    \/ I \subseteq Eligible /\ plan' = [plan EXCEPT !.images = @ \cup I]
    \/ plan' = [plan EXCEPT !.images = @ \ I]

\* set_plan_image_included
SetImageIncluded(i) ==
    \/ i \in Eligible /\ plan' = [plan EXCEPT !.images = @ \cup {i}]
    \/ plan' = [plan EXCEPT !.images = @ \ {i}]

\* set_plan_source_file_mode
SetMode(m) == plan' = [plan EXCEPT !.mode = m]

EditPlan ==
    /\ Editable
    /\ \/ \E a \in Albums : SetAlbumIncluded(a)
       \/ \E i \in Images : SetImageIncluded(i)
       \/ \E m \in {"copy", "move"} : SetMode(m)
    /\ edits' = edits + 1
    /\ UNCHANGED <<run, scanning, reviewing, shown, captured, late>>

Freeze ==
    /\ plan.state = "draft" /\ Freezable /\ plan.images # {}
    /\ plan' = [plan EXCEPT !.state = "frozen"]
    /\ run' = "ready_to_commit"
    /\ UNCHANGED <<scanning, reviewing, edits, shown, captured, late>>

\* get_frozen_plan_summary
ShowPlan ==
    /\ Frozen
    /\ shown' = Content
    /\ UNCHANGED <<run, scanning, reviewing, planning, captured, late>>

\* Mutant of Abandon: the run gets the state of its plan.
Abandon_PlanState ==
    /\ run \in {"ready_to_commit", "cancelled"} /\ captured = NoPlan
    /\ plan.state \in {"draft", "frozen"}
    /\ plan' = [plan EXCEPT !.state = "invalidated"]
    /\ run' = plan'.state
    /\ UNCHANGED <<scanning, reviewing, edits, shown, captured, late>>

\* abandon_frozen_import_workflow
Abandon ==
    /\ run \in {"ready_to_commit", "cancelled"} /\ captured = NoPlan
    /\ plan.state \in {"draft", "frozen"}
    /\ plan' = [plan EXCEPT !.state = "invalidated"]
    /\ run' = "abandoned"
    /\ UNCHANGED <<scanning, reviewing, edits, shown, captured, late>>

\* Mutant of Capture: the expected hash is not compared.
Capture_AnyHash ==
    /\ captured = NoPlan /\ shown # NoPlan
    /\ run \in {"ready_to_commit", "cancelled", "committing", "failed"}
    /\ Frozen
    /\ captured' = Content /\ run' = "committing"
    /\ UNCHANGED <<scanning, reviewing, planning, shown, late>>

\* Commit's plan capture, with the hash of the plan the page showed.
Capture ==
    /\ captured = NoPlan /\ shown # NoPlan
    /\ run \in {"ready_to_commit", "cancelled", "committing", "failed"}
    /\ Frozen /\ shown = Content
    /\ captured' = Content /\ run' = "committing"
    /\ UNCHANGED <<scanning, reviewing, planning, shown, late>>

Next ==
    \/ \E a \in Albums : FinalizeAlbum(a)
    \/ ScanStops \/ ResumeScan \/ GroupAtEnd \/ ReadProgress \/ WriteState
    \/ OpenReview
    \/ \E g \in groups : \E K \in SUBSET (g.members \cap Images) : Submit(g, K)
    \/ Generate \/ EditPlan \/ Freeze \/ ShowPlan \/ Abandon \/ Capture

Spec == Init /\ [][Next]_vars

-----------------------------------------------------------------------------
(***************************************************************************)
(* Properties.                                                             *)
(***************************************************************************)

\* Every group of the whole run exists, and each manual one was decided by a
\* person, image by image, in the extent it has.
Reviewed ==
    /\ done = Albums
    /\ {g.members : g \in groups} = AllGroups
    /\ \A g \in groups : g.manual => g.resolved /\ \A i \in g.members \cap Images : by[i] = "user"

\* A run gets ready only when all its groups are reviewed, although review goes
\* on while albums are analyzed; a draft nobody edited has what the review kept;
\* and a frozen plan belongs to a run that commit and abandon take.  Excepted are
\* decisions that fall between the last album and the scan's last write.
RunAgreesWithReview ==
    late \/ /\ run = "ready_to_commit" => Reviewed
            /\ plan.state = "draft" /\ edits = 0 =>
                   Reviewed /\ plan.images = Drafted
            /\ Frozen /\ captured = NoPlan => run = "ready_to_commit"

\* A person's decision is changed by a person only, for a whole group, and no draft
\* survives the change: groups that are built again as albums come in keep it.
UserDecisionsKept ==
    [][\A i \in Images : by[i] = "user" =>
           /\ by'[i] = "user"
           /\ action'[i] # action[i] =>
                  /\ plan'.state # "draft"
                  /\ \E g \in groups : i \in g.members /\ \A j \in g.members \cap Images : by'[j] = "user"]_vars

\* Commit takes up what the page showed; and of a plan nobody edited by hand, one
\* image at least of every group of duplicates is in the library afterwards.
CommitsWhatWasReviewed ==
    captured # NoPlan =>
        /\ captured = shown
        /\ edits > 0 \/ late \/ \A G \in AllGroups : G \cap (Library \cup captured.images) # {}

\* What abandon_frozen_import_workflow says (review_service.rs:1113): the run
\* becomes abandoned and can no longer resume.
AbandonedStays == [][run = "abandoned" => run' = "abandoned"]_vars

-----------------------------------------------------------------------------
(***************************************************************************)
(* The inductive invariant.                                                *)
(***************************************************************************)

\* The scan knows which albums are done.
ScanInv ==
    /\ scan \in {"albums", "idle"} => done # Albums
    /\ scan \in {"group", "progress", "write", "over"} => done = Albums

\* Every group there is lies within a group of the candidates of today.
GroupsInv == \A g \in groups : \E H \in GroupsOf(Visible(done)) : g.members \subseteq H

\* An image a person decided on is in a group that has an image of the library,
\* or one a person keeps.
Anchored(i) ==
    \E H \in GroupsOf(Visible(done)) :
        /\ i \in H
        /\ \/ H \cap Library # {}
           \/ \E j \in H \cap Images : by[j] = "user" /\ action[j] = "keep"
DecisionInv == \A i \in Images : by[i] = "user" => Anchored(i)

\* A resolved manual group was decided by a person throughout.
UserInv ==
    \A g \in groups : g.manual /\ g.resolved => \A i \in g.members \cap Images : by[i] = "user"

\* What commit took up is still the plan, and still what the page showed.
CaptureInv == captured # NoPlan => Frozen /\ captured = Content /\ shown = Content

\* All groups of the run are there.
Complete ==
    /\ {g.members : g \in groups} = AllGroups
    /\ \A g \in groups : g.manual = NeedsManual(Candidates, g.members)

\* The plan leaves an image of every group to the library.
Covers == \A G \in AllGroups : G \cap (Library \cup plan.images) # {}

\* Where the scan, the run and the plan are, unless a decision fell in between.
Agrees ==
    /\ scan # "over" => /\ run \in {"analyzing", "cancelled", "failed"}
                        /\ plan.state = "none" /\ captured = NoPlan
    /\ scan = "over" => run \in {"review_required", "ready_to_commit", "committing", "abandoned"}
    /\ scan \in {"progress", "write", "over"} => Complete
    /\ scan = "write" /\ verdict = "ready_to_commit" => Pending = {}
    /\ run = "ready_to_commit" => Pending = {}
    /\ plan.state = "draft" => Pending = {}
    /\ plan.state = "draft" /\ edits = 0 => plan.images = Drafted
    /\ Frozen /\ captured = NoPlan => run = "ready_to_commit"
    /\ plan.state \in {"draft", "frozen"} /\ edits = 0 => Covers
ReviewInv == late \/ Agrees

PlanInv ==
    /\ PlanTypeOK /\ ScanInv /\ GroupsInv /\ DecisionInv /\ UserInv /\ CaptureInv /\ ReviewInv
=============================================================================
