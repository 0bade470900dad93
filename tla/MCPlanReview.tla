---------------------------- MODULE MCPlanReview ----------------------------
(* PlanReview on two albums whose duplicates meet. *)
EXTENDS PlanReview, TLC

CONSTANTS a1, a2

\* 1 and 2 of the first album look alike, and 3 of the second looks like 2, so
\* that a group grows, and is in the library as 7; 4 and 5 are the same file; 6
\* cannot be read.
MCAlbumOf == (1 :> a1) @@ (2 :> a1) @@ (3 :> a2) @@ (4 :> a2) @@ (5 :> a2) @@ (6 :> a1)
Edge(x, y, a) == [from |-> x, to |-> y, auto |-> a, same |-> a]
MCCandidates == {Edge(1, 2, FALSE), Edge(3, 2, FALSE), Edge(3, 7, TRUE), Edge(4, 5, TRUE)}
=============================================================================
