------------------------------ MODULE MCScanRun ------------------------------
(* ScanRun on albums that all hold a copy of the same image. *)
EXTENDS ScanRun, TLC

CONSTANTS a1, a2, a3, f, g, h, d, k

\* The album of a1 has two copies, one of which resembles a library image.
MCKeysOf == [x \in {f, g, h, d} |-> {k}]
TwoDisk   == (a1 :> {f, d}) @@ (a2 :> {g})
ThreeDisk == (a1 :> {d}) @@ (a2 :> {g}) @@ (a3 :> {h})
=============================================================================
