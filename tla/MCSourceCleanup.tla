--------------------------- MODULE MCSourceCleanup ---------------------------
(* SourceCleanup on an album of a few images. *)
EXTENDS SourceCleanup, TLC

\* Images are interchangeable: no action or property tells them apart.
ImageSymmetry == Permutations(Images)
=============================================================================
