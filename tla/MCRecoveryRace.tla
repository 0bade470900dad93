--------------------------- MODULE MCRecoveryRace ---------------------------
(* RecoveryRace on small albums. *)
EXTENDS RecoveryRace, TLC

\* Images are interchangeable: no action or property tells them apart.
ImageSymmetry == Permutations(Images)
=============================================================================
