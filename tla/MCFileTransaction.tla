------------------------- MODULE MCFileTransaction -------------------------
(* FileTransaction on small albums. *)
EXTENDS FileTransactionInv, TLC

\* Images are interchangeable: no action or property tells them apart.
ImageSymmetry == Permutations(Images)
=============================================================================
