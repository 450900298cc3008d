--------------------------- MODULE MCBatchUpload ---------------------------
(***************************************************************************)
(* Instances of BatchUpload for TLC.                                       *)
(***************************************************************************)
EXTENDS BatchUpload, TLC

CONSTANTS f1, f2, f3

Symmetry == Permutations(Files)
============================================================================
