---------------------------- MODULE MCWriteQuota ----------------------------
(***************************************************************************)
(* Instances of WriteQuota for TLC.                                        *)
(***************************************************************************)
EXTENDS WriteQuota, TLC

CONSTANTS r1, r2, r3, r4

Symmetry == Permutations(Requests \ Free)
=============================================================================
