------------------------------ MODULE MCApiKeys ------------------------------
(***************************************************************************)
(* Instances of ApiKeys for TLC.                                           *)
(***************************************************************************)
EXTENDS ApiKeys, TLC

CONSTANTS c1, c2, k1

Symmetry == Permutations(Containers)
=============================================================================
