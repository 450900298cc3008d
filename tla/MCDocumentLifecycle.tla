------------------------ MODULE MCDocumentLifecycle ------------------------
(***************************************************************************)
(* Instances of DocumentLifecycle for TLC: which documents each run has.   *)
(***************************************************************************)
EXTENDS DocumentLifecycle, TLC

CONSTANTS d1, d2, d3, d4, d5, i1, i2, j1, j2, j3

PlainTraits == d1 :> {"image", "batch"}

\* An identity card of an extraction comparison, and a scanned one.
SlowTraits ==
    d1 :> {"identity", "compare", "batch", "slow"}
    @@ d2 :> {"image", "identity", "slow"}

ScanTraits == d1 :> {"image", "identity", "batch"}

\* An upload delivered twice; one with the reaper, a waiting client and DELETE
\* around it; and three that must never reach an extraction engine.
BusyTraits ==
    d1 :> {"image", "identity", "batch", "repeated"}
    @@ d2 :> {"image", "identity", "batch", "slow", "waited"}
    @@ d3 :> {"locked", "batch", "presigned", "repeated"}
    @@ d4 :> {"foreign", "repeated"} @@ d5 :> {"orphan", "repeated"}

RepeatedTraits == d1 :> {"image", "batch", "repeated"}

Symmetry == Permutations({i1, i2})
============================================================================
