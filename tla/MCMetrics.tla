------------------------------ MODULE MCMetrics ------------------------------
(***************************************************************************)
(* Instances of Metrics for TLC.                                           *)
(***************************************************************************)
EXTENDS Metrics, TLC

CONSTANTS d1, d2, t1

\* A document of a tenant, and one without.
Mixed == d1 :> t1 @@ d2 :> Unknown
Reclassified == d1 :> 2 @@ d2 :> 1
Redelivered == d1 :> 1 @@ d2 :> 2
Early == d1 :> {1} @@ d2 :> {2}
==============================================================================
