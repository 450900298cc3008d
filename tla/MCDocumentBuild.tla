--------------------------- MODULE MCDocumentBuild ---------------------------
(* TLC instances of DocumentBuild, and the mutations that its properties catch *)
EXTENDS DocumentBuild, TLC

CONSTANTS a, b, s, t, pdel, ddel

MCCategory == [u \in Uploaders |-> IF u = a THEN "income" ELSE Nobody]
MCSymmetry == Permutations({s, t})
=============================================================================
