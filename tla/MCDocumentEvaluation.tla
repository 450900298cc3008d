------------------------ MODULE MCDocumentEvaluation ------------------------
(* Two fields: enough for a rule that requires one and not the other, and   *)
(* for a reading that loses one of them.  Nothing tells the fields apart.   *)
EXTENDS DocumentEvaluation, TLC

CONSTANTS f1, f2

const_Fields == {f1, f2}
Symmetry == Permutations(const_Fields)
==============================================================================
