--------------------------- MODULE MCPostmortem ---------------------------
(***************************************************************************)
(* Two calls at once on the dump of one run.                               *)
(***************************************************************************)
EXTENDS Postmortem, TLC

Symmetry == Permutations(Callers)
=============================================================================
