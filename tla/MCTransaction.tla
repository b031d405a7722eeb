--------------------------- MODULE MCTransaction ---------------------------
(* Instances of Transaction for TLC. *)
EXTENDS Transaction, TLC

\* Sessions are interchangeable when all of them use the same transport.
SessionSymmetry == Permutations(Handles)

=============================================================================
