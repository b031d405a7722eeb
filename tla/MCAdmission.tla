---------------------------- MODULE MCAdmission ----------------------------
(* Small instances of Admission for TLC. *)
EXTENDS Admission, TLC

\* Handles are told apart only by their identity.
HandleSymmetry == Permutations(Handles)

=============================================================================
