---------------------------- MODULE MCRunSteps ----------------------------
(* Two concurrent calls on the steps of one run.                           *)
EXTENDS RunSteps, TLC

CONSTANTS c1, c2, r1

\* Every step of one run.
OneRun == {r1} \X Ops

\* Calls are interchangeable: nothing names one of them.
CallSymmetry == Permutations(Callers)

=============================================================================
