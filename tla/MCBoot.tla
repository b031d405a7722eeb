------------------------------ MODULE MCBoot ------------------------------
(* Two callers on one domain: the workflows on a run with a debug profile, *)
(* and target.boot alone on a plain one.                                   *)
EXTENDS Workflow

CONSTANTS c1, c2, r1, r2

SharedCalls == {<<c1, "test", r1>>, <<c1, "debug", r1>>, <<c2, "boot", r2>>}

=============================================================================
