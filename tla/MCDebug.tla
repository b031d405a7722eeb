------------------------------- MODULE MCDebug -------------------------------
(* Small instances of DebugSession.                                         *)
EXTENDS DebugSession

CONSTANTS
    b1,       \* a breakpoint location
    a1        \* .text addresses

=============================================================================
