----------------------------- MODULE MCSshGate -----------------------------
(* Instances of SshGate for TLC. *)
EXTENDS SshGate

CONSTANTS
    h1,        \* one ssh operation
    c1, c2     \* tool calls that drive the stop-capable session

=============================================================================
