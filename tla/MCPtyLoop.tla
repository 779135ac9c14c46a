----------------------------- MODULE MCPtyLoop -----------------------------
(* Instances of PtyLoop small enough for TLC. *)
EXTENDS PtyLoop

CONSTANTS c1, c2

\* A pasted text: three pieces.
Paste == {[bracketed |-> TRUE, enter |-> FALSE]}
=============================================================================
