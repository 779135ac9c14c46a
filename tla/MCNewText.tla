------------------------------ MODULE MCNewText ------------------------------
(* Instances of NewText small enough for TLC. *)
EXTENDS NewText
=============================================================================
