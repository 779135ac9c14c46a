------------------------------ MODULE MCEvents ------------------------------
(* Instances of Events small enough for TLC. *)
EXTENDS Events

CONSTANT w1
=============================================================================
