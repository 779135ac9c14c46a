------------------------------ MODULE MCFanout ------------------------------
(* Instances of Fanout small enough for TLC. *)
EXTENDS Fanout
=============================================================================
