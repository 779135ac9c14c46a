--------------------------- MODULE MCAttachClient ---------------------------
(* Instances of AttachClient small enough for TLC. *)
EXTENDS AttachClient
=============================================================================
