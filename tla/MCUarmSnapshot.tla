--------------------------- MODULE MCUarmSnapshot ---------------------------
(* Instances of UarmSnapshot for TLC. *)
EXTENDS UarmSnapshot
=============================================================================
