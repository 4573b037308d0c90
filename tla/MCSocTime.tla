----------------------------- MODULE MCSocTime -----------------------------
(* Instances of SocTime for TLC. *)
EXTENDS SocTime

\* PCM with output disabled and enabled.
MCPcmPeriods == [b \in BOOLEAN |-> IF b THEN 3 ELSE 4]
=============================================================================
