--------------------------- MODULE MCProxySockets ---------------------------
(* Instances of ProxySockets for TLC. *)
EXTENDS ProxySockets

\* -1 waits for ever, 2 is more than MaxTimeout.
MCTimeouts == {-1, 0, 2}
=============================================================================
