----------------------------- MODULE MCNetwork -----------------------------
EXTENDS Network
=============================================================================
