---------------------------- MODULE MCSnapshot ----------------------------
EXTENDS Snapshot, TLC

\* Sessions are only compared for equality, and every property treats them alike.
SessionSymmetry == Permutations(Sessions)
=============================================================================
