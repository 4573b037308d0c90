------------------------------ MODULE MCCards ------------------------------
(* Instance of Cards for TLC. *)
EXTENDS Cards, TLC

CONSTANTS c1, c2, s1, s2

AtMost(n) == {w \in SUBSET Ops : Cardinality(w) <= n}

\* With one card and one session or two any two operations overlap. With a second card and
\* one session, those that move cards into and out of the slots follow each other, except
\* that an insertion overlaps a paste. What goes beyond is cut off.
Moves == {"launch", "insert", "eject", "browse", "file", "paste", "delete"}
Bound ==
    [r \in SUBSET (CardIds \cup SessionIds) |->
        CASE c1 \in r /\ c2 \notin r /\ r \cap SessionIds # {} -> AtMost(2)
          [] c1 \in r /\ c2 \in r /\ Cardinality(r) = 3 ->
               {{o} : o \in Moves} \cup {{"insert", "paste"}}
          [] OTHER -> {}]

Symmetry == Permutations(SessionIds)

=============================================================================
