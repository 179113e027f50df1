---------------------------- MODULE MCKthElement ----------------------------
(* Three servers of two workers, for TLC. *)
EXTENDS KthElement

CONSTANTS p1, p2, p3, w1, w2

\* Two numbers each on p1 and p2, one on p3: a constructor gives what does not
\* divide evenly to the first worker.  x is a number of two servers.
Numbers ==
  {[p \in Peer |-> [w \in Worker |->
      CASE p = p1 /\ w = w1 -> <<x>>
        [] p = p1 /\ w = w2 -> <<4>>
        [] p = p2 /\ w = w1 -> <<3>>
        [] p = p2 /\ w = w2 -> <<1>>
        [] p = p3 /\ w = w1 -> <<x>>
        [] p = p3 /\ w = w2 -> <<>>]] : x \in {0, 4}}

KthArgs == {-1, 9}

Lowest == -10
Highest == 10
=============================================================================
