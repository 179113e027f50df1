------------------------------ MODULE MCNQueen ------------------------------
(* Two servers and a few boards, for TLC. *)
EXTENDS NQueen

CONSTANTS p1, p2

\* One queen, which is one request, and two; an even board, with a server of
\* two cores; the first odd board that has solutions, with a queen in the middle
\* column in some and not in others.
Boards ==
  {[nQueen |-> n, cores |-> p1 :> 1 @@ p2 :> IF n = 4 THEN 2 ELSE 1] :
     n \in {1, 2, 4, 5}}
=============================================================================
