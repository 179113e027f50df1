------------------------- MODULE MCEventLoopThread -------------------------
(* An event-loop thread, its owner and one more user, for TLC. *)
EXTENDS EventLoopThread, TLC
=============================================================================
