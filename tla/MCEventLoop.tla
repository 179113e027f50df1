---------------------------- MODULE MCEventLoop ----------------------------
(* The event loop with two foreign threads, for TLC. *)
EXTENDS EventLoop, TLC
=============================================================================
