---------------------------- MODULE MCThreadPool ----------------------------
(* The thread pool, for TLC. *)
EXTENDS ThreadPool
=============================================================================
