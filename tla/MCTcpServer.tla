---------------------------- MODULE MCTcpServer ----------------------------
(* A server of several loops and its clients, for TLC. *)
EXTENDS TcpServer, TLC

=============================================================================
