---------------------------- MODULE MCTcpClient ----------------------------
(* A client's connectors, retry timer and connection, for TLC. *)
EXTENDS TcpClient, TLC
=============================================================================
