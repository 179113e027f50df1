-------------------------------- MODULE Fleet --------------------------------
(***************************************************************************)
(* A client that works with several servers at once, as KthClient and      *)
(* NQueenClient do (example/kth_element/KthClient.cc,                      *)
(* example/nqueen/NQueenClient.cc): one TcpClient for each server, the set *)
(* connections_ of those that are up, and the rule that ends the program:  *)
(* each connection that closes, or attempt that fails, shuts down another  *)
(* connection, and the last one to go quits the loop.                      *)
(*                                                                         *)
(* What the messages say, and do, is for the module that extends this one. *)
(* A TcpClient is what the module TcpClient shows of it: connect() is in   *)
(* progress when start() returns, it retries until it has connected, and   *)
(* it does not connect again.  A direction of a connection is a queue of   *)
(* messages; what a lost server had not yet delivered may be lost with it. *)
(***************************************************************************)
EXTENDS Naturals, Sequences, SequencesExt, FiniteSets

CONSTANT Peer   \* the servers

ASSUME FleetAssumption == IsFiniteSet(Peer) /\ Peer # {}

VARIABLES
  loop,      \* the client's loop; "again": quit() was called on it twice
  conn,      \* for each server, the TcpClient and its connection
  srv,       \* for each server, its end of the connection
  toClient,  \* what the server sent and the client has not handled
  toServer,  \* what the client sent and the server has not handled
  failed     \* a first attempt has been refused, or a server lost

fleetVars == <<loop, conn, srv, toClient, toServer, failed>>

FleetTypeOK(Message) ==
  /\ loop \in {"running", "quitting", "again", "left"}
  /\ conn \in [Peer -> {"connecting", "retrying", "up", "shut", "down"}]
  /\ srv \in [Peer -> {"none", "open", "closed", "lost"}]
  /\ toClient \in [Peer -> Seq(Message)]
  /\ toServer \in [Peer -> Seq(Message)]
  /\ failed \in BOOLEAN

FleetInit ==
  /\ loop = "running"
  /\ conn = [p \in Peer |-> "connecting"]
  /\ srv = [p \in Peer |-> "none"]
  /\ toClient = [p \in Peer |-> <<>>]
  /\ toServer = [p \in Peer |-> <<>>]
  /\ failed = FALSE

-----------------------------------------------------------------------------
(* The client. *)

\* connections_, with `state` for conn.
Connections(state) == {p \in Peer : state[p] \in {"up", "shut"}}

\* quit() ends the loop after the iteration: its other handlers still run.  No
\* connection is left then but those made in this iteration, whose events are
\* for the next.
Handling == loop # "left"

\* loop_->quit().  EventLoop.cc:84 asserts that it is called once; two attempts
\* refused in one iteration call it twice, which changes nothing else.
Quit == loop' = IF loop = "running" THEN "quitting" ELSE "again"

\* onConnectError() when the connections are as in `state`: the last one shut
\* down is not followed by another.
OnConnectError_Fault(state) ==
  IF Connections(state) = {}
  THEN Quit /\ conn' = state
  ELSE UNCHANGED loop /\ conn' = state

\* onConnectError() when the connections are as in `state`: quit, or shut down
\* whichever the set gives first.  A second shutdown() does nothing.
OnConnectError(state) ==
  IF Connections(state) = {}
  THEN Quit /\ conn' = state
  ELSE /\ UNCHANGED loop
       /\ \E p \in Connections(state) : conn' = [state EXCEPT ![p] = "shut"]

\* onConnection(), up.
Connected(p) ==
  /\ Handling
  /\ conn[p] \in {"connecting", "retrying"}
  /\ conn' = [conn EXCEPT ![p] = "up"]
  /\ UNCHANGED <<loop, srv, toClient, toServer, failed>>

\* The first Connector has the error callback.
Refused(p) ==
  /\ Handling
  /\ conn[p] = "connecting"
  /\ failed' = TRUE
  /\ OnConnectError([conn EXCEPT ![p] = "retrying"])
  /\ UNCHANGED <<srv, toClient, toServer>>

\* The retry timer replaces the first Connector; the next have no callback.
Retry(p) ==
  /\ Handling
  /\ conn[p] = "connecting"
  /\ conn' = [conn EXCEPT ![p] = "retrying"]
  /\ UNCHANGED <<loop, srv, toClient, toServer, failed>>

\* onConnection(), down: the end of what the server sent has been read.
Down(p) ==
  /\ loop = "running"
  /\ p \in Connections(conn)
  /\ srv[p] \in {"closed", "lost"} /\ toClient[p] = <<>>
  /\ OnConnectError([conn EXCEPT ![p] = "down"])
  /\ UNCHANGED <<srv, toClient, toServer, failed>>

Leave ==
  /\ loop \in {"quitting", "again"}
  /\ loop' = "left"
  /\ UNCHANGED <<conn, srv, toClient, toServer, failed>>

\* The next message of a server, for its handler.
FromServer(p) == Head(toClient[p])

Receives(p) ==
  /\ loop = "running"
  /\ p \in Connections(conn)
  /\ toClient[p] # <<>>
  /\ toClient' = [toClient EXCEPT ![p] = Tail(@)]
  /\ UNCHANGED <<srv, failed>>

\* conn->shutdown()
Shutdown(p) ==
  /\ conn' = [conn EXCEPT ![p] = "shut"]
  /\ UNCHANGED loop

\* `sent[p]` are the messages given to send() for p: send() drops what comes
\* after shutdown(), and a server that is gone gets nothing.
Send(sent) ==
  toServer' = [p \in Peer |-> IF conn[p] = "up" /\ srv[p] \in {"none", "open"}
                              THEN toServer[p] \o sent[p] ELSE toServer[p]]

-----------------------------------------------------------------------------
(* The servers. *)

\* onConnection(), up, with the greeting the server sends.
Accept(p, greeting) ==
  /\ p \in Connections(conn)
  /\ srv[p] = "none"
  /\ srv' = [srv EXCEPT ![p] = "open"]
  /\ toClient' = [toClient EXCEPT ![p] = Append(@, greeting)]
  /\ UNCHANGED <<loop, conn, toServer, failed>>

\* The next message of the client, for its handler.
FromClient(p) == Head(toServer[p])

Takes(p) ==
  /\ srv[p] = "open"
  /\ toServer[p] # <<>>
  /\ toServer' = [toServer EXCEPT ![p] = Tail(@)]
  /\ UNCHANGED <<loop, conn, srv, failed>>

\* Sending to a client; a connection that is closed drops it.
Answers(p, message) ==
  toClient' = IF srv[p] = "open"
              THEN [toClient EXCEPT ![p] = Append(@, message)] ELSE toClient

\* The server has read to the end of what the client sent.
ServerCloses(p) ==
  /\ srv[p] = "open" /\ conn[p] = "shut" /\ toServer[p] = <<>>
  /\ srv' = [srv EXCEPT ![p] = "closed"]
  /\ UNCHANGED <<loop, conn, toClient, toServer, failed>>

\* The server's process ends, or the network resets the connection.
ServerLost(p) ==
  /\ p \in Connections(conn)
  /\ srv[p] \in {"none", "open"}
  /\ srv' = [srv EXCEPT ![p] = "lost"]
  /\ \E prefix \in Prefixes(toClient[p]) :
       toClient' = [toClient EXCEPT ![p] = prefix]
  /\ toServer' = [toServer EXCEPT ![p] = <<>>]
  /\ failed' = TRUE
  /\ UNCHANGED <<loop, conn>>

-----------------------------------------------------------------------------
\* The steps in which no message is handled.
FleetNext ==
  \/ Leave
  \/ \E p \in Peer : Connected(p) \/ Refused(p) \/ Retry(p) \/ Down(p)
                       \/ ServerLost(p)
=============================================================================
