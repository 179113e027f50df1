-------------------------- MODULE TcpClient_proofs --------------------------
(***************************************************************************)
(* The safety of TcpClient, for any number of descriptors.                 *)
(***************************************************************************)
EXTENDS TcpClient, TLAPS

\* How the connector, the timer and the connection depend on each other.  An
\* event of the connection is in activeChannels_ only while it is open; one of a
\* connector, only until it has handed its descriptor on, and it is that of the
\* present one until the retry timer has had its turn.
Linked ==
  /\ pc \notin {"handlers", "undefined"} => active = {}
  /\ handed = connected
  /\ connected => retryTimer = None
  /\ pc = "destroyed" <=> connector = None
  /\ retryTimer # None => connector # None /\ socket[connector] # "new"
  /\ connection # None => connected /\ socket[connection] = "up"
  /\ connection # None /\ connector # None => connection = connector
  /\ connection = None <=> state = None
  /\ state = "disconnecting" => pc = "destroyed"
  /\ \A s \in Socket : <<"connection", s>> \in active =>
       s = connection /\ state = "connected"
  /\ \A s \in Socket : <<"connector", s>> \in active =>
       /\ s = connector => ~handed
       /\ <<"timer", None>> \in active => s = connector

ClientInv == TypeOK /\ SocketsOwned /\ WatchesItsOwn /\ Linked

LEMMA InitInv == Init => ClientInv
<1> SUFFICES ASSUME Init PROVE ClientInv
  OBVIOUS
<1>0. /\ None \notin Socket
      /\ None \notin {"connector", "connection", "waiting", "due", "connected",
                     "disconnecting", "disconnected"}
  BY TcpClientAssumption
<1>1. TypeOK
  BY DEF Init, TypeOK
<1>2. SocketsOwned
  BY <1>0 DEF Init, SocketsOwned
<1>3. WatchesItsOwn
  BY <1>0 DEF Init, WatchesItsOwn
<1>4. Linked
  BY <1>0 DEF Init, Linked
<1> QED
  BY <1>1, <1>2, <1>3, <1>4 DEF ClientInv

LEMMA StepInv == ClientInv /\ [Next]_vars => ClientInv'
<1> SUFFICES ASSUME ClientInv, [Next]_vars PROVE ClientInv'
  OBVIOUS
<1>0. /\ None \notin Socket
      /\ None \notin {"connector", "connection", "waiting", "due", "connected",
                     "disconnecting", "disconnected"}
  BY TcpClientAssumption
<1> USE <1>0 DEF ClientInv, TypeOK, SocketsOwned, WatchesItsOwn, Linked,
        clientVars, connectionVars
<1>1. CASE Start
  <2>1. TypeOK'
    BY <1>1 DEF Start, Connect
  <2>2. SocketsOwned'
    BY <1>1 DEF Start, Connect
  <2>3. WatchesItsOwn'
    BY <1>1 DEF Start, Connect
  <2>4. Linked'
    BY <1>1 DEF Start, Connect
  <2> QED
    BY <2>1, <2>2, <2>3, <2>4
<1>2. CASE StartAtOnce
  BY <1>2 DEF StartAtOnce
<1>3. ASSUME NEW s \in Socket, NEW a \in {"up", "refused"}, Answer(s, a)
      PROVE  ClientInv'
  BY <1>3 DEF Answer
<1>4. CASE RetryTimerExpires
  BY <1>4 DEF RetryTimerExpires
<1>5. CASE EnterLoop
  BY <1>5 DEF EnterLoop
<1>6. CASE Poll
  BY <1>6 DEF Poll, Ready, Channel
<1>7. CASE EndIteration
  BY <1>7 DEF EndIteration
<1>8. CASE Quit
  BY <1>8 DEF Quit
<1>9. ASSUME NEW s \in Socket, ConnectorUp(s)
      PROVE  ClientInv'
  <2>1. TypeOK'
    BY <1>9 DEF ConnectorUp, Handles, HandOver
  <2>2. SocketsOwned'
    BY <1>9 DEF ConnectorUp, Handles, HandOver
  <2>3. WatchesItsOwn'
    BY <1>9 DEF ConnectorUp, Handles, HandOver
  <2>4. Linked'
    BY <1>9 DEF ConnectorUp, Handles, HandOver
  <2> QED
    BY <2>1, <2>2, <2>3, <2>4
<1>10. ASSUME NEW s \in Socket, ConnectorRefused(s)
       PROVE  ClientInv'
  <2>1. TypeOK'
    BY <1>10 DEF ConnectorRefused, Handles
  <2>2. SocketsOwned'
    BY <1>10 DEF ConnectorRefused, Handles
  <2>3. WatchesItsOwn'
    BY <1>10 DEF ConnectorRefused, Handles
  <2>4. Linked'
    BY <1>10 DEF ConnectorRefused, Handles
  <2> QED
    BY <2>1, <2>2, <2>3, <2>4
<1>11. ASSUME NEW s \in Socket, ConnectorGone(s)
       PROVE  ClientInv'
  BY <1>11 DEF ConnectorGone, Handles
<1>12. ASSUME NEW s \in Socket, ConnectionEnds(s)
       PROVE  ClientInv'
  <2>1. TypeOK'
    BY <1>12 DEF ConnectionEnds, Handles, Close
  <2>2. SocketsOwned'
    BY <1>12 DEF ConnectionEnds, Handles, Close
  <2>3. WatchesItsOwn'
    BY <1>12 DEF ConnectionEnds, Handles, Close
  <2>4. Linked'
    BY <1>12 DEF ConnectionEnds, Handles, Close
  <2> QED
    BY <2>1, <2>2, <2>3, <2>4
<1>13. CASE Retry
  BY <1>13 DEF Retry, Handles, Replace, Connect
<1>14. CASE RetryAtOnce
  BY <1>14 DEF RetryAtOnce, Handles
<1>15. CASE RetryCancelled
  BY <1>15 DEF RetryCancelled, Handles
<1>16. CASE PeerEnds
  BY <1>16 DEF PeerEnds
<1>17. CASE ForceClose
  <2>1. TypeOK'
    BY <1>17 DEF ForceClose, Close
  <2>2. SocketsOwned'
    BY <1>17 DEF ForceClose, Close
  <2>3. WatchesItsOwn'
    BY <1>17 DEF ForceClose, Close
  <2>4. Linked'
    BY <1>17 DEF ForceClose, Close
  <2> QED
    BY <2>1, <2>2, <2>3, <2>4
<1>18. CASE Destroy
  <2>1. TypeOK'
    BY <1>18 DEF Destroy
  <2>2. SocketsOwned'
    BY <1>18 DEF Destroy
  <2>3. WatchesItsOwn'
    BY <1>18 DEF Destroy
  <2>4. Linked'
    BY <1>18 DEF Destroy
  <2> QED
    BY <2>1, <2>2, <2>3, <2>4
<1>19. CASE Release
  <2>1. TypeOK'
    BY <1>19 DEF Release
  <2>2. SocketsOwned'
    BY <1>19 DEF Release
  <2>3. WatchesItsOwn'
    BY <1>19 DEF Release
  <2>4. Linked'
    BY <1>19 DEF Release
  <2> QED
    BY <2>1, <2>2, <2>3, <2>4
<1>20. CASE UNCHANGED vars
  BY <1>20 DEF vars
<1> QED
  BY <1>1, <1>2, <1>3, <1>4, <1>5, <1>6, <1>7, <1>8, <1>9, <1>10, <1>11,
     <1>12, <1>13, <1>14, <1>15, <1>16, <1>17, <1>18, <1>19, <1>20
     DEF Next, Handler

LEMMA Invariance == Spec => []ClientInv
BY InitInv, StepInv, PTL DEF Spec

-----------------------------------------------------------------------------
\* TcpClient and Connector: every member has a value it can have between two
\* handlers; no connection is left in kConnecting.
THEOREM TypeCorrect == Spec => []TypeOK
<1>1. ClientInv => TypeOK
  BY DEF ClientInv
<1> QED
  BY <1>1, Invariance, PTL

\* Connector::~Connector(), handleWrite() and ~TcpConnection() between them
\* close every descriptor once, whatever order the handlers come in.
THEOREM DescriptorsAreOwned == Spec => []SocketsOwned
<1>1. ClientInv => SocketsOwned
  BY DEF ClientInv
<1> QED
  BY <1>1, Invariance, PTL

\* The epoll set holds the channels of live Connectors and TcpConnections only,
\* and holds each that waits for an event.
THEOREM LiveChannelsAreWatched == Spec => []WatchesItsOwn
<1>1. ClientInv => WatchesItsOwn
  BY DEF ClientInv
<1> QED
  BY <1>1, Invariance, PTL

\* newConnection() ends the retries: no later step makes a connector, a
\* connection or a timer.
THEOREM RetriesEnd == Spec => OneConnection
<1>1. ASSUME ClientInv, [Next]_vars, connected
      PROVE  /\ connector' \in {connector, None}
             /\ connection' \in {connection, None}
             /\ retryTimer' = None
  <2> USE DEF clientVars, connectionVars
  <2>1. retryTimer = None /\ handed
    BY <1>1 DEF ClientInv, Linked
  <2>2. None \notin {"waiting", "due"}
    BY TcpClientAssumption
  <2>3. ASSUME NEW s \in Socket, ConnectorUp(s)
        PROVE  FALSE
    \* The connector's channel left the epoll set, and activeChannels_.
    BY <1>1, <2>1, <2>3 DEF ClientInv, Linked, ConnectorUp, Handles
  <2> QED
    BY <1>1, <2>1, <2>2, <2>3
       DEF Next, vars, Start, StartAtOnce, Answer, RetryTimerExpires,
           EnterLoop, Poll, EndIteration, Quit, Handler, ConnectorRefused,
           ConnectorGone, ConnectionEnds, Retry, RetryAtOnce, RetryCancelled,
           PeerEnds, ForceClose, Destroy, Release
<1> QED
  BY <1>1, Invariance, PTL DEF Spec, OneConnection
=============================================================================
