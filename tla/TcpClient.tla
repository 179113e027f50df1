------------------------------ MODULE TcpClient ------------------------------
(***************************************************************************)
(* A TcpClient with its Connector (tinyev/TcpClient.cc, Connector.cc): the *)
(* sockets it opens, the retry timer, the connection that comes of one of  *)
(* them, and the iteration of the loop in which their handlers meet.       *)
(*                                                                         *)
(* A Connector and a TcpConnection are named by their descriptor, which is *)
(* used again once closed.  A handler is one step.  The connection is what *)
(* matters of it here: its descriptor, its state and who keeps it alive;   *)
(* the bytes are TcpConnection's.  The timer is one that TimerQueue runs.  *)
(*                                                                         *)
(* The code may call a handler of a Connector that was destroyed, and may  *)
(* cancel a timer that is not there or is being run: what happens then is  *)
(* not defined, and the place "undefined" is the end of such a behaviour.  *)
(*                                                                         *)
(* A definition whose name ends in _Fault is the definition before which   *)
(* it stands with a plausible mistake; no specification uses it.           *)
(***************************************************************************)
EXTENDS Naturals, FiniteSets

CONSTANTS Socket,   \* the descriptors
          None      \* "no object"

\* A new Connector is made before the old one is destroyed.
ASSUME TcpClientAssumption ==
  /\ IsFiniteSet(Socket) /\ Cardinality(Socket) >= 2
  /\ None \notin Socket
  /\ None \notin {"connector", "connection", "waiting", "due", "connected",
                 "disconnecting", "disconnected"}

VARIABLES
  pc,          \* where the loop's thread is
  active,      \* what is left of activeChannels_: <<kind, descriptor>>
  quitting,    \* a callback called quit()
  socket,      \* for each descriptor, the state of its socket
  epoll,       \* for each descriptor, the channel in the epoll set
  connector,   \* connector_
  handed,      \* its connected_: the descriptor is no longer the Connector's
  connected,   \* connected_ of the client
  retryTimer,  \* the Timer of retryTimer_, or None
  connection,  \* the TcpConnection object, while it exists
  state,       \* its state_
  peerEnded    \* the peer has ended the connection

vars == <<pc, active, quitting, socket, epoll, connector, handed, connected,
          retryTimer, connection, state, peerEnded>>

Channel == ({"connector", "connection"} \X Socket) \cup {<<"timer", None>>}

TypeOK ==
  /\ pc \in {"setup", "poll", "handlers", "returned", "destroyed", "undefined"}
  /\ active \subseteq Channel
  /\ quitting \in BOOLEAN
  /\ socket \in [Socket -> {"closed", "new", "connecting", "up", "refused"}]
  /\ epoll \in [Socket -> {"connector", "connection", None}]
  /\ connector \in Socket \cup {None}
  /\ handed \in BOOLEAN /\ connected \in BOOLEAN
  /\ retryTimer \in {"waiting", "due", None}
  /\ connection \in Socket \cup {None}
  /\ state \in {"connected", "disconnecting", "disconnected", None}
  /\ peerEnded \in BOOLEAN

\* The TcpClient has been constructed, and with it its first Connector.
Init ==
  /\ pc = "setup" /\ active = {} /\ quitting = FALSE
  /\ connector \in Socket
  /\ socket = [s \in Socket |-> IF s = connector THEN "new" ELSE "closed"]
  /\ epoll = [s \in Socket |-> None]
  /\ handed = FALSE /\ connected = FALSE
  /\ retryTimer = None
  /\ connection = None /\ state = None
  /\ peerEnded = FALSE

clientVars     == <<connector, handed, connected, retryTimer>>
connectionVars == <<connection, state, peerEnded>>

-----------------------------------------------------------------------------
(* Connecting. *)

\* Connector::start(), when connect() is in progress: `closed` is the
\* descriptor that the caller closes in the same step, or None.
Connect(s, closed) ==
  /\ socket' = [x \in Socket |-> IF x = s THEN "connecting"
                                 ELSE IF x = closed THEN "closed"
                                 ELSE socket[x]]
  /\ epoll' = [x \in Socket |-> IF x = s THEN "connector"
                                ELSE IF x = closed THEN None
                                ELSE epoll[x]]

\* start(), before the loop or from one of its handlers.
Start ==
  /\ pc \in {"setup", "handlers"}
  /\ retryTimer = None /\ ~connected
  /\ connector # None /\ socket[connector] = "new"
  /\ Connect(connector, None)
  /\ retryTimer' = "waiting"
  /\ UNCHANGED <<pc, active, quitting, connector, handed, connected>>
  /\ UNCHANGED connectionVars

\* connect() ends at once in start(): handleWrite() finds no SO_ERROR, even if
\* connect() failed, and newConnection() cancels the timer that is not yet set.
StartAtOnce ==
  /\ pc \in {"setup", "handlers"}
  /\ retryTimer = None /\ ~connected
  /\ connector # None /\ socket[connector] = "new"
  /\ pc' = "undefined"
  /\ UNCHANGED <<active, quitting, socket, epoll>>
  /\ UNCHANGED clientVars /\ UNCHANGED connectionVars

\* The peer's answer, or the network's; what is up may be reset.
Answer(s, a) ==
  /\ \/ socket[s] = "connecting"
     \/ socket[s] = "up" /\ epoll[s] = "connector" /\ a = "refused"
  /\ socket' = [socket EXCEPT ![s] = a]
  /\ UNCHANGED <<pc, active, quitting, epoll>>
  /\ UNCHANGED clientVars /\ UNCHANGED connectionVars

RetryTimerExpires ==
  /\ retryTimer = "waiting"
  /\ retryTimer' = "due"
  /\ UNCHANGED <<pc, active, quitting, socket, epoll, connector, handed,
                 connected>>
  /\ UNCHANGED connectionVars

-----------------------------------------------------------------------------
(* An iteration of the loop. *)

EnterLoop ==
  /\ pc = "setup"
  /\ pc' = "poll"
  /\ UNCHANGED <<active, quitting, socket, epoll>>
  /\ UNCHANGED clientVars /\ UNCHANGED connectionVars

Ready ==
     {<<"connector", s>> : s \in {x \in Socket :
          epoll[x] = "connector" /\ socket[x] \in {"up", "refused"}}}
  \cup {<<"connection", s>> : s \in {x \in Socket :
          epoll[x] = "connection" /\ peerEnded}}
  \cup {<<"timer", None>> : t \in {retryTimer} \cap {"due"}}

\* epoll_wait() returns, perhaps only for a channel of another component.
Poll ==
  /\ pc = "poll"
  /\ active' = Ready
  /\ pc' = "handlers"
  /\ UNCHANGED <<quitting, socket, epoll>>
  /\ UNCHANGED clientVars /\ UNCHANGED connectionVars

EndIteration ==
  /\ pc = "handlers"
  /\ active = {}
  /\ pc' = IF quitting THEN "returned" ELSE "poll"
  /\ UNCHANGED <<active, quitting, socket, epoll>>
  /\ UNCHANGED clientVars /\ UNCHANGED connectionVars

\* The handlers of activeChannels_, which epoll_wait() puts in any order.
Handles(channel) ==
  /\ pc = "handlers"
  /\ channel \in active
  /\ active' = active \ {channel}

\* A user's callback, task or handler calls quit().
Quit ==
  /\ pc = "handlers"
  /\ ~quitting
  /\ quitting' = TRUE
  /\ UNCHANGED <<pc, active, socket, epoll>>
  /\ UNCHANGED clientVars /\ UNCHANGED connectionVars

-----------------------------------------------------------------------------
(* Connector::handleWrite() and TcpClient::newConnection(). *)

\* The connector's channel is left in the epoll set.
HandOver_Fault(s) ==
  /\ handed' = TRUE
  /\ connected' = TRUE
  /\ retryTimer' = None
  /\ connection' = s
  /\ state' = "connected"
  /\ UNCHANGED epoll

\* The retry timer is left alone.
HandOver_Fault2(s) ==
  /\ handed' = TRUE
  /\ connected' = TRUE
  /\ connection' = s
  /\ state' = "connected"
  /\ epoll' = [epoll EXCEPT ![s] = "connection"]
  /\ UNCHANGED retryTimer

\* The descriptor goes to a TcpConnection, whose channel takes the connector's
\* place in the epoll set, and the retry timer is cancelled.
HandOver(s) ==
  /\ handed' = TRUE
  /\ connected' = TRUE
  /\ retryTimer' = None
  /\ connection' = s
  /\ state' = "connected"
  /\ epoll' = [epoll EXCEPT ![s] = "connection"]

ConnectorUp(s) ==
  /\ Handles(<<"connector", s>>)
  /\ connector = s
  /\ socket[s] = "up"
  /\ HandOver(s)
  /\ UNCHANGED <<pc, quitting, socket, connector, peerEnded>>

\* SO_ERROR tells: the channel is removed, the error callback called, and the
\* next try is the retry timer's.
ConnectorRefused(s) ==
  /\ Handles(<<"connector", s>>)
  /\ connector = s
  /\ socket[s] = "refused"
  /\ epoll' = [epoll EXCEPT ![s] = None]
  /\ UNCHANGED <<pc, quitting, socket>>
  /\ UNCHANGED clientVars /\ UNCHANGED connectionVars

\* The Connector was destroyed by retry(), earlier in the same iteration.
ConnectorGone(s) ==
  /\ Handles(<<"connector", s>>)
  /\ connector # s
  /\ pc' = "undefined"
  /\ UNCHANGED <<quitting, socket, epoll>>
  /\ UNCHANGED clientVars /\ UNCHANGED connectionVars

-----------------------------------------------------------------------------
(* TimerQueue::handleRead() and TcpClient::retry(). *)

\* The abandoned connector is not destroyed.
Replace_Fault(s) ==
  /\ connector' = s
  /\ Connect(s, None)

\* The new connector is made and not started.
Replace_Fault2(s) ==
  /\ connector' = s
  /\ socket' = [socket EXCEPT ![s] = "new", ![connector] = "closed"]
  /\ epoll' = [epoll EXCEPT ![connector] = None]

\* A new Connector, with a descriptor of its own, takes the place of the old
\* one, which closes its descriptor: that also takes it out of the epoll set.
Replace(s) ==
  /\ connector' = s
  /\ Connect(s, connector)

\* The timer is due.  It repeats.  A client that is connected has no timer.
Retry ==
  /\ Handles(<<"timer", None>>)
  /\ retryTimer = "due"
  /\ ~connected
  /\ \E s \in Socket : socket[s] = "closed" /\ Replace(s)
  /\ retryTimer' = "waiting"
  /\ UNCHANGED <<pc, quitting, handed, connected>>
  /\ UNCHANGED connectionVars

\* connect() ends at once in retry(): newConnection() cancels, and so deletes,
\* the timer whose callback it is called from.
RetryAtOnce ==
  /\ Handles(<<"timer", None>>)
  /\ retryTimer = "due"
  /\ ~connected
  /\ pc' = "undefined"
  /\ UNCHANGED <<quitting, socket, epoll>>
  /\ UNCHANGED clientVars /\ UNCHANGED connectionVars

\* The timer was cancelled by another handler of the iteration: it is in the
\* queue no more.
RetryCancelled ==
  /\ Handles(<<"timer", None>>)
  /\ retryTimer # "due"
  /\ UNCHANGED <<pc, quitting, socket, epoll>>
  /\ UNCHANGED clientVars /\ UNCHANGED connectionVars

-----------------------------------------------------------------------------
(* The end of the connection, and of the client. *)

PeerEnds ==
  /\ connection # None
  /\ ~peerEnded
  /\ peerEnded' = TRUE
  /\ UNCHANGED <<pc, active, quitting, socket, epoll, connection, state>>
  /\ UNCHANGED clientVars

\* TcpConnection::handleClose(), which calls TcpClient::closeConnection(): the
\* channel is removed and connection_ reset.
Close ==
  /\ state' = "disconnected"
  /\ epoll' = [epoll EXCEPT ![connection] = None]

ConnectionEnds(s) ==
  /\ Handles(<<"connection", s>>)
  /\ Close
  /\ UNCHANGED <<pc, quitting, socket, connection, peerEnded>>
  /\ UNCHANGED clientVars

\* The task of a forceClose() by the user.
ForceClose ==
  /\ pc = "handlers"
  /\ active = {}
  /\ state = "connected"
  /\ Close
  /\ UNCHANGED <<pc, active, quitting, socket, connection, peerEnded>>
  /\ UNCHANGED clientVars

\* ~TcpClient(), which no one calls while the loop runs: a connection that is
\* open is told to close, by a task that does not run any more.
Destroy ==
  /\ pc = "returned"
  /\ pc' = "destroyed"
  /\ state' = IF state = "connected" THEN "disconnecting" ELSE state
  /\ retryTimer' = None
  /\ connector' = None
  /\ IF handed
     THEN UNCHANGED <<socket, epoll>>
     ELSE /\ socket' = [socket EXCEPT ![connector] = "closed"]
          /\ epoll' = [epoll EXCEPT ![connector] = None]
  /\ UNCHANGED <<active, quitting, handed, connected, connection, peerEnded>>

\* ~TcpConnection(): connection_ is reset and the user's references go; in the
\* end the loop drops its tasks, and the connection with them.
Release ==
  /\ connection # None
  /\ state = "disconnected" \/ pc = "destroyed"
  /\ pc # "undefined"
  /\ socket' = [socket EXCEPT ![connection] = "closed"]
  /\ epoll' = [epoll EXCEPT ![connection] = None]
  /\ connection' = None
  /\ state' = None
  /\ UNCHANGED <<pc, active, quitting, peerEnded>>
  /\ UNCHANGED clientVars

-----------------------------------------------------------------------------
Handler ==
  \/ \E s \in Socket :
       ConnectorUp(s) \/ ConnectorRefused(s) \/ ConnectorGone(s)
         \/ ConnectionEnds(s)
  \/ Retry \/ RetryAtOnce \/ RetryCancelled

Next ==
  \/ Start \/ StartAtOnce
  \/ \E s \in Socket, a \in {"up", "refused"} : Answer(s, a)
  \/ RetryTimerExpires
  \/ EnterLoop \/ Poll \/ Handler \/ EndIteration
  \/ Quit \/ PeerEnds \/ ForceClose \/ Destroy \/ Release

Spec == Init /\ [][Next]_vars

\* An answer that comes while the loop waits and the timer is not due.
TimelyAnswer(s) == pc = "poll" /\ retryTimer = "waiting" /\ Answer(s, "up")

\* The loop runs, time passes, and of the attempts that are made, again and
\* again one is answered in time.
FairSpec ==
  /\ Spec
  /\ WF_vars(EnterLoop) /\ WF_vars(Poll)
  /\ WF_vars(Handler) /\ WF_vars(EndIteration)
  /\ WF_vars(RetryTimerExpires)
  /\ SF_vars(\E s \in Socket : TimelyAnswer(s))

-----------------------------------------------------------------------------
(* Properties. *)

\* Every descriptor that is open belongs to the connector or to the connection,
\* and to one of them only, whatever retry(), the answers and the destructors
\* did: none is lost with an abandoned attempt, and none is closed twice.
SocketsOwned ==
  \A s \in Socket :
    /\ socket[s] # "closed" <=> (s = connector /\ ~handed) \/ s = connection
    /\ s = connection => ~(s = connector /\ ~handed)

\* The epoll set holds the channels of live objects only, and of what waits
\* for an event always: an attempt in progress, an open connection.
WatchesItsOwn ==
  \A s \in Socket :
    /\ epoll[s] = "connector" => s = connector /\ ~handed
    /\ epoll[s] = "connection" => s = connection /\ state # "disconnected"
    /\ socket[s] = "connecting" => epoll[s] = "connector"
    /\ s = connection /\ state = "connected" => epoll[s] = "connection"

\* The connection ends the retries for good, also when the timer was due in
\* the iteration in which the connection came: there is never a second attempt
\* beside or after it.
OneConnection ==
  [][connected => /\ connector' \in {connector, None}
                  /\ connection' \in {connection, None}
                  /\ retryTimer' = None]_vars

\* A client that was started gets its connection, after however many refused
\* and abandoned attempts, if in the end the peer refuses no more and no
\* iteration lasts as long as the retry interval; unless the loop ends first;
\* but for connect() that ends at once and for a retry in the iteration that
\* brings the answer, which are where the code goes wrong.
Refusing == \E s \in Socket : socket[s] = "refused"
Late ==
  pc = "handlers" /\ retryTimer = "due" /\ <<"timer", None>> \notin active

Connects ==
  <>[](~Refusing /\ ~Late) =>
    ((retryTimer # None)
       ~> (connected \/ quitting \/ pc = "undefined"))
=============================================================================
