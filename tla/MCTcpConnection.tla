-------------------------- MODULE MCTcpConnection --------------------------
(* One connection, its loop and one or two foreign threads, for TLC. *)
EXTENDS TcpConnection, TLC

CONSTANTS p1, p2

Callbacks == {"send", "shutdown", "forceClose", "stopRead", "startRead"}

\* Callbacks do everything, a thread sends, the peer ends in any way.
Everything == [loop   |-> Callbacks,
               thread |-> p1 :> {"send"} @@ p2 :> {},
               peer   |-> {"fin", "reset"}]

\* A timer closes the connection (EchoServer), its callbacks and the timer's send,
\* stop and start reading.
Timed == [loop   |-> {"timer", "send", "forceClose", "stopRead", "startRead"},
          thread |-> p1 :> {} @@ p2 :> {},
          peer   |-> {"fin", "reset"}]

\* One thread sends, shuts down and force-closes, another sends; no one else
\* ends the connection.
ThreadCloses == [loop   |-> {"send"},
                 thread |-> p1 :> {"send", "shutdown", "forceClose"}
                              @@ p2 :> {"send"},
                 peer   |-> {}]

\* A write-complete callback that starts to read again without looking.
Careless == [loop   |-> {"send", "shutdown", "stopRead", "startReadOnComplete"},
             thread |-> p1 :> {"send"} @@ p2 :> {},
             peer   |-> {"reset"}]

\* A thread that stops and starts reading.
Readers == [loop   |-> {"send"},
            thread |-> p1 :> {"stopRead", "startRead"} @@ p2 :> {},
            peer   |-> {"reset"}]

\* Two threads and the peer end the connection at once.
Racing == [loop   |-> {},
           thread |-> p1 :> {"shutdown"} @@ p2 :> {"forceClose"},
           peer   |-> {"fin", "reset"}]

\* A thread that sends and then shuts down (EchoClient).
SendShutter == [loop   |-> {},
                thread |-> p1 :> {"send", "shutdown"} @@ p2 :> {},
                peer   |-> {}]

AnyUse   == {Everything, Timed, ThreadCloses, Careless, Readers, Racing}
EchoUse  == {SendShutter}

\* Of the programs, only Racing has no lone closer.
ASSUME OneCloserAssumption ==
  \A u \in AnyUse \cup EchoUse : LoneCloser(u) <=> u # Racing
=============================================================================
