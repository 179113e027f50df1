------------------------------ MODULE TcpServer ------------------------------
(***************************************************************************)
(* A TcpServer (tinyev/TcpServer.cc): a TcpServerSingle with its Acceptor  *)
(* on the base loop and one more on each thread that start() creates, all  *)
(* bound to one address, the kernel giving each client to one of them.     *)
(*                                                                         *)
(* Server 0 is the base server; servers 1 .. NumThreads - 1 live on the    *)
(* stacks of the threads, whose loops only ~TcpServer quits: no interface  *)
(* gives them to anyone else.  A handler of a loop is one step; what       *)
(* quit() does to a loop that sleeps is EventLoop's.  A connection is      *)
(* here its descriptor and who refers to it; the rest is TcpConnection's.  *)
(*                                                                         *)
(* Bounds: a client connects once; MaxFds descriptors for connections.     *)
(*                                                                         *)
(* A definition whose name ends in _Fault is the definition before which   *)
(* it stands with a plausible mistake; no specification uses it.           *)
(***************************************************************************)
EXTENDS Naturals, Sequences, FiniteSets

CONSTANTS NumThreads,  \* numThreads_
          Client,      \* the peers that connect
          MaxFds       \* how many connections the process has descriptors for

ASSUME TcpServerAssumption ==
  /\ NumThreads \in Nat \ {0}
  /\ IsFiniteSet(Client)
  /\ MaxFds \in Nat \ {0}

Server == 0 .. NumThreads - 1
Thread == Server \ {0}

VARIABLES
  started,      \* started_
  queued,       \* startInLoop() is in the base loop's queue
  main,         \* where the base thread is in startInLoop() or ~TcpServer
  index,        \* its loop index there
  place,        \* for each server, where its thread is
  eventLoops,   \* eventLoops_[i] # nullptr
  quit,         \* quit_ of each server's loop
  listening,    \* the Acceptor's socket is listening
  backlog,      \* the clients the kernel has queued on it
  connections,  \* connections_
  phantom,      \* connections_ holds a connection of descriptor -1
  link,         \* what each client has come to
  ended,        \* the clients whose connection the peer, or the user, has ended
  kept          \* the connections the user holds references to

startVars == <<started, queued, main, index>>
loopVars == <<place, eventLoops, quit>>
acceptVars == <<listening, backlog>>
connVars == <<connections, phantom, link, ended, kept>>
vars == <<startVars, loopVars, acceptVars, connVars>>

\* The connections that exist, each with a descriptor: those referred to.
Open == kept \cup UNION {connections[s] : s \in Server}

\* The server's loop is in loop() and its thread not in another function.
Runs(s) == place[s] = "looping" /\ (s = 0 => main = "free")

TypeOK ==
  /\ started \in BOOLEAN /\ queued \in BOOLEAN
  /\ main \in {"free", "spawn", "lock", "asleep", "test", "quit", "wake",
               "join", "drop", "gone", "undefined"}
  /\ index \in 0 .. NumThreads
  /\ place \in [Server -> {"none", "built", "published", "ready", "looping",
                           "left", "cleared", "gone"}]
  /\ eventLoops \in [Thread -> BOOLEAN]
  /\ quit \in [Server -> BOOLEAN]
  /\ listening \in [Server -> BOOLEAN]
  /\ backlog \in [Server -> Seq(Client)]
  /\ connections \in [Server -> SUBSET Client]
  /\ phantom \in [Server -> BOOLEAN]
  /\ link \in [Client -> {"away", "pending", "up", "down", "reset", "dropped"}]
  /\ ended \subseteq Client
  /\ kept \subseteq Client

Init ==
  /\ started = FALSE /\ queued = FALSE
  /\ main = "free" /\ index = 0
  /\ place = [s \in Server |-> IF s = 0 THEN "ready" ELSE "none"]
  /\ eventLoops = [t \in Thread |-> FALSE]
  /\ quit = [s \in Server |-> FALSE]
  /\ listening = [s \in Server |-> FALSE]
  /\ backlog = [s \in Server |-> <<>>]
  /\ connections = [s \in Server |-> {}]
  /\ phantom = [s \in Server |-> FALSE]
  /\ link = [c \in Client |-> "away"]
  /\ ended = {} /\ kept = {}

-----------------------------------------------------------------------------
(* The start. *)

\* The for loop of startInLoop() and those of ~TcpServer.
NextIndex(work, done) ==
  /\ index' = index + 1
  /\ main' = IF index + 1 < NumThreads THEN work ELSE done

\* startInLoop() up to the loop over the threads.
BeginStart ==
  /\ listening' = [listening EXCEPT ![0] = TRUE]
  /\ index' = 1
  /\ main' = IF 1 < NumThreads THEN "spawn" ELSE "free"

\* start() on the base thread, before or in its loop.
StartHere ==
  /\ ~started
  /\ main = "free" /\ place[0] \in {"ready", "looping"}
  /\ started' = TRUE
  /\ BeginStart
  /\ UNCHANGED <<queued, loopVars, backlog, connVars>>

\* start() on another thread, while the server exists.
StartElsewhere ==
  /\ ~started
  /\ main = "free"
  /\ started' = TRUE
  /\ queued' = TRUE
  /\ UNCHANGED <<main, index, loopVars, acceptVars, connVars>>

RunQueuedStart ==
  /\ queued /\ Runs(0)
  /\ queued' = FALSE
  /\ BeginStart
  /\ UNCHANGED <<started, loopVars, backlog, connVars>>

\* new std::thread: its loop and its server, bound to the address.
Spawn ==
  /\ main = "spawn"
  /\ place' = [place EXCEPT ![index] = "built"]
  /\ main' = "lock"
  /\ UNCHANGED <<started, queued, index, eventLoops, quit, acceptVars, connVars>>

\* while (eventLoops_[i] == nullptr) cond_.wait(lock), under the mutex.
AwaitLoop ==
  /\ main = "lock"
  /\ IF eventLoops[index]
     THEN NextIndex("spawn", "free")
     ELSE main' = "asleep" /\ UNCHANGED index
  /\ UNCHANGED <<started, queued, loopVars, acceptVars, connVars>>

SpuriousWakeup ==
  /\ main = "asleep"
  /\ main' = "lock"
  /\ UNCHANGED <<started, queued, index, loopVars, acceptVars, connVars>>

\* The notification given before the pointer is set.
Publish_Fault(t) ==
  /\ place[t] = "built"
  /\ place' = [place EXCEPT ![t] = "published"]
  /\ eventLoops' = [eventLoops EXCEPT ![t] = TRUE]
  /\ UNCHANGED <<startVars, quit, acceptVars, connVars>>

\* eventLoops_[index] = &loop; cond_.notify_one(), under the mutex.
Publish(t) ==
  /\ place[t] = "built"
  /\ place' = [place EXCEPT ![t] = "published"]
  /\ eventLoops' = [eventLoops EXCEPT ![t] = TRUE]
  /\ main' = IF main = "asleep" THEN "lock" ELSE main
  /\ UNCHANGED <<started, queued, index, quit, acceptVars, connVars>>

\* threadInitCallback_(index); server.start()
Listen(t) ==
  /\ place[t] = "published"
  /\ place' = [place EXCEPT ![t] = "ready"]
  /\ listening' = [listening EXCEPT ![t] = TRUE]
  /\ UNCHANGED <<startVars, eventLoops, quit, backlog, connVars>>

-----------------------------------------------------------------------------
(* The loops. *)

\* loop() begins by clearing quit_.  The base loop is run by the user, on the
\* base thread.
EnterLoop(s) ==
  /\ place[s] = "ready"
  /\ s = 0 => main = "free"
  /\ place' = [place EXCEPT ![s] = "looping"]
  /\ quit' = [quit EXCEPT ![s] = FALSE]
  /\ UNCHANGED <<startVars, eventLoops, acceptVars, connVars>>

QuitBase ==
  /\ Runs(0)
  /\ quit' = [quit EXCEPT ![0] = TRUE]
  /\ UNCHANGED <<startVars, place, eventLoops, acceptVars, connVars>>

LeaveLoop(s) ==
  /\ quit[s] /\ Runs(s)
  /\ place' = [place EXCEPT ![s] = "left"]
  /\ UNCHANGED <<startVars, eventLoops, quit, acceptVars, connVars>>

\* eventLoops_[index] = nullptr, not under the mutex.
Clear(t) ==
  /\ place[t] = "left" /\ t # 0
  /\ place' = [place EXCEPT ![t] = "cleared"]
  /\ eventLoops' = [eventLoops EXCEPT ![t] = FALSE]
  /\ UNCHANGED <<startVars, quit, acceptVars, connVars>>

\* ~TcpServerSingle: connections_ goes, and no connection is told; ~Acceptor
\* closes the listening socket, and the kernel resets the clients it had queued.
DestroySingle(s) ==
  LET queuedClients == {backlog[s][i] : i \in DOMAIN backlog[s]}
  IN /\ listening' = [listening EXCEPT ![s] = FALSE]
     /\ backlog' = [backlog EXCEPT ![s] = <<>>]
     /\ connections' = [connections EXCEPT ![s] = {}]
     /\ phantom' = [phantom EXCEPT ![s] = FALSE]
     /\ link' = [c \in Client |->
                   IF c \in queuedClients THEN "reset"
                   ELSE IF c \in connections[s] THEN "dropped" ELSE link[c]]
     /\ UNCHANGED <<ended, kept>>

\* The end of runInThread(): server and loop are destroyed, the thread ends.
Exit(t) ==
  /\ place[t] = "cleared"
  /\ place' = [place EXCEPT ![t] = "gone"]
  /\ DestroySingle(t)
  /\ UNCHANGED <<startVars, eventLoops, quit>>

-----------------------------------------------------------------------------
(* ~TcpServer. *)

\* On the base thread, out of its loop; what start() queued is never run.
Destroy ==
  /\ main = "free" /\ place[0] \in {"ready", "left"}
  /\ index' = 1
  /\ main' = IF 1 < NumThreads THEN "test" ELSE "join"
  /\ UNCHANGED <<started, queued, loopVars, acceptVars, connVars>>

\* if (loop != nullptr), not under the mutex.
TestLoop ==
  /\ main = "test"
  /\ IF eventLoops[index]
     THEN main' = "quit" /\ UNCHANGED index
     ELSE NextIndex("test", "join")
  /\ UNCHANGED <<started, queued, loopVars, acceptVars, connVars>>

\* The last loop is not quit.
QuitLoop_Fault ==
  /\ main = "quit"
  /\ quit' = [quit EXCEPT ![index] = index + 1 < NumThreads]
  /\ main' = "wake"
  /\ UNCHANGED <<started, queued, index, place, eventLoops, acceptVars, connVars>>

\* The loop is quit until its pointer is gone.
QuitLoop_Fault2 ==
  /\ main = "quit"
  /\ quit' = [quit EXCEPT ![index] = TRUE]
  /\ main' = "test"
  /\ UNCHANGED <<started, queued, index, place, eventLoops, acceptVars, connVars>>

\* loop->quit() up to the store.
QuitLoop ==
  /\ main = "quit"
  /\ quit' = [quit EXCEPT ![index] = TRUE]
  /\ main' = "wake"
  /\ UNCHANGED <<started, queued, index, place, eventLoops, acceptVars, connVars>>

\* isInLoopThread() and wakeup(), the rest of quit(): the thread may have seen
\* the store, left, and destroyed the loop, and then what follows is undefined.
WakeLoop ==
  /\ main = "wake"
  /\ IF place[index] = "gone"
     THEN main' = "undefined" /\ UNCHANGED index
     ELSE NextIndex("test", "join")
  /\ UNCHANGED <<started, queued, loopVars, acceptVars, connVars>>

\* thread->join() for each thread there is.
Join ==
  /\ main = "join"
  /\ \A t \in Thread : place[t] \in {"none", "gone"}
  /\ main' = "drop"
  /\ UNCHANGED <<started, queued, index, loopVars, acceptVars, connVars>>

\* The members are destroyed: baseServer_.
DropBase ==
  /\ main = "drop"
  /\ main' = "gone"
  /\ DestroySingle(0)
  /\ UNCHANGED <<started, queued, index, loopVars>>

-----------------------------------------------------------------------------
(* The handlers of a loop. *)

\* accept4() gives a descriptor: newConnection(), and connectionCallback_,
\* which may keep a reference.
Accept(s) ==
  LET c == Head(backlog[s])
  IN /\ Cardinality(Open) < MaxFds
     /\ backlog' = [backlog EXCEPT ![s] = Tail(@)]
     /\ connections' = [connections EXCEPT ![s] = @ \cup {c}]
     /\ link' = [link EXCEPT ![c] = "up"]
     /\ kept' \in {kept, kept \cup {c}}
     /\ UNCHANGED phantom

\* ECONNABORTED: the client has gone while queued.  newConnection() is called
\* all the same.
AcceptAborted(s) ==
  LET c == Head(backlog[s])
  IN /\ c \in ended
     /\ backlog' = [backlog EXCEPT ![s] = Tail(@)]
     /\ link' = [link EXCEPT ![c] = "reset"]
     /\ phantom' = [phantom EXCEPT ![s] = TRUE]
     /\ UNCHANGED <<connections, kept>>

\* EMFILE: the client stays queued, and newConnection() is called as above.
AcceptFails(s) ==
  /\ Cardinality(Open) >= MaxFds
  /\ phantom' = [phantom EXCEPT ![s] = TRUE]
  /\ UNCHANGED <<backlog, connections, link, kept>>

\* Acceptor::handleRead(): epoll reports the socket as long as it has clients.
\* Left out is its default branch, which ends the process: the errors that
\* accept4() gives when the whole system is short of something, as ENFILE,
\* ENOBUFS and ENOMEM, are not told from a bug and are FATAL.
HandleRead(s) ==
  /\ Runs(s)
  /\ listening[s] /\ backlog[s] # <<>>
  /\ Accept(s) \/ AcceptAborted(s) \/ AcceptFails(s)
  /\ UNCHANGED <<startVars, loopVars, listening, ended>>

\* connections_.erase() forgotten: the connection is told and stays.
CloseConnection_Fault1(s, c) ==
  /\ Runs(s)
  /\ c \in connections[s] \cap ended /\ link[c] = "up"
  /\ link' = [link EXCEPT ![c] = "down"]
  /\ UNCHANGED <<startVars, loopVars, acceptVars, connections, phantom, ended,
                 kept>>

\* connectionCallback_ not called.
CloseConnection_Fault2(s, c) ==
  /\ Runs(s)
  /\ c \in connections[s] \cap ended
  /\ connections' = [connections EXCEPT ![s] = @ \ {c}]
  /\ UNCHANGED <<startVars, loopVars, acceptVars, phantom, link, ended, kept>>

\* TcpConnection::handleClose(), which calls closeConnection(): erased, told,
\* and destroyed unless the user keeps it.  The user may drop its reference
\* then; a write-complete callback that was queued before may take one.
CloseConnection(s, c) ==
  /\ Runs(s)
  /\ c \in connections[s] \cap ended
  /\ connections' = [connections EXCEPT ![s] = @ \ {c}]
  /\ link' = [link EXCEPT ![c] = "down"]
  /\ kept' \in {kept, kept \ {c}, kept \cup {c}}
  /\ UNCHANGED <<startVars, loopVars, acceptVars, phantom, ended>>

-----------------------------------------------------------------------------
(* The kernel, the clients and the user. *)

\* SO_REUSEPORT: any socket that listens on the address may get the client.
Connect(c, s) ==
  /\ link[c] = "away" /\ listening[s]
  /\ link' = [link EXCEPT ![c] = "pending"]
  /\ backlog' = [backlog EXCEPT ![s] = Append(@, c)]
  /\ UNCHANGED <<startVars, loopVars, listening, connections, phantom, ended,
                 kept>>

\* The client closes or resets, or the user has called forceClose().
End(c) ==
  /\ link[c] \in {"pending", "up"} /\ c \notin ended
  /\ ended' = ended \cup {c}
  /\ UNCHANGED <<startVars, loopVars, acceptVars, connections, phantom, link,
                 kept>>

\* The user drops the reference it kept.
Release(c) ==
  /\ c \in kept
  /\ kept' = kept \ {c}
  /\ UNCHANGED <<startVars, loopVars, acceptVars, connections, phantom, link,
                 ended>>

-----------------------------------------------------------------------------
MainSteps ==
  RunQueuedStart \/ Spawn \/ AwaitLoop \/ TestLoop \/ QuitLoop \/ WakeLoop
    \/ Join \/ DropBase
ThreadSteps(t) == Publish(t) \/ Listen(t) \/ Clear(t) \/ Exit(t)

Next ==
  \/ StartHere \/ StartElsewhere \/ SpuriousWakeup \/ QuitBase \/ Destroy
  \/ MainSteps
  \/ \E t \in Thread : ThreadSteps(t)
  \/ \E s \in Server : EnterLoop(s) \/ LeaveLoop(s) \/ HandleRead(s)
  \/ \E s \in Server, c \in Client : CloseConnection(s, c) \/ Connect(c, s)
  \/ \E c \in Client : End(c) \/ Release(c)

Spec == Init /\ [][Next]_vars

\* A thread that can go on does, and a loop handles what epoll goes on
\* reporting.  The user runs the base loop or destroys the server, destroys it
\* once the loop has returned, as a main() does, and drops its references.
FairSpec ==
  /\ Spec
  /\ WF_vars(MainSteps)
  /\ \A t \in Thread : WF_vars(ThreadSteps(t))
  /\ \A s \in Server : WF_vars(EnterLoop(s)) /\ WF_vars(LeaveLoop(s))
                       /\ WF_vars(HandleRead(s))
  /\ \A s \in Server, c \in Client : WF_vars(CloseConnection(s, c))
  /\ WF_vars(Destroy /\ place[0] = "left")
  /\ \A c \in Client : WF_vars(Release(c))

-----------------------------------------------------------------------------
(* Properties. *)

\* The server's TcpServerSingle and its Acceptor exist.
Exists(s) ==
  IF s = 0 THEN main # "gone" ELSE place[s] \notin {"none", "gone"}

Queues(s, c) == \E i \in DOMAIN backlog[s] : backlog[s][i] = c

\* The loop that ~TcpServer calls quit() on is there when it does, up to the
\* store: eventLoops_[i] is read without the mutex and used after, while its
\* thread may clear it and end.  It need not be for the rest of quit(), which
\* is where the code goes wrong; but nothing else than the store made just
\* before has ended it then.
QuitsLiveLoop ==
  /\ main = "quit" => place[index] \in {"published", "ready", "looping"}
  /\ main = "undefined" => quit[index]

\* A client is where its state says, and only there: one that waits is queued
\* once, on a socket that listens, and one that is up is in connections_ of one
\* server, which exists.
ClientsHeld ==
  /\ \A c \in Client :
       /\ link[c] = "pending" <=> \E s \in Server : Queues(s, c)
       /\ link[c] = "up" <=> \E s \in Server : c \in connections[s]
       /\ \A s, r \in Server :
            (Queues(s, c) \/ c \in connections[s]) /\ (Queues(r, c) \/ c \in connections[r])
              => s = r
  /\ \A s \in Server :
       /\ \A i, j \in DOMAIN backlog[s] : backlog[s][i] = backlog[s][j] => i = j
       /\ backlog[s] # <<>> => listening[s]
       /\ listening[s] \/ connections[s] # {} => Exists(s)

\* What the kernel and the clients hold on to is there at every point of the
\* start, the service and the destruction, and each loop is until it is quit.
ClientsAndLoopsHeld == QuitsLiveLoop /\ ClientsHeld

\* startInLoop() is not left waiting for a thread, and each thread comes to
\* serve (TcpServer.h:36, "set all threads begin to loop and accept"): the one
\* condition variable is notified for each of them in turn, whichever of the
\* two threads takes the mutex first.
StartServes ==
  (main = "spawn")
    ~> \A t \in Thread : place[t] \in {"looping", "left", "cleared", "gone"}

\* The destructor of a server whose threads have all entered their loops quits
\* each and joins them all (TcpServer.cc:25), with clients or without, unless
\* one of the quit() calls goes on in a loop that is destroyed by then.
AllJoined ==
  (main = "test" /\ index = 1 /\ \A t \in Thread : place[t] = "looping")
    ~> (main \in {"gone", "undefined"})

\* If every connection ends, every client the kernel has queued is accepted or
\* reset, also when accept4() has found no descriptor free (Acceptor.cc:69):
\* what the closed connections held is given back.  Not promised of a server
\* whose destructor waits for a thread that has lost its quit(), or has used a
\* destroyed loop.
Served ==
  (\A c \in Client : link[c] = "up" ~> c \in ended)
    => \A c \in Client :
         link[c] = "pending" ~> (link[c] # "pending" \/ main \in {"join", "undefined"})

\* The end of a connection is told once to the user (TcpServerSingle.cc:43), or
\* the server has been destroyed with it: none is forgotten between the kernel
\* and connections_, on whichever thread it lives.
EndIsTold ==
  \A c \in Client :
    (link[c] = "up" /\ c \in ended)
      ~> (link[c] \in {"down", "dropped"} \/ main \in {"join", "undefined"})
=============================================================================
