--------------------------- MODULE TcpConnection ---------------------------
(***************************************************************************)
(* One connection (tinyev/TcpConnection.cc): its state and output buffer,  *)
(* its channel (Channel.cc) and its place in the epoll set (EPoller.cc),   *)
(* the tasks it queues on its loop, user code that runs on the loop (its   *)
(* callbacks, or a timer's), user threads that send, shut down and close,  *)
(* and the kernel's socket.                                                *)
(*                                                                         *)
(* The loop is what EventLoop is proved to be, a TaskQueue, with I/O       *)
(* between tasks.  A handler is one step, and so is a task; a foreign      *)
(* thread's call is cut where the loop may run in between: after its test  *)
(* of state_, after its atomic exchange, before its task is queued.        *)
(*                                                                         *)
(* Bounds: each message is sent once and is Size bytes; no call begins     *)
(* while MaxTasks tasks wait; forceClose() is the last call of a foreign   *)
(* thread; `closed` stops at 2.                                            *)
(*                                                                         *)
(* A definition whose name ends in _Fault is the definition before which   *)
(* it stands with a plausible mistake; no specification uses it.           *)
(***************************************************************************)
EXTENDS Naturals, Sequences, FiniteSets, SequencesExt, FiniteSetsExt

CONSTANTS
  Thread,      \* foreign threads that hold the connection
  Loop,        \* the loop's thread, as a sender
  Msg,         \* the messages
  Size,        \* the bytes of a message
  SndBuf,      \* the bytes the kernel buffers for the peer
  HighWaterMark,
  MaxTasks,
  Uses         \* the programs: what user code on the loop calls, and whether
               \* a timer's callback is among it (loop), what each foreign
               \* thread calls (thread), and how the peer ends (peer)

\* The tasks that are not the sending of a message.
TaskName == {"shutdown", "forceClose", "stopRead", "startRead",
             "writeComplete", "highWaterMark"}

ASSUME TcpConnectionAssumption ==
  /\ Loop \notin Thread
  /\ Msg \cap (TaskName \cup {"idle", "checked", "done"}) = {}
  /\ Size \in Nat \ {0} /\ SndBuf \in Nat \ {0} /\ MaxTasks \in Nat \ {0}
  /\ HighWaterMark \in Nat
  /\ \A u \in Uses :
       /\ u.loop \subseteq {"timer", "send", "shutdown", "forceClose",
                            "stopRead", "startRead", "startReadOnComplete"}
       /\ u.thread \in [Thread -> SUBSET {"send", "shutdown", "forceClose",
                                          "stopRead", "startRead"}]
       /\ u.peer \subseteq {"fin", "reset"}

VARIABLES
  use,        \* the program around the connection, one of Uses
  state,      \* state_
  events,     \* events_ of the channel
  polling,    \* polling of the channel
  revents,    \* the bits of revents_ whose callbacks are still to be called
  output,     \* outputBuffer_
  tasks,      \* what the connection has queued on the loop
  user,       \* the user code the loop runs
  caller,     \* for each foreign thread, the rest of its call
  handed,     \* for each sender, the messages send() accepted from it
  promised,   \* the messages accepted from a sender before its shutdown()
  closed,     \* how often closeCallback_ was called
  sent,       \* the bytes the kernel accepted
  inflight,   \* how many of them the peer has not read yet
  writeShut,  \* SHUT_WR was done
  input,      \* the kernel has data to read
  peer,       \* the peer's end: open, closed for writing, reset
  sockErr     \* SO_ERROR is pending

channelVars == <<events, polling>>
kernelVars  == <<sent, inflight, writeShut, input, peer, sockErr>>
vars == <<use, state, channelVars, revents, output, tasks, user, caller, handed,
          promised, closed, kernelVars>>

Sender == Thread \cup {Loop}
Bytes(m) == [i \in 1..Size |-> <<m, i>>]

\* The tasks: sendInLoop(m), written as the message, and the others by name.
Task == Msg \cup TaskName

\* Where a foreign thread is: not in a call, past the test of forceClose(),
\* past its last call, or about to queue a task.
CallerPC == {"idle", "checked", "done"} \cup Task

TypeOK ==
  /\ use \in Uses
  /\ state \in {"kConnecting", "kConnected", "kDisconnecting", "kDisconnected"}
  /\ events \subseteq {"in", "pri", "out"}
  /\ polling \in BOOLEAN
  /\ revents \subseteq {"hup", "err", "in", "out"}
  /\ output \in Seq(Msg \X (1..Size))
  /\ tasks \in Seq(Task)
  /\ user \in {"none", "writeComplete", "other"}
  /\ caller \in [Thread -> CallerPC]
  /\ handed \in [Sender -> Seq(Msg)]
  /\ promised \subseteq Msg
  /\ closed \in 0..2
  /\ sent \in Seq(Msg \X (1..Size))
  /\ inflight \in 0..SndBuf
  /\ writeShut \in BOOLEAN /\ input \in BOOLEAN /\ sockErr \in BOOLEAN
  /\ peer \in {"open", "fin", "reset"}

Init ==
  /\ use \in Uses
  /\ state = "kConnecting"
  /\ events = {} /\ polling = FALSE /\ revents = {}
  /\ output = <<>> /\ tasks = <<>>
  /\ user = "none"
  /\ caller = [p \in Thread |-> "idle"]
  /\ handed = [s \in Sender |-> <<>>]
  /\ promised = {}
  /\ closed = 0
  /\ sent = <<>> /\ inflight = 0
  /\ writeShut = FALSE /\ input = FALSE /\ peer = "open" /\ sockErr = FALSE

-----------------------------------------------------------------------------
(* The channel and the kernel. *)

\* Channel::update() and EPoller::updateChannel(): ADD, MOD or DEL.
Update(newEvents) ==
  /\ events' = newEvents
  /\ polling' = (~polling \/ newEvents # {})

isWriting == "out" \in events
isReading == "in" \in events

\* What epoll_wait() reports of the socket.
Reported ==
  {e \in {"hup", "err", "in", "out"} :
     CASE e = "hup" -> peer = "reset" \/ (peer = "fin" /\ writeShut)
       [] e = "err" -> sockErr
       [] e = "in"  -> isReading /\ (input \/ peer # "open")
       [] e = "out" -> isWriting
                       /\ (inflight < SndBuf \/ writeShut \/ peer = "reset")}

Broken == writeShut \/ peer = "reset"

\* How many of len bytes write() takes; none from an empty buffer, with an
\* error (EPIPE) or from a full socket (EAGAIN).
Writable(len) ==
  IF Broken \/ inflight = SndBuf \/ len = 0 THEN {0}
  ELSE 1..Min({len, SndBuf - inflight})

Write(bytes, n) ==
  /\ sent' = sent \o SubSeq(bytes, 1, n)
  /\ inflight' = inflight + n

\* ::shutdown(SHUT_WR), refused (ENOTCONN) on a connection that was reset.
ShutWr == writeShut' = (peer # "reset" \/ writeShut)

-----------------------------------------------------------------------------
(* What handlers, tasks and user callbacks on the loop call.  `queue` is what *)
(* waits on the loop besides what the call adds.                              *)

\* A message is written at once although bytes wait in outputBuffer_.
SendInLoop_Fault(m, queue) ==
  IF state = "kDisconnected"
  THEN tasks' = queue /\ UNCHANGED <<sent, inflight, output, channelVars>>
  ELSE \E n \in Writable(Size) :
         LET rest == SubSeq(Bytes(m), n + 1, Size) IN
         /\ Write(Bytes(m), n)
         /\ output' = output \o rest
         /\ IF rest = <<>> THEN UNCHANGED channelVars
                           ELSE Update(events \cup {"out"})
         /\ tasks' = queue \o IF n = Size THEN <<"writeComplete">> ELSE <<>>

\* sendInLoop(): what the kernel does not take waits in outputBuffer_; an error
\* (EPIPE, ECONNRESET) drops the message.
SendInLoop(m, queue) ==
  IF state = "kDisconnected"
  THEN tasks' = queue /\ UNCHANGED <<sent, inflight, output, channelVars>>
  ELSE \E n \in IF isWriting THEN {0} ELSE Writable(Size) :
         LET rest   == IF ~isWriting /\ Broken THEN <<>>
                       ELSE SubSeq(Bytes(m), n + 1, Size)
             newLen == Len(output) + Len(rest)
             event  == IF n = Size THEN <<"writeComplete">>
                       ELSE IF /\ rest # <<>>
                               /\ Len(output) < HighWaterMark
                               /\ newLen >= HighWaterMark
                            THEN <<"highWaterMark">> ELSE <<>>
         IN
         /\ Write(Bytes(m), n)
         /\ output' = output \o rest
         /\ IF rest = <<>> THEN UNCHANGED channelVars
                           ELSE Update(events \cup {"out"})
         /\ tasks' = queue \o event

\* The write side is shut down although bytes wait in outputBuffer_.
ShutdownInLoop_Fault(writing) ==
  IF state # "kDisconnected" THEN ShutWr ELSE UNCHANGED writeShut

ShutdownInLoop(writing) ==
  IF state # "kDisconnected" /\ ~writing THEN ShutWr ELSE UNCHANGED writeShut

\* handleClose(): the channel leaves the epoll set; closeCallback_ (of the
\* server, TcpServerSingle::closeConnection()) tells the user.
HandleClose ==
  /\ state' = "kDisconnected"
  /\ Update({})
  /\ closed' = Min({closed + 1, 2})
  /\ user' = "other"

-----------------------------------------------------------------------------
(* The loop. *)

\* The loop is between two handlers, with nothing left of the last poll.
Idle == revents = {} /\ user = "none"

\* TcpServerSingle::newConnection(): connectEstablished(), then the user.
ConnectEstablished ==
  /\ state = "kConnecting"
  /\ state' = "kConnected"
  /\ Update(events \cup {"in", "pri"})
  /\ user' = "other"
  /\ UNCHANGED <<use, revents, output, tasks, caller, handed, promised,
                 closed, kernelVars>>

\* The channel is active; a timer's may be ahead of it in activeChannels_.
Poll ==
  /\ Idle
  /\ polling
  /\ Reported # {}
  /\ revents' = Reported
  /\ user' \in IF "timer" \in use.loop THEN {"none", "other"} ELSE {"none"}
  /\ UNCHANGED <<use, state, channelVars, output, tasks, caller, handed,
                 promised, closed, kernelVars>>

\* Only a timer's channel is active, or it comes last: its callback may use the
\* connection like one of its own (EchoServer::onTimeout()).
RunTimer ==
  /\ Idle /\ "timer" \in use.loop
  /\ state # "kConnecting"
  /\ user' = "other"
  /\ UNCHANGED <<use, state, channelVars, revents, output, tasks, caller,
                 handed, promised, closed, kernelVars>>

\* handleEventsWithGuard(): e's callback is next, in this order.
Order == <<"hup", "err", "in", "out">>

Turn(e) ==
  /\ user = "none"
  /\ e \in revents
  /\ \A i, j \in 1..4 : Order[j] = e /\ i < j => Order[i] \notin revents
  /\ revents' = revents \ {e}

\* EPOLLHUP closes unless there may be something to read.
HandleHup ==
  /\ Turn("hup")
  /\ IF "in" \in revents THEN UNCHANGED <<state, channelVars, closed, user>>
                         ELSE HandleClose
  /\ UNCHANGED <<use, output, tasks, caller, handed, promised, kernelVars>>

\* handleError(): SO_ERROR is read, which clears it, and logged.
HandleError ==
  /\ Turn("err")
  /\ sockErr' = FALSE
  /\ UNCHANGED <<use, state, channelVars, output, tasks, user, caller,
                 handed, promised, closed, sent, inflight, writeShut, input,
                 peer>>

\* handleRead(): data goes to messageCallback_; an error is logged; the end of
\* the stream closes.
HandleRead ==
  /\ Turn("in")
  /\ \/ /\ input
        /\ input' = FALSE
        /\ user' = "other"
        /\ UNCHANGED <<state, channelVars, closed, sockErr>>
     \/ /\ ~input /\ sockErr
        /\ sockErr' = FALSE
        /\ UNCHANGED <<state, channelVars, closed, user, input>>
     \/ /\ ~input /\ ~sockErr
        /\ HandleClose
        /\ UNCHANGED <<input, sockErr>>
  /\ UNCHANGED <<use, output, tasks, caller, handed, promised, sent,
                 inflight, writeShut, peer>>

\* handleWrite() after handleClose() gives up.
HandleWriteClosed ==
  /\ Turn("out")
  /\ state = "kDisconnected"
  /\ UNCHANGED <<use, state, channelVars, output, tasks, user, caller,
                 handed, promised, closed, kernelVars>>

\* The shutdown() that waits for the buffer to drain is forgotten.
HandleWrite_Fault ==
  /\ Turn("out")
  /\ state # "kDisconnected"
  /\ \E n \in Writable(Len(output)) :
       /\ Write(output, n)
       /\ output' = SubSeq(output, n + 1, Len(output))
       /\ IF output' = <<>> /\ ~Broken
          THEN /\ Update(events \ {"out"})
               /\ tasks' = Append(tasks, "writeComplete")
          ELSE UNCHANGED <<channelVars, tasks>>
  /\ UNCHANGED <<use, state, user, caller, handed, promised, closed,
                 writeShut, input, peer, sockErr>>

\* The drained channel stays armed.
HandleWrite_Fault2 ==
  /\ Turn("out")
  /\ state # "kDisconnected"
  /\ \E n \in Writable(Len(output)) :
       /\ Write(output, n)
       /\ output' = SubSeq(output, n + 1, Len(output))
  /\ UNCHANGED <<use, state, channelVars, tasks, user, caller, handed,
                 promised, closed, writeShut, input, peer, sockErr>>

\* handleWrite(): what the kernel takes leaves the buffer; once it is empty the
\* channel is disarmed, a pending shutdown() carried out and the user told.
HandleWrite ==
  /\ Turn("out")
  /\ state # "kDisconnected"
  /\ \E n \in Writable(Len(output)) :
       /\ Write(output, n)
       /\ output' = SubSeq(output, n + 1, Len(output))
       /\ IF output' = <<>> /\ ~Broken
          THEN /\ Update(events \ {"out"})
               /\ IF state = "kDisconnecting" THEN ShutdownInLoop(FALSE)
                                              ELSE UNCHANGED writeShut
               /\ tasks' = Append(tasks, "writeComplete")
          ELSE UNCHANGED <<channelVars, writeShut, tasks>>
  /\ UNCHANGED <<use, state, user, caller, handed, promised, closed, input,
                 peer, sockErr>>

\* The loop takes the connection's next task.
Takes(task) == Idle /\ tasks # <<>> /\ Head(tasks) = task

RunSend(m) ==
  /\ Takes(m)
  /\ SendInLoop(m, Tail(tasks))
  /\ UNCHANGED <<use, state, revents, user, caller, handed, promised, closed,
                 writeShut, input, peer, sockErr>>

RunShutdown ==
  /\ Takes("shutdown")
  /\ tasks' = Tail(tasks)
  /\ ShutdownInLoop(isWriting)
  /\ UNCHANGED <<use, state, channelVars, revents, output, user, caller,
                 handed, promised, closed, sent, inflight, input, peer,
                 sockErr>>

\* forceCloseInLoop()
RunForceClose ==
  /\ Takes("forceClose")
  /\ tasks' = Tail(tasks)
  /\ IF state # "kDisconnected" THEN HandleClose
     ELSE UNCHANGED <<state, channelVars, closed, user>>
  /\ UNCHANGED <<use, revents, output, caller, handed, promised, kernelVars>>

\* The tasks of stopRead() and startRead() do not look at the state.
RunReading ==
  /\ \/ /\ Takes("stopRead")
        /\ IF isReading THEN Update(events \ {"in"}) ELSE UNCHANGED channelVars
     \/ /\ Takes("startRead")
        /\ IF isReading THEN UNCHANGED channelVars
                        ELSE Update(events \cup {"in", "pri"})
  /\ tasks' = Tail(tasks)
  /\ UNCHANGED <<use, state, revents, output, user, caller, handed, promised,
                 closed, kernelVars>>

\* writeCompleteCallback_ or highWaterMarkCallback_
RunCallback ==
  /\ \/ Takes("writeComplete") /\ user' = "writeComplete"
     \/ Takes("highWaterMark") /\ user' = "other"
  /\ tasks' = Tail(tasks)
  /\ UNCHANGED <<use, state, channelVars, revents, output, caller, handed,
                 promised, closed, kernelVars>>

-----------------------------------------------------------------------------
(* User code on the loop's thread: the connection's callbacks, or a timer's. *)

Unsent(m) == \A s \in Sender : m \notin Range(handed[s])

InCallback == user # "none"

UserReturns ==
  /\ InCallback
  /\ user' = "none"
  /\ UNCHANGED <<use, state, channelVars, revents, output, tasks, caller,
                 handed, promised, closed, kernelVars>>

\* send(), given up silently unless the connection is kConnected.
LoopSend(m) ==
  /\ InCallback /\ "send" \in use.loop
  /\ state = "kConnected"
  /\ Unsent(m)
  /\ handed' = [handed EXCEPT ![Loop] = Append(@, m)]
  /\ SendInLoop(m, tasks)
  /\ UNCHANGED <<use, state, revents, user, caller, promised, closed,
                 writeShut, input, peer, sockErr>>

\* shutdown(): the atomic exchange and, on this thread, shutdownInLoop().  A
\* callback knows the state: it does not shut down a closed connection, which
\* the code asserts.
LoopShutdown ==
  /\ InCallback /\ "shutdown" \in use.loop
  /\ state = "kConnected"
  /\ state' = "kDisconnecting"
  /\ promised' = Range(handed[Loop])
  /\ ShutdownInLoop(isWriting)
  /\ UNCHANGED <<use, channelVars, revents, output, tasks, user, caller,
                 handed, closed, sent, inflight, input, peer, sockErr>>

\* forceClose() without its test of the state.
LoopForceClose_Fault ==
  /\ InCallback /\ "forceClose" \in use.loop
  /\ Len(tasks) < MaxTasks
  /\ state' = "kDisconnecting"
  /\ tasks' = Append(tasks, "forceClose")
  /\ UNCHANGED <<use, channelVars, revents, output, user, caller, handed,
                 promised, closed, kernelVars>>

LoopForceClose ==
  /\ InCallback /\ "forceClose" \in use.loop
  /\ Len(tasks) < MaxTasks
  /\ state # "kDisconnected"
  /\ state' = "kDisconnecting"
  /\ tasks' = Append(tasks, "forceClose")
  /\ UNCHANGED <<use, channelVars, revents, output, user, caller, handed,
                 promised, closed, kernelVars>>

\* All events are disabled, not only reading.
LoopStopRead_Fault ==
  /\ InCallback /\ "stopRead" \in use.loop
  /\ isReading
  /\ Update({})
  /\ UNCHANGED <<use, state, revents, output, tasks, user, caller, handed,
                 promised, closed, kernelVars>>

LoopStopRead ==
  /\ InCallback /\ "stopRead" \in use.loop
  /\ isReading
  /\ Update(events \ {"in"})
  /\ UNCHANGED <<use, state, revents, output, tasks, user, caller, handed,
                 promised, closed, kernelVars>>

\* startRead(), by a callback that looks at the state first, or by a write-
\* complete callback that does not (EchoServer's onWriteComplete()).
LoopStartRead ==
  /\ \/ /\ InCallback /\ "startRead" \in use.loop
        /\ state # "kDisconnected"
     \/ user = "writeComplete" /\ "startReadOnComplete" \in use.loop
  /\ ~isReading
  /\ Update(events \cup {"in", "pri"})
  /\ UNCHANGED <<use, state, revents, output, tasks, user, caller, handed,
                 promised, closed, kernelVars>>

-----------------------------------------------------------------------------
(* Foreign threads. *)

May(p, op) ==
  /\ op \in use.thread[p]
  /\ caller[p] = "idle"
  /\ state # "kConnecting"
  /\ Len(tasks) < MaxTasks

\* send() up to queueInLoop().
ThreadSend(p, m) ==
  /\ May(p, "send")
  /\ state = "kConnected"
  /\ Unsent(m)
  /\ handed' = [handed EXCEPT ![p] = Append(@, m)]
  /\ caller' = [caller EXCEPT ![p] = m]
  /\ UNCHANGED <<use, state, channelVars, revents, output, tasks, user,
                 promised, closed, kernelVars>>

\* shutdown() up to queueInLoop(): the exchange; only the first caller, that
\* found kConnected, queues the task.
ThreadShutdown(p) ==
  /\ May(p, "shutdown")
  /\ state' = "kDisconnecting"
  /\ IF state = "kConnected"
     THEN /\ caller' = [caller EXCEPT ![p] = "shutdown"]
          /\ promised' = Range(handed[p])
     ELSE UNCHANGED <<caller, promised>>
  /\ UNCHANGED <<use, channelVars, revents, output, tasks, user, handed,
                 closed, kernelVars>>

\* forceClose() up to the exchange.
ThreadForceClose(p) ==
  /\ May(p, "forceClose")
  /\ caller' = [caller EXCEPT ![p] = IF state # "kDisconnected" THEN "checked"
                                                                ELSE "done"]
  /\ UNCHANGED <<use, state, channelVars, revents, output, tasks, user,
                 handed, promised, closed, kernelVars>>

\* A connection that is shutting down already is not closed.
ThreadExchange_Fault(p) ==
  /\ caller[p] = "checked"
  /\ state' = "kDisconnecting"
  /\ caller' = [caller EXCEPT ![p] = IF state = "kConnected"
                                     THEN "forceClose" ELSE "done"]
  /\ UNCHANGED <<use, channelVars, revents, output, tasks, user, handed,
                 promised, closed, kernelVars>>

\* The exchange of forceClose(), which stores kDisconnecting in any case: also
\* on a connection that was closed after ThreadForceClose.
ThreadExchange(p) ==
  /\ caller[p] = "checked"
  /\ state' = "kDisconnecting"
  /\ caller' = [caller EXCEPT ![p] = IF state # "kDisconnected"
                                     THEN "forceClose" ELSE "done"]
  /\ UNCHANGED <<use, channelVars, revents, output, tasks, user, handed,
                 promised, closed, kernelVars>>

\* stopRead() and startRead() up to queueInLoop().
ThreadReading(p, op) ==
  /\ May(p, op)
  /\ caller' = [caller EXCEPT ![p] = op]
  /\ UNCHANGED <<use, state, channelVars, revents, output, tasks, user, handed,
                 promised, closed, kernelVars>>

\* The queueInLoop() that ends a call.
ThreadQueues(p) ==
  /\ caller[p] \in Task
  /\ tasks' = Append(tasks, caller[p])
  /\ caller' = [caller EXCEPT ![p] = IF caller[p] = "forceClose" THEN "done"
                                                                 ELSE "idle"]
  /\ UNCHANGED <<use, state, channelVars, revents, output, user, handed,
                 promised, closed, kernelVars>>

-----------------------------------------------------------------------------
(* The peer, through the kernel. *)

PeerSends ==
  /\ peer = "open" /\ ~input
  /\ input' = TRUE
  /\ UNCHANGED <<use, state, channelVars, revents, output, tasks, user,
                 caller, handed, promised, closed, sent, inflight, writeShut,
                 peer, sockErr>>

PeerReads ==
  /\ peer # "reset" /\ inflight > 0
  /\ inflight' = inflight - 1
  /\ UNCHANGED <<use, state, channelVars, revents, output, tasks, user,
                 caller, handed, promised, closed, sent, writeShut, input,
                 peer, sockErr>>

PeerEnds(how) ==
  /\ how \in use.peer
  /\ peer = "open" \/ (peer = "fin" /\ how = "reset")
  /\ peer' = how
  /\ sockErr' = (how = "reset")
  /\ UNCHANGED <<use, state, channelVars, revents, output, tasks, user,
                 caller, handed, promised, closed, sent, inflight, writeShut,
                 input>>

-----------------------------------------------------------------------------
Handlers ==
  \/ ConnectEstablished \/ Poll
  \/ HandleHup \/ HandleError \/ HandleRead \/ HandleWriteClosed \/ HandleWrite

RunTask ==
  \/ \E m \in Msg : RunSend(m)
  \/ RunShutdown \/ RunForceClose \/ RunReading \/ RunCallback

UserCalls ==
  \/ \E m \in Msg : LoopSend(m)
  \/ LoopShutdown \/ LoopForceClose \/ LoopStopRead \/ LoopStartRead

ThreadBegins(p) ==
  \/ \E m \in Msg : ThreadSend(p, m)
  \/ ThreadShutdown(p) \/ ThreadForceClose(p)
  \/ \E op \in {"stopRead", "startRead"} : ThreadReading(p, op)

ThreadEnds(p) == ThreadExchange(p) \/ ThreadQueues(p)

Next ==
  \/ Handlers
  \/ RunTask
  \/ RunTimer
  \/ UserCalls
  \/ UserReturns
  \/ \E p \in Thread : ThreadBegins(p) \/ ThreadEnds(p)
  \/ PeerSends
  \/ PeerReads
  \/ \E how \in {"fin", "reset"} : PeerEnds(how)

Spec == Init /\ [][Next]_vars

\* The loop handles its events and runs its tasks whatever timers it runs besides
\* (EventLoop's IoNotStarved and EveryTaskRuns), a call that began ends, callbacks
\* return, and a peer that is there reads.  Nobody is obliged to call, the peer
\* neither to send nor to end.
FairSpec ==
  /\ Spec
  /\ SF_vars(Handlers) /\ SF_vars(RunTask) /\ WF_vars(UserReturns)
  /\ \A p \in Thread : WF_vars(ThreadEnds(p))
  /\ WF_vars(PeerReads)

-----------------------------------------------------------------------------
(* Properties. *)

\* shutdown() and forceClose() of a foreign thread store kDisconnecting whatever
\* state_ was (TcpConnection.cc:182, 204), so that a connection that was closed
\* meanwhile opens again.  A program has a lone closer if that cannot happen: when
\* a foreign thread ends the connection, nobody else does.
Closers(u) == {p \in Thread : u.thread[p] \cap {"shutdown", "forceClose"} # {}}

LoneCloser(u) ==
  Closers(u) # {} =>
    /\ u.peer = {} /\ "forceClose" \notin u.loop
    /\ \A p, q \in Closers(u) : "forceClose" \in u.thread[p] => q = p

OneCloser == \A u \in Uses : LoneCloser(u)

Open == state \in {"kConnected", "kDisconnecting"}

\* startRead() is called by callbacks that look at the state before: another
\* thread cannot know what it will be.
Careful ==
  /\ "startReadOnComplete" \notin use.loop
  /\ \A p \in Thread : "startRead" \notin use.thread[p]

\* The write event is armed exactly while bytes wait (TcpConnection.cc:123, 264
\* and 265 assert it): else they would wait for ever, or the loop spin.
OutputIffWriting == Open => (isWriting <=> output # <<>>)

\* Until it is closed, the state of a connection is not kDisconnected, and its
\* channel is in the epoll set exactly while it is open, whatever the program
\* does.  In a program with a lone closer it is then closed for good: its state
\* stays kDisconnected (asserted by the destructor, TcpConnection.cc:70), and,
\* unless startRead() is called without care, closeCallback_ is called once
\* (TcpServerSingle.cc:47 asserts that it finds the connection) and the channel
\* stays out of the epoll set.
ClosedForGood ==
  /\ closed = 0 => state # "kDisconnected" /\ (polling <=> Open)
  /\ closed > 0 /\ LoneCloser(use) =>
       /\ state = "kDisconnected"
       /\ Careful => closed = 1 /\ ~polling

\* Messages leave whole, in the order the loop took them up, through partial
\* writes, and nothing after the connection is closed.
BS == INSTANCE ByteStream WITH wire <- sent, backlog <- output,
                               open <- closed = 0

ImplementsByteStream == BS!Spec

\* What leaves of one sender's messages is what send() accepted from it, in its
\* order and without a gap, whether the sender is the loop or another thread: no
\* byte leaves twice, each is of an accepted message, and each but a sender's first
\* leaves after the byte that was accepted before it.
ByteBefore(s, i, b) == IF b > 1 THEN <<handed[s][i], b - 1>>
                                ELSE <<handed[s][i - 1], Size>>

SenderOrder ==
  /\ \A k, l \in DOMAIN sent : sent[k] = sent[l] => k = l
  /\ \A k \in DOMAIN sent : ~Unsent(sent[k][1])
  /\ \A s \in Sender : \A i \in DOMAIN handed[s], b \in 1..Size, k \in DOMAIN sent :
       sent[k] = <<handed[s][i], b>> /\ (i > 1 \/ b > 1) =>
         \E l \in 1..(k - 1) : sent[l] = ByteBefore(s, i, b)

\* What a thread sent before it called shutdown() has been written when the
\* write side is shut down.
FlushedBeforeShutdown ==
  writeShut => \A m \in promised : Range(Bytes(m)) \subseteq Range(sent)

\* shutdown() takes effect once what waits is written: the write side is shut
\* down, unless the connection is closed before.
ShutdownCompletes ==
  (state = "kDisconnecting") ~> (writeShut \/ closed > 0)

\* forceClose() takes effect: once it has found the connection open, or queued its
\* task, the connection is closed, also one that is shutting down, waits for a peer
\* that does not read, or is closed by others at the same time.
ForceCloseCloses ==
  /\ \A p \in Thread : (caller[p] \in {"checked", "forceClose"}) ~> (closed > 0)
  /\ ("forceClose" \in Range(tasks)) ~> (closed > 0)

\* Bytes that wait leave, or the connection is closed; a reset connection is
\* closed, also one that is not reading and with nothing that waits.
OutputDrains ==
  /\ (output # <<>>) ~> (output = <<>> \/ closed > 0)
  /\ (peer = "reset" /\ Open) ~> (closed > 0)
=============================================================================
