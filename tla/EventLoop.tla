----------------------------- MODULE EventLoop -----------------------------
(***************************************************************************)
(* The reactor of tinyev (tinyev/EventLoop.cc): the thread that runs       *)
(* loop(), the threads that hand it tasks through queueInLoop() and stop   *)
(* it through quit(), and the eventfd by which they wake it from           *)
(* epoll_wait(), which blocks without a timeout.                           *)
(*                                                                         *)
(* A call on a foreign thread is split where other threads can see it: the *)
(* push under mutex_ (or the store to quit_) is one step, the write to the *)
(* eventfd another.  On the loop's own thread the two steps of a call are  *)
(* one: no other thread reads pendingTasks_ or the eventfd.                *)
(* runInLoop() is queueInLoop() on a foreign thread; on the loop's thread  *)
(* it calls the task at once and leaves this state alone, and what the     *)
(* task then calls are the steps of user code below.                       *)
(*                                                                         *)
(* Bounds: a task waits in at most one place at a time (the guard ~Queued  *)
(* of the two actions that queue), so the vectors are no longer than Task  *)
(* is large; the eventfd counter stops at MaxCount.                        *)
(*                                                                         *)
(* A definition whose name ends in _Fault is the definition before which   *)
(* it stands with a plausible mistake; no specification uses it.           *)
(***************************************************************************)
EXTENDS Naturals, Sequences, Functions

CONSTANTS Thread,     \* the threads other than the loop's
          Task,       \* the tasks; one task may be queued again once started
          Channel,    \* the descriptors polled besides the wakeup eventfd
          WakeupFd,   \* the eventfd's channel, wakeupChannel_
          None,       \* "no task"
          MaxCount    \* the largest value of the eventfd counter (2^64 - 2)

ASSUME EventLoopAssumption ==
  /\ WakeupFd \notin Channel
  /\ None \notin Task
  /\ MaxCount \in Nat \ {0}

VARIABLES
  pc,        \* where the loop's thread is, see PC
  quit,      \* quit_
  doing,     \* doingPendingTasks_
  eventfd,   \* the counter of wakeupFd_
  readable,  \* the channels whose descriptor is ready
  active,    \* the channels of activeChannels_ not yet handled
  pending,   \* pendingTasks_
  batch,     \* the local vector of doPendingTasks(), without the tasks started
  running,   \* the task being run, or None
  early,     \* the pending tasks queued by the loop's thread before loop()
  caller     \* for each foreign thread: in between calls, or about to wakeup()

vars == <<pc, quit, doing, eventfd, readable, active, pending, batch, running,
          early, caller>>

\* Where the loop's thread is: before loop(), at the test of the while, in
\* epoll_wait(), between two handlers, in a handler of a user's channel, in
\* doPendingTasks() between two tasks, in a task, after loop().
PC == {"created", "check", "poll", "dispatch", "handler", "tasks", "task",
       "returned"}

TypeOK ==
  /\ pc \in PC
  /\ quit \in BOOLEAN
  /\ doing \in BOOLEAN
  /\ eventfd \in 0..MaxCount
  /\ readable \subseteq Channel
  /\ active \subseteq Channel \cup {WakeupFd}
  /\ pending \in Seq(Task)
  /\ batch \in Seq(Task)
  /\ running \in Task \cup {None}
  /\ early \subseteq Task
  /\ caller \in [Thread -> {"idle", "wakeup"}]

Init ==
  /\ pc = "created"
  /\ quit = FALSE
  /\ doing = FALSE
  /\ eventfd = 0
  /\ readable = {}
  /\ active = {}
  /\ pending = <<>>
  /\ batch = <<>>
  /\ running = None
  /\ early = {}
  /\ caller = [p \in Thread |-> "idle"]

Queued(t) == t \in Range(pending) \cup Range(batch)

\* write() of 1 to the eventfd; at the limit it fails with EAGAIN, which is
\* only logged: the descriptor stays readable.
Wakeup == eventfd' = IF eventfd < MaxCount THEN eventfd + 1 ELSE eventfd

NeedsWakeup_Fault(inLoopThread) == ~inLoopThread

\* The test that ends queueInLoop().
NeedsWakeup(inLoopThread) == ~inLoopThread \/ doing

\* The epoll set: wakeupChannel_ and the users' channels.
Ready == readable \cup (IF eventfd > 0 THEN {WakeupFd} ELSE {})

-----------------------------------------------------------------------------
(* The loop's thread. *)

\* loop() is entered.
EnterLoop ==
  /\ pc = "created"
  /\ pc' = "check"
  /\ quit' = FALSE
  /\ UNCHANGED <<doing, eventfd, readable, active, pending, batch, running,
                 early, caller>>

\* while (!quit_)
CheckQuit ==
  /\ pc = "check"
  /\ pc' = IF quit THEN "returned" ELSE "poll"
  /\ UNCHANGED <<quit, doing, eventfd, readable, active, pending, batch,
                 running, early, caller>>

\* epoll_wait() returns what is ready; it blocks while nothing is.
Poll ==
  /\ pc = "poll"
  /\ Ready # {}
  /\ active' = Ready
  /\ pc' = "dispatch"
  /\ UNCHANGED <<quit, doing, eventfd, readable, pending, batch, running,
                 early, caller>>

\* A signal interrupts epoll_wait() while nothing is ready: EINTR is ignored
\* and the iteration goes on without an active channel.
PollInterrupted ==
  /\ pc = "poll"
  /\ Ready = {}
  /\ active' = {}
  /\ pc' = "dispatch"
  /\ UNCHANGED <<quit, doing, eventfd, readable, pending, batch, running,
                 early, caller>>

\* The wakeup channel's callback: the read resets the counter.
HandleRead ==
  /\ pc = "dispatch"
  /\ WakeupFd \in active
  /\ active' = active \ {WakeupFd}
  /\ eventfd' = 0
  /\ UNCHANGED <<pc, quit, doing, readable, pending, batch, running, early,
                 caller>>

\* The callback of a user's channel is entered; it consumes what was ready.
HandleEvents(c) ==
  /\ pc = "dispatch"
  /\ c \in active
  /\ active' = active \ {c}
  /\ readable' = readable \ {c}
  /\ pc' = "handler"
  /\ UNCHANGED <<quit, doing, eventfd, pending, batch, running, early, caller>>

HandlerReturns ==
  /\ pc = "handler"
  /\ pc' = "dispatch"
  /\ UNCHANGED <<quit, doing, eventfd, readable, active, pending, batch,
                 running, early, caller>>

\* The vector is copied, not swapped.
SwapTasks_Fault ==
  /\ pc = "dispatch"
  /\ active = {}
  /\ batch' = pending
  /\ early' = {}
  /\ doing' = TRUE
  /\ pc' = "tasks"
  /\ UNCHANGED <<quit, eventfd, readable, active, pending, running, caller>>

\* All channels are handled: doPendingTasks() swaps the vectors under mutex_.
SwapTasks ==
  /\ pc = "dispatch"
  /\ active = {}
  /\ batch' = pending
  /\ pending' = <<>>
  /\ early' = {}
  /\ doing' = TRUE
  /\ pc' = "tasks"
  /\ UNCHANGED <<quit, eventfd, readable, active, running, caller>>

RunTask ==
  /\ pc = "tasks"
  /\ batch # <<>>
  /\ running' = Head(batch)
  /\ batch' = Tail(batch)
  /\ pc' = "task"
  /\ UNCHANGED <<quit, doing, eventfd, readable, active, pending, early,
                 caller>>

TaskReturns ==
  /\ pc = "task"
  /\ running' = None
  /\ pc' = "tasks"
  /\ UNCHANGED <<quit, doing, eventfd, readable, active, pending, batch, early,
                 caller>>

\* doPendingTasks() goes on until pendingTasks_ is empty.
TasksDone_Fault ==
  /\ pc = "tasks"
  /\ batch = <<>>
  /\ doing' = (pending # <<>>)
  /\ pc' = IF pending = <<>> THEN "check" ELSE "tasks"
  /\ batch' = pending
  /\ pending' = <<>>
  /\ UNCHANGED <<quit, eventfd, readable, active, running, early, caller>>

TasksDone ==
  /\ pc = "tasks"
  /\ batch = <<>>
  /\ doing' = FALSE
  /\ pc' = "check"
  /\ UNCHANGED <<quit, eventfd, readable, active, pending, batch, running,
                 early, caller>>

-----------------------------------------------------------------------------
(* User code on the loop's thread: before loop(), in a handler, in a task. *)

InUserCode == pc \in {"created", "handler", "task"}

LoopQueueInLoop(t) ==
  /\ InUserCode
  /\ ~Queued(t)
  /\ pending' = Append(pending, t)
  /\ early' = IF pc = "created" THEN early \cup {t} ELSE early
  /\ IF NeedsWakeup(TRUE) THEN Wakeup ELSE UNCHANGED eventfd
  /\ UNCHANGED <<pc, quit, doing, readable, active, batch, running, caller>>

LoopQuit ==
  /\ InUserCode
  /\ quit' = TRUE
  /\ UNCHANGED <<pc, doing, eventfd, readable, active, pending, batch, running,
                 early, caller>>

-----------------------------------------------------------------------------
(* Foreign threads. *)

\* queueInLoop() up to the unlock of mutex_.
QueueInLoop(p, t) ==
  /\ caller[p] = "idle"
  /\ ~Queued(t)
  /\ pending' = Append(pending, t)
  /\ caller' = [caller EXCEPT ![p] = IF NeedsWakeup(FALSE) THEN "wakeup"
                                                           ELSE "idle"]
  /\ UNCHANGED <<pc, quit, doing, eventfd, readable, active, batch, running,
                 early>>

\* quit() without the wakeup.
Quit_Fault(p) ==
  /\ caller[p] = "idle"
  /\ quit' = TRUE
  /\ UNCHANGED <<pc, doing, eventfd, readable, active, pending, batch, running,
                 early, caller>>

\* quit() up to the store to quit_.
Quit(p) ==
  /\ caller[p] = "idle"
  /\ quit' = TRUE
  /\ caller' = [caller EXCEPT ![p] = "wakeup"]
  /\ UNCHANGED <<pc, doing, eventfd, readable, active, pending, batch, running,
                 early>>

\* The wakeup() that ends either call.
CallerWakeup(p) ==
  /\ caller[p] = "wakeup"
  /\ Wakeup
  /\ caller' = [caller EXCEPT ![p] = "idle"]
  /\ UNCHANGED <<pc, quit, doing, readable, active, pending, batch, running,
                 early>>

\* A descriptor becomes ready.
BecomesReadable(c) ==
  /\ c \notin readable
  /\ readable' = readable \cup {c}
  /\ UNCHANGED <<pc, quit, doing, eventfd, active, pending, batch, running,
                 early, caller>>

-----------------------------------------------------------------------------
\* The steps the loop's thread takes as soon as it is scheduled.  A signal is
\* not one of them.
LoopThread ==
  \/ EnterLoop
  \/ CheckQuit
  \/ Poll
  \/ HandleRead
  \/ \E c \in Channel : HandleEvents(c)
  \/ HandlerReturns
  \/ SwapTasks
  \/ RunTask
  \/ TaskReturns
  \/ TasksDone
  \/ \E t \in Task : LoopQueueInLoop(t)
  \/ LoopQuit

Next ==
  \/ LoopThread
  \/ PollInterrupted
  \/ \E p \in Thread, t \in Task : QueueInLoop(p, t)
  \/ \E p \in Thread : Quit(p)
  \/ \E p \in Thread : CallerWakeup(p)
  \/ \E c \in Channel : BecomesReadable(c)

\* The scheduler runs every thread that can go on; it does not make a thread
\* begin a call, a descriptor ready or a signal arrive.
Fairness ==
  /\ WF_vars(LoopThread)
  /\ \A p \in Thread : WF_vars(CallerWakeup(p))

Spec == Init /\ [][Next]_vars
FairSpec == Spec /\ Fairness

-----------------------------------------------------------------------------
(* Properties. *)

\* The loop is about to be woken, or has nothing to be woken for except tasks
\* its own thread queued before it called loop().
WakeupPromised ==
  \/ eventfd > 0
  \/ \E p \in Thread : caller[p] = "wakeup"
  \/ Range(pending) \subseteq early

\* No wakeup is lost (queueInLoop, EventLoop.cc:112-117): while the loop waits
\* in epoll_wait(), which has no timeout, a task in pendingTasks_ has a wakeup
\* on its way, whichever thread queued it and whatever the loop was doing.  The
\* exception is real: a task the loop's own thread queued before loop() gets no
\* wakeup and waits until something else ends epoll_wait().
NoLostWakeup == pc = "poll" => WakeupPromised

\* The invariant the proofs use.  What keeps NoLostWakeup true is that a wakeup
\* is promised in every state from which the loop reaches epoll_wait() before
\* it swaps pendingTasks_ again, in doPendingTasks() above all, which is what
\* the doingPendingTasks_ test of queueInLoop() is for.
LoopInv ==
  /\ TypeOK
  /\ doing <=> pc \in {"tasks", "task"}
  /\ running # None <=> pc = "task"
  /\ pc \notin {"tasks", "task"} => batch = <<>>
  /\ pc \in {"created", "check", "poll", "tasks", "task"} => WakeupPromised

\* Tasks run one at a time, in the order in which the pushes to pendingTasks_
\* took the mutex, each submission once: the loop implements TaskQueue, through
\* every swap of the two vectors and every task that queues another.
TQ == INSTANCE TaskQueue WITH queue <- batch \o pending

ImplementsTaskQueue == TQ!Spec

\* A queued task is run unless the loop returns first: neither I/O nor tasks
\* that keep queueing tasks hold it back for ever.
EveryTaskRuns ==
  \A t \in Task : (Queued(t) /\ t \notin early)
                    ~> (running = t \/ pc = "returned")

\* quit() ends a loop that is running: the store to quit_ and the wakeup reach
\* it wherever it is, blocked in epoll_wait() included.
QuitEndsLoop == (quit /\ pc # "created") ~> (pc = "returned")

\* A task that keeps queueing tasks does not keep the loop from its channels:
\* doPendingTasks() runs one batch, and what a task queues is for the next
\* iteration.
IoNotStarved ==
  \A c \in Channel : (c \in readable) ~> (c \notin readable \/ pc = "returned")
=============================================================================
