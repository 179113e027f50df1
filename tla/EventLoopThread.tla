-------------------------- MODULE EventLoopThread --------------------------
(***************************************************************************)
(* A thread that constructs an EventLoop on its stack and runs it          *)
(* (tinyev/EventLoopThread.cc), the owner that starts it, waits on a       *)
(* CountDownLatch for the loop's address and, in the destructor, quits the *)
(* loop and joins the thread.  The loop is EventLoop's; its steps are      *)
(* taken while the thread is inside loop.loop().                           *)
(*                                                                         *)
(* The latch's mutex makes its test-and-wait one step and its              *)
(* count-and-notify another; a condition variable may wake spuriously.     *)
(*                                                                         *)
(* Bounds: those of EventLoop; the object is started and destroyed once.   *)
(***************************************************************************)
EXTENDS EventLoop

CONSTANTS Owner,      \* the thread that calls startLoop() and the destructor
          TaskQuits   \* whether code run by the loop calls quit() itself

ASSUME EventLoopThreadAssumption ==
  /\ Owner \in Thread
  /\ TaskQuits \in BOOLEAN

VARIABLES
  owner,     \* where the owner is; "undefined": a destroyed loop was used
  worker,    \* where thread_ is in runInThread()
  loopSet,   \* loop_ # nullptr
  latch      \* count_ of latch_

threadVars == <<owner, worker, loopSet, latch>>
allVars == <<vars, threadVars>>

ThreadTypeOK ==
  /\ TypeOK
  /\ owner \in {"new", "latch", "waiting", "running", "quitting", "joining",
                "done", "undefined"}
  /\ worker \in {"none", "constructed", "published", "looping", "cleared",
                 "exited"}
  /\ loopSet \in BOOLEAN
  /\ latch \in {0, 1}

ThreadInit ==
  /\ Init
  /\ owner = "new"
  /\ worker = "none"
  /\ loopSet = FALSE
  /\ latch = 1

\* The loop is on the thread's stack: who uses it after the thread has left
\* runInThread() uses an object that is gone.
AfterUse(next) == IF worker = "exited" THEN "undefined" ELSE next

-----------------------------------------------------------------------------
(* The owner. *)

\* startLoop() up to latch_.wait(): the thread is created and constructs loop.
StartLoop ==
  /\ owner = "new"
  /\ owner' = "latch"
  /\ worker' = "constructed"
  /\ UNCHANGED <<vars, loopSet, latch>>

\* latch_.wait(): the test under the mutex, and startLoop()'s return.
LatchWait ==
  /\ owner = "latch"
  /\ owner' = IF latch > 0 THEN "waiting" ELSE "running"
  /\ UNCHANGED <<vars, worker, loopSet, latch>>

\* wait() does not test the count again.
SpuriousWakeup_Fault ==
  /\ owner = "waiting"
  /\ owner' = "running"
  /\ UNCHANGED <<vars, worker, loopSet, latch>>

SpuriousWakeup ==
  /\ owner = "waiting"
  /\ owner' = "latch"
  /\ UNCHANGED <<vars, worker, loopSet, latch>>

\* The destructor of an object that was never started.
DestroyUnstarted ==
  /\ owner = "new"
  /\ owner' = "done"
  /\ UNCHANGED <<vars, worker, loopSet, latch>>

\* The destructor reads loop_.  The other threads' calls are over: destroying
\* an object another thread is using is the caller's error.
Destroy ==
  /\ owner = "running"
  /\ \A p \in Thread : caller[p] = "idle"
  /\ owner' = IF loopSet THEN "quitting" ELSE "joining"
  /\ UNCHANGED <<vars, worker, loopSet, latch>>

\* loop_->quit() up to the store; the rest of it is UserWakes(Owner).
DestructorQuits ==
  /\ owner = "quitting"
  /\ Quit(Owner)
  /\ owner' = AfterUse("joining")
  /\ UNCHANGED <<worker, loopSet, latch>>

Join ==
  /\ owner = "joining"
  /\ caller[Owner] = "idle"
  /\ worker = "exited"
  /\ owner' = "done"
  /\ UNCHANGED <<vars, worker, loopSet, latch>>

-----------------------------------------------------------------------------
(* The thread. *)

\* loop_ = &loop
Publish ==
  /\ worker = "constructed"
  /\ worker' = "published"
  /\ loopSet' = TRUE
  /\ UNCHANGED <<vars, owner, latch>>

\* count() without the notification.
Count_Fault ==
  /\ worker = "published"
  /\ worker' = "looping"
  /\ latch' = 0
  /\ UNCHANGED <<vars, owner, loopSet>>

\* latch_.count(): the owner, if it waits, is notified.
Count ==
  /\ worker = "published"
  /\ worker' = "looping"
  /\ latch' = 0
  /\ owner' = IF owner = "waiting" THEN "latch" ELSE owner
  /\ UNCHANGED <<vars, loopSet>>

\* loop.loop(): nothing of the user's runs on this thread before it.
LoopRuns ==
  /\ worker = "looping"
  /\ IF pc = "created" THEN EnterLoop ELSE LoopThread
  /\ quit' => quit \/ TaskQuits
  /\ UNCHANGED threadVars

LoopInterrupted ==
  /\ worker = "looping"
  /\ PollInterrupted
  /\ UNCHANGED threadVars

\* loop_ = nullptr
Clear ==
  /\ worker = "looping"
  /\ pc = "returned"
  /\ worker' = "cleared"
  /\ loopSet' = FALSE
  /\ UNCHANGED <<vars, owner, latch>>

\* loop is destroyed and the thread ends.
Exit ==
  /\ worker = "cleared"
  /\ worker' = "exited"
  /\ UNCHANGED <<vars, owner, loopSet, latch>>

-----------------------------------------------------------------------------
(* The users of the pointer startLoop() returned, and the descriptors. *)

UserQueues(p, t) ==
  /\ owner = "running"
  /\ QueueInLoop(p, t)
  /\ owner' = AfterUse(owner)
  /\ UNCHANGED <<worker, loopSet, latch>>

\* isInLoopThread() and wakeup(), which read the loop's members: of a user's
\* queueInLoop() and of the destructor's quit(), whose store may have made the
\* thread leave and destroy its loop by now.
UserWakes(p) ==
  /\ CallerWakeup(p)
  /\ owner' = AfterUse(owner)
  /\ UNCHANGED <<worker, loopSet, latch>>

ChannelReady(c) ==
  /\ worker = "looping"
  /\ BecomesReadable(c)
  /\ UNCHANGED threadVars

-----------------------------------------------------------------------------
OwnerSteps == LatchWait \/ DestructorQuits \/ Join
WorkerSteps == Publish \/ Count \/ LoopRuns \/ Clear \/ Exit

ThreadNext ==
  \/ StartLoop
  \/ SpuriousWakeup
  \/ DestroyUnstarted
  \/ Destroy
  \/ OwnerSteps
  \/ WorkerSteps
  \/ LoopInterrupted
  \/ \E p \in Thread, t \in Task : UserQueues(p, t)
  \/ \E p \in Thread : UserWakes(p)
  \/ \E c \in Channel : ChannelReady(c)

ThreadSpec == ThreadInit /\ [][ThreadNext]_allVars

\* A thread that can go on does; nothing obliges the owner to start or destroy
\* the object, or a user to call.
ThreadFairSpec ==
  /\ ThreadSpec
  /\ WF_allVars(OwnerSteps)
  /\ WF_allVars(WorkerSteps)
  /\ \A p \in Thread : WF_allVars(UserWakes(p))

-----------------------------------------------------------------------------
(* Properties. *)

\* startLoop() returns, and returns a loop unless a task has quit it
\* (EventLoopThread.cc:30): the latch's notification is not lost, whichever of
\* the two threads reaches the latch first.
StartReturns ==
  (owner \in {"latch", "waiting"})
    ~> (owner = "running" /\ (loopSet \/ TaskQuits))

\* The loop that startLoop() returned is there, and its thread in it, whenever
\* the object's user may call it and when the destructor reads loop_ and begins
\* its quit() (EventLoopThread.cc:14-15), all of it without a lock: startLoop()
\* returns when loop_ is set, not before, and the thread leaves when it is told
\* to, not before.  A user's call has the loop until its last access to it.
\* The one call that may not is the destructor's own quit(), after its store
\* (EventLoop.cc:86-87): there the code is wrong, and owner becomes "undefined".
\* Code in the loop that quits it breaks all of this.
LoopOutlivesUsers ==
  ~TaskQuits =>
    /\ owner \in {"running", "quitting"} => worker = "looping" /\ loopSet
    /\ \A p \in Thread : caller[p] = "wakeup" /\ worker # "looping" =>
                           p = Owner /\ owner = "joining"

\* Once the loop has been entered, the destructor's quit() reaches it wherever
\* it is, the thread clears loop_ and ends, and the destructor returns, unless
\* it was in the rest of quit() while the thread destroyed the loop.
JoinReturnsOnceLooping ==
  (owner = "joining" /\ quit /\ pc # "created")
    ~> (owner \in {"done", "undefined"})

\* quit() may be called from any thread (EventLoop.h:28, "thread safe"), so the
\* destructor, which calls it and joins, returns.  It need not, for two reasons:
\* loop() begins by resetting quit_, so a quit() between latch_.count() and
\* loop() is lost; and a quit() that is not lost goes on to use the loop
\* (EventLoop.cc:86-87) when its thread may already have destroyed it.
DestructorReturns ==
  (owner \in {"quitting", "joining"}) ~> (owner = "done")
=============================================================================
