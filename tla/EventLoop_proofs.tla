------------------------- MODULE EventLoop_proofs -------------------------
(***************************************************************************)
(* Machine-checked proofs about EventLoop, and about EventLoopThread,      *)
(* which runs one, for any number of threads, tasks and channels.          *)
(***************************************************************************)
EXTENDS EventLoopThread, SequenceTheorems, TLAPS

\* Appending to pendingTasks_ adds exactly the appended task to its elements.
LEMMA RangeAppend ==
  ASSUME NEW S, NEW s \in Seq(S), NEW t \in S
  PROVE  Range(Append(s, t)) = Range(s) \cup {t}
<1>1. Append(s, t) \in Seq(S) /\ Len(Append(s, t)) = Len(s) + 1
  OBVIOUS
<1>2. \A i \in 1..Len(s) + 1 :
        Append(s, t)[i] = IF i <= Len(s) THEN s[i] ELSE t
  OBVIOUS
<1>3. DOMAIN s = 1..Len(s) /\ DOMAIN Append(s, t) = 1..Len(s) + 1
  BY <1>1
<1>4. \A x : x \in Range(Append(s, t)) <=> x \in Range(s) \cup {t}
  <2> TAKE x
  <2>1. ASSUME x \in Range(Append(s, t))  PROVE  x \in Range(s) \cup {t}
    <3>1. PICK i \in 1..Len(s) + 1 : x = Append(s, t)[i]
      BY <2>1, <1>3 DEF Range
    <3>2. CASE i <= Len(s)
      BY <3>1, <3>2, <1>2, <1>3 DEF Range
    <3>3. CASE ~(i <= Len(s))
      BY <3>1, <3>3, <1>2
    <3> QED  BY <3>2, <3>3
  <2>2. ASSUME x \in Range(s)  PROVE  x \in Range(Append(s, t))
    <3>1. PICK i \in 1..Len(s) : x = s[i]
      BY <2>2, <1>3 DEF Range
    <3>2. i \in 1..Len(s) + 1 /\ Append(s, t)[i] = x
      BY <3>1, <1>2
    <3> QED  BY <3>2, <1>3 DEF Range
  <2>3. t \in Range(Append(s, t))
    <3>1. Len(s) + 1 \in 1..Len(s) + 1 /\ Append(s, t)[Len(s) + 1] = t
      BY <1>2
    <3> QED  BY <3>1, <1>3 DEF Range
  <2> QED  BY <2>1, <2>2, <2>3
<1> QED  BY <1>4

LEMMA RangeEmpty == Range(<<>>) = {}
  BY DEF Range

-----------------------------------------------------------------------------
LEMMA TypeStep == TypeOK /\ [Next]_vars => TypeOK'
<1> USE EventLoopAssumption DEF TypeOK, PC
<1> SUFFICES ASSUME TypeOK, [Next]_vars  PROVE TypeOK'
  OBVIOUS
<1>1. CASE EnterLoop  BY <1>1 DEF EnterLoop
<1>2. CASE CheckQuit  BY <1>2 DEF CheckQuit
<1>3. CASE Poll  BY <1>3 DEF Poll, Ready
<1>4. CASE PollInterrupted  BY <1>4 DEF PollInterrupted
<1>5. CASE HandleRead  BY <1>5 DEF HandleRead
<1>6. ASSUME NEW c \in Channel, HandleEvents(c)  PROVE TypeOK'
  BY <1>6 DEF HandleEvents
<1>7. CASE HandlerReturns  BY <1>7 DEF HandlerReturns
<1>8. CASE SwapTasks  BY <1>8 DEF SwapTasks
<1>9. CASE RunTask  BY <1>9, HeadTailProperties DEF RunTask
<1>10. CASE TaskReturns  BY <1>10 DEF TaskReturns
<1>11. CASE TasksDone  BY <1>11 DEF TasksDone
<1>12. ASSUME NEW t \in Task, LoopQueueInLoop(t)  PROVE TypeOK'
  <2>1. eventfd' \in 0..MaxCount
    BY <1>12 DEF LoopQueueInLoop, Wakeup, NeedsWakeup
  <2>2. pending' \in Seq(Task) /\ batch' \in Seq(Task)
    BY <1>12 DEF LoopQueueInLoop
  <2>3. early' \subseteq Task
    BY <1>12 DEF LoopQueueInLoop
  <2> QED  BY <1>12, <2>1, <2>2, <2>3 DEF LoopQueueInLoop
<1>13. CASE LoopQuit  BY <1>13 DEF LoopQuit
<1>14. ASSUME NEW p \in Thread, NEW t \in Task, QueueInLoop(p, t)
       PROVE TypeOK'
  BY <1>14 DEF QueueInLoop
<1>15. ASSUME NEW p \in Thread, Quit(p)  PROVE TypeOK'
  BY <1>15 DEF Quit
<1>16. ASSUME NEW p \in Thread, CallerWakeup(p)  PROVE TypeOK'
  BY <1>16 DEF CallerWakeup, Wakeup
<1>17. ASSUME NEW c \in Channel, BecomesReadable(c)  PROVE TypeOK'
  BY <1>17 DEF BecomesReadable
<1>18. CASE UNCHANGED vars  BY <1>18 DEF vars
<1> QED
  BY <1>1, <1>2, <1>3, <1>4, <1>5, <1>6, <1>7, <1>8, <1>9, <1>10, <1>11,
     <1>12, <1>13, <1>14, <1>15, <1>16, <1>17, <1>18 DEF Next, LoopThread

LEMMA TypeInit == Init => TypeOK
<1> USE EventLoopAssumption DEF TypeOK, PC
<1> SUFFICES ASSUME Init  PROVE TypeOK
  OBVIOUS
<1>1. <<>> \in Seq(Task)
  OBVIOUS
<1>2. caller \in [Thread -> {"idle", "wakeup"}]
  BY DEF Init
<1>3. pc \in PC /\ quit \in BOOLEAN /\ doing \in BOOLEAN
  BY DEF Init
<1>4. eventfd \in 0..MaxCount
  BY DEF Init
<1>5. pending \in Seq(Task) /\ batch \in Seq(Task)
  BY <1>1 DEF Init
<1>6. /\ readable \subseteq Channel
      /\ active \subseteq Channel \cup {WakeupFd}
      /\ running \in Task \cup {None}
      /\ early \subseteq Task
  BY DEF Init
<1> QED  BY <1>2, <1>3, <1>4, <1>5, <1>6

\* The state stays of its type: in particular the eventfd counter stays within
\* its limit and every task in either vector is one that was queued.
THEOREM TypeCorrect == Spec => []TypeOK
BY TypeInit, TypeStep, PTL DEF Spec

-----------------------------------------------------------------------------
(* No wakeup is lost. *)

LEMMA LoopInit == Init => LoopInv
<1> SUFFICES ASSUME Init  PROVE LoopInv
  OBVIOUS
<1>1. TypeOK
  BY TypeInit
<1>2. WakeupPromised
  BY RangeEmpty DEF WakeupPromised, Init
<1> QED  BY <1>1, <1>2 DEF LoopInv, Init

\* A step that leaves the promise's variables alone keeps the promise.
LEMMA PromiseKept ==
  ASSUME WakeupPromised, UNCHANGED <<eventfd, pending, early, caller>>
  PROVE  WakeupPromised'
BY DEF WakeupPromised

\* The wakeup() that ends a call keeps the promise the call made.
LEMMA WakeupPromises ==
  ASSUME TypeOK, Wakeup  PROVE WakeupPromised'
<1>1. eventfd' > 0
  BY EventLoopAssumption DEF TypeOK, Wakeup
<1> QED  BY <1>1 DEF WakeupPromised

LEMMA LoopStep == LoopInv /\ [Next]_vars => LoopInv'
<1> SUFFICES ASSUME LoopInv, [Next]_vars  PROVE LoopInv'
  OBVIOUS
<1> DEFINE Shape ==
      /\ doing <=> pc \in {"tasks", "task"}
      /\ running # None <=> pc = "task"
      /\ pc \notin {"tasks", "task"} => batch = <<>>
    Promise ==
      pc \in {"created", "check", "poll", "tasks", "task"} => WakeupPromised
<1>t. TypeOK'
  BY TypeStep DEF LoopInv
<1>0. TypeOK /\ Shape /\ Promise
  BY DEF LoopInv
<1> SUFFICES Shape' /\ Promise'
  BY <1>t DEF LoopInv
<1> USE DEF TypeOK
<1>1. CASE EnterLoop
  BY <1>1, <1>0, PromiseKept DEF EnterLoop
<1>2. CASE CheckQuit
  BY <1>2, <1>0, PromiseKept DEF CheckQuit
<1>3. CASE Poll
  BY <1>3, <1>0 DEF Poll
<1>4. CASE PollInterrupted
  BY <1>4, <1>0 DEF PollInterrupted
<1>5. CASE HandleRead
  BY <1>5, <1>0 DEF HandleRead
<1>6. ASSUME NEW c \in Channel, HandleEvents(c)  PROVE Shape' /\ Promise'
  BY <1>6, <1>0 DEF HandleEvents
<1>7. CASE HandlerReturns
  BY <1>7, <1>0 DEF HandlerReturns
<1>8. CASE SwapTasks
  <2>1. WakeupPromised'
    BY <1>8, RangeEmpty DEF SwapTasks, WakeupPromised
  <2> QED  BY <1>8, <1>0, <2>1 DEF SwapTasks
<1>9. CASE RunTask
  <2>1. Head(batch) # None
    BY <1>9, <1>0, EventLoopAssumption, HeadTailProperties DEF RunTask
  <2> QED  BY <1>9, <1>0, <2>1, PromiseKept DEF RunTask
<1>10. CASE TaskReturns
  BY <1>10, <1>0, PromiseKept DEF TaskReturns
<1>11. CASE TasksDone
  BY <1>11, <1>0, PromiseKept DEF TasksDone
<1>12. ASSUME NEW t \in Task, LoopQueueInLoop(t)  PROVE Shape' /\ Promise'
  <2>1. Shape'
    BY <1>12, <1>0 DEF LoopQueueInLoop
  <2>2. CASE pc = "created"
    <3>1. Range(pending') = Range(pending) \cup {t}
      BY <1>12, <1>0, RangeAppend DEF LoopQueueInLoop
    <3>2. early' = early \cup {t} /\ eventfd' = eventfd /\ caller' = caller
      BY <1>12, <2>2, <1>0 DEF LoopQueueInLoop, NeedsWakeup
    <3>3. WakeupPromised'
      BY <1>0, <2>2, <3>1, <3>2 DEF WakeupPromised
    <3> QED  BY <2>1, <3>3
  <2>3. CASE pc = "task"
    <3>1. Wakeup
      BY <1>12, <2>3, <1>0 DEF LoopQueueInLoop, NeedsWakeup
    <3> QED  BY <2>1, <3>1, <1>0, WakeupPromises
  <2>4. CASE pc = "handler"
    BY <2>1, <2>4, <1>12 DEF LoopQueueInLoop
  <2> QED  BY <2>2, <2>3, <2>4, <1>12 DEF LoopQueueInLoop, InUserCode
<1>13. CASE LoopQuit
  BY <1>13, <1>0, PromiseKept DEF LoopQuit
<1>14. ASSUME NEW p \in Thread, NEW t \in Task, QueueInLoop(p, t)
       PROVE Shape' /\ Promise'
  <2>1. caller'[p] = "wakeup"
    BY <1>14, <1>0 DEF QueueInLoop, NeedsWakeup
  <2>2. WakeupPromised'
    BY <2>1 DEF WakeupPromised
  <2> QED  BY <1>14, <1>0, <2>2 DEF QueueInLoop
<1>15. ASSUME NEW p \in Thread, Quit(p)  PROVE Shape' /\ Promise'
  <2>1. caller'[p] = "wakeup"
    BY <1>15, <1>0 DEF Quit
  <2>2. WakeupPromised'
    BY <2>1 DEF WakeupPromised
  <2> QED  BY <1>15, <1>0, <2>2 DEF Quit
<1>16. ASSUME NEW p \in Thread, CallerWakeup(p)  PROVE Shape' /\ Promise'
  <2>1. WakeupPromised'
    BY <1>16, <1>0, WakeupPromises DEF CallerWakeup
  <2> QED  BY <1>16, <1>0, <2>1 DEF CallerWakeup
<1>17. ASSUME NEW c \in Channel, BecomesReadable(c)  PROVE Shape' /\ Promise'
  BY <1>17, <1>0, PromiseKept DEF BecomesReadable
<1>18. CASE UNCHANGED vars
  BY <1>18, <1>0, PromiseKept DEF vars
<1> QED
  BY <1>1, <1>2, <1>3, <1>4, <1>5, <1>6, <1>7, <1>8, <1>9, <1>10, <1>11,
     <1>12, <1>13, <1>14, <1>15, <1>16, <1>17, <1>18 DEF Next, LoopThread

\* LoopInv is inductive, so it holds in every reachable state.
THEOREM LoopInvariant == Spec => []LoopInv
BY LoopInit, LoopStep, PTL DEF Spec

\* For any number of threads and tasks, a loop blocked in epoll_wait() with a
\* task in pendingTasks_ has a wakeup on its way.
THEOREM NoWakeupIsLost == Spec => []NoLostWakeup
<1>1. LoopInv => NoLostWakeup
  BY DEF LoopInv, NoLostWakeup
<1> QED  BY <1>1, LoopInvariant, PTL

-----------------------------------------------------------------------------
(* The loop implements TaskQueue. *)

LEMMA AppendToConcat ==
  ASSUME NEW S, NEW b \in Seq(S), NEW p \in Seq(S), NEW t \in S
  PROVE  b \o Append(p, t) = Append(b \o p, t)
OBVIOUS

LEMMA HeadTailOfConcat ==
  ASSUME NEW S, NEW b \in Seq(S), NEW p \in Seq(S), b # <<>>
  PROVE  /\ b \o p # <<>>
         /\ Head(b \o p) = Head(b)
         /\ Tail(b \o p) = Tail(b) \o p
OBVIOUS

LEMMA LineStep ==
  LoopInv /\ [Next]_vars => [TQ!Next]_(TQ!vars)
<1> SUFFICES ASSUME LoopInv, [Next]_vars  PROVE [TQ!Next]_(TQ!vars)
  OBVIOUS
<1> USE DEF LoopInv, TypeOK, TQ!vars
<1>1. CASE UNCHANGED <<pending, batch, running>>
  BY <1>1
<1>2. CASE SwapTasks
  <2>1. batch = <<>>
    BY <1>2 DEF SwapTasks
  <2>2. batch' \o pending' = batch \o pending
    BY <1>2, <2>1 DEF SwapTasks
  <2> QED  BY <1>2, <2>2 DEF SwapTasks
<1>3. CASE RunTask
  <2>1. running = None /\ batch # <<>>
    BY <1>3 DEF RunTask
  <2>2. /\ batch \o pending # <<>>
        /\ Head(batch \o pending) = Head(batch)
        /\ Tail(batch \o pending) = Tail(batch) \o pending
    BY <2>1, HeadTailOfConcat
  <2>3. TQ!Start
    BY <1>3, <2>1, <2>2 DEF RunTask, TQ!Start
  <2> QED  BY <2>3 DEF TQ!Next
<1>4. CASE TaskReturns
  <2>1. TQ!Finish
    BY <1>4 DEF TaskReturns, TQ!Finish
  <2> QED  BY <2>1 DEF TQ!Next
<1>5. ASSUME NEW t \in Task, pending' = Append(pending, t),
             UNCHANGED <<batch, running>>
      PROVE  [TQ!Next]_(TQ!vars)
  <2>1. batch' \o pending' = Append(batch \o pending, t)
    BY <1>5, AppendToConcat
  <2>2. TQ!Submit(t)
    BY <1>5, <2>1 DEF TQ!Submit
  <2> QED  BY <2>2 DEF TQ!Next
<1>6. ASSUME NEW t \in Task, LoopQueueInLoop(t)  PROVE [TQ!Next]_(TQ!vars)
  BY <1>5, <1>6 DEF LoopQueueInLoop
<1>7. ASSUME NEW p \in Thread, NEW t \in Task, QueueInLoop(p, t)
      PROVE  [TQ!Next]_(TQ!vars)
  BY <1>5, <1>7 DEF QueueInLoop
<1>8. \/ UNCHANGED <<pending, batch, running>>
      \/ SwapTasks \/ RunTask \/ TaskReturns
      \/ \E t \in Task : LoopQueueInLoop(t)
      \/ \E p \in Thread, t \in Task : QueueInLoop(p, t)
  BY DEF Next, LoopThread, EnterLoop, CheckQuit, Poll, PollInterrupted,
         HandleRead, HandleEvents, HandlerReturns, TasksDone, LoopQuit, Quit,
         CallerWakeup, BecomesReadable, vars
<1> QED  BY <1>1, <1>2, <1>3, <1>4, <1>6, <1>7, <1>8

\* For any number of threads and tasks, tasks are started one at a time, in the
\* order of their pushes, each submission at most once.
THEOREM LoopRefinesTaskQueue == Spec => ImplementsTaskQueue
<1>1. Init => TQ!Init
  BY DEF Init, TQ!Init
<1> QED  BY <1>1, LoopInvariant, LineStep, PTL
     DEF Spec, ImplementsTaskQueue, TQ!Spec

-----------------------------------------------------------------------------
(* EventLoopThread: the loop inside its thread. *)

\* Whatever the thread, its owner and the users do to the loop is a step of it.
LEMMA LoopStepOfThread == ThreadNext => [Next]_vars
<1> SUFFICES ASSUME ThreadNext  PROVE [Next]_vars
  OBVIOUS
<1>1. CASE LoopRuns
  BY <1>1 DEF LoopRuns, LoopThread, Next
<1>2. CASE LoopInterrupted
  BY <1>2 DEF LoopInterrupted, Next
<1>3. CASE DestructorQuits
  BY <1>3, EventLoopThreadAssumption DEF DestructorQuits, Next
<1>4. ASSUME NEW p \in Thread, NEW t \in Task, UserQueues(p, t)  PROVE Next
  BY <1>4 DEF UserQueues, Next
<1>5. ASSUME NEW p \in Thread, UserWakes(p)  PROVE Next
  BY <1>5 DEF UserWakes, Next
<1>6. ASSUME NEW c \in Channel, ChannelReady(c)  PROVE Next
  BY <1>6 DEF ChannelReady, Next
<1>7. CASE \/ StartLoop \/ LatchWait \/ SpuriousWakeup \/ DestroyUnstarted
           \/ Destroy \/ Join
  BY <1>7 DEF StartLoop, LatchWait, SpuriousWakeup, DestroyUnstarted, Destroy,
              Join
<1>8. CASE Publish \/ Count \/ Clear \/ Exit
  BY <1>8 DEF Publish, Count, Clear, Exit
<1> QED
  BY <1>1, <1>2, <1>3, <1>4, <1>5, <1>6, <1>7, <1>8
  DEF ThreadNext, OwnerSteps, WorkerSteps

\* The thread's loop behaves as EventLoop says, so that what is proved of it
\* above holds of it here: the wakeups and the order of the tasks.
THEOREM LoopInThread ==
  ThreadSpec => Spec /\ []NoLostWakeup /\ ImplementsTaskQueue
<1>1. ThreadInit => Init
  BY DEF ThreadInit
<1>2. [ThreadNext]_allVars => [Next]_vars
  BY LoopStepOfThread DEF allVars
<1>3. ThreadSpec => Spec
  BY <1>1, <1>2, PTL DEF ThreadSpec, Spec
<1> QED
  BY <1>3, NoWakeupIsLost, LoopRefinesTaskQueue, PTL

-----------------------------------------------------------------------------
(* The owner and the thread. *)

\* An owner that waits is notified: the thread has yet to count.
NotifiedIfWaiting ==
  owner = "waiting" => worker \in {"constructed", "published"}

\* Where the two threads may be.  The loop returns only when it was told to,
\* and is told to by the destructor, unless its own tasks do.  A call from
\* outside is still being made only by a user of a loop that runs, or is the
\* rest of the destructor's quit().
TogetherInv ==
  /\ ThreadTypeOK
  /\ latch = 1 <=> worker \in {"none", "constructed", "published"}
  /\ loopSet <=> worker \in {"published", "looping"}
  /\ owner = "new" => worker = "none"
  /\ owner \in {"latch", "waiting"} => worker # "none"
  /\ owner = "waiting" => latch = 1
  /\ owner \in {"running", "quitting", "joining"} => latch = 0
  /\ worker \in {"cleared", "exited"} => pc = "returned"
  /\ pc = "returned" => quit
  /\ ~TaskQuits /\ quit => owner \in {"joining", "done", "undefined"}
  /\ \A p \in Thread : caller[p] = "wakeup" =>
       \/ owner = "running"
       \/ owner = "joining" /\ p = Owner
       \/ owner = "undefined" /\ TaskQuits

LEMMA TogetherInit == ThreadInit => TogetherInv
<1> SUFFICES ASSUME ThreadInit  PROVE TogetherInv
  OBVIOUS
<1>1. TypeOK
  BY TypeInit DEF ThreadInit
<1> QED
  BY <1>1 DEF ThreadInit, Init, TogetherInv, ThreadTypeOK

\* The loop's own steps: it returns when quit_ is set, and sets it only in a
\* task that quits; the calls of the other threads are no business of its.
LEMMA LoopRunsKeeps ==
  ASSUME TogetherInv, LoopRuns
  PROVE  /\ pc # "returned"
         /\ pc' = "returned" => quit'
         /\ quit' => quit \/ TaskQuits
         /\ UNCHANGED caller
<1> DEFINE Returns == /\ pc # "returned" /\ (pc' = "returned" => quit')
                      /\ UNCHANGED caller
<1>1. EnterLoop \/ LoopThread
  BY DEF LoopRuns
<1>2. EnterLoop \/ CheckQuit \/ Poll \/ HandleRead => Returns
  BY DEF EnterLoop, CheckQuit, Poll, HandleRead
<1>3. (\E c \in Channel : HandleEvents(c)) \/ HandlerReturns => Returns
  BY DEF HandleEvents, HandlerReturns
<1>4. SwapTasks \/ RunTask \/ TaskReturns \/ TasksDone => Returns
  BY DEF SwapTasks, RunTask, TaskReturns, TasksDone
<1>5. (\E t \in Task : LoopQueueInLoop(t)) \/ LoopQuit => Returns
  BY DEF LoopQueueInLoop, LoopQuit, InUserCode
<1>6. Returns
  BY <1>1, <1>2, <1>3, <1>4, <1>5 DEF LoopThread
<1> QED
  BY <1>6 DEF LoopRuns

LEMMA TogetherStep ==
  ASSUME TogetherInv, [ThreadNext]_allVars
  PROVE  TogetherInv'
<1> DEFINE Rest ==
      /\ owner \in {"new", "latch", "waiting", "running", "quitting", "joining",
                    "done", "undefined"}
      /\ worker \in {"none", "constructed", "published", "looping", "cleared",
                     "exited"}
      /\ loopSet \in BOOLEAN
      /\ latch \in {0, 1}
      /\ latch = 1 <=> worker \in {"none", "constructed", "published"}
      /\ loopSet <=> worker \in {"published", "looping"}
      /\ owner = "new" => worker = "none"
      /\ owner \in {"latch", "waiting"} => worker # "none"
      /\ owner = "waiting" => latch = 1
      /\ owner \in {"running", "quitting", "joining"} => latch = 0
      /\ worker \in {"cleared", "exited"} => pc = "returned"
      /\ pc = "returned" => quit
      /\ ~TaskQuits /\ quit => owner \in {"joining", "done", "undefined"}
      /\ \A p \in Thread : caller[p] = "wakeup" =>
           \/ owner = "running"
           \/ owner = "joining" /\ p = Owner
           \/ owner = "undefined" /\ TaskQuits
<1>0. TypeOK /\ Rest
  BY DEF TogetherInv, ThreadTypeOK
<1>t. TypeOK'
  BY <1>0, LoopStepOfThread, TypeStep DEF allVars, vars
<1> SUFFICES Rest'
  BY <1>t DEF TogetherInv, ThreadTypeOK
<1>1. CASE StartLoop
  BY <1>0, <1>1 DEF StartLoop, vars
<1>2. CASE LatchWait
  BY <1>0, <1>2 DEF LatchWait, vars
<1>3. CASE SpuriousWakeup
  BY <1>0, <1>3 DEF SpuriousWakeup, vars
<1>4. CASE DestroyUnstarted
  BY <1>0, <1>4 DEF DestroyUnstarted, vars
<1>5. CASE Destroy
  BY <1>0, <1>5 DEF Destroy, vars
<1>6. CASE DestructorQuits
  BY <1>0, <1>6, EventLoopThreadAssumption DEF DestructorQuits, Quit, AfterUse, TypeOK
<1>7. CASE Join
  BY <1>0, <1>7 DEF Join, vars
<1>8. CASE Publish
  BY <1>0, <1>8 DEF Publish, vars
<1>9. CASE Count
  BY <1>0, <1>9 DEF Count, vars
<1>10. CASE LoopRuns
  <2>1. UNCHANGED threadVars /\ worker = "looping"
    BY <1>10 DEF LoopRuns
  <2> QED
    BY <1>0, <1>10, <2>1, LoopRunsKeeps DEF threadVars
<1>11. CASE LoopInterrupted
  BY <1>0, <1>11 DEF LoopInterrupted, PollInterrupted, threadVars
<1>12. CASE Clear
  BY <1>0, <1>12 DEF Clear, vars
<1>13. CASE Exit
  BY <1>0, <1>13 DEF Exit, vars
<1>14. ASSUME NEW p \in Thread, NEW t \in Task, UserQueues(p, t)  PROVE Rest'
  BY <1>0, <1>14 DEF UserQueues, QueueInLoop, AfterUse, TypeOK
<1>15. ASSUME NEW p \in Thread, UserWakes(p)  PROVE Rest'
  BY <1>0, <1>15 DEF UserWakes, CallerWakeup, AfterUse, TypeOK
<1>16. ASSUME NEW c \in Channel, ChannelReady(c)  PROVE Rest'
  BY <1>0, <1>16 DEF ChannelReady, BecomesReadable, threadVars
<1>17. CASE UNCHANGED allVars
  BY <1>0, <1>17 DEF allVars, vars, threadVars
<1> QED
  BY <1>1, <1>2, <1>3, <1>4, <1>5, <1>6, <1>7, <1>8, <1>9, <1>10, <1>11,
     <1>12, <1>13, <1>14, <1>15, <1>16, <1>17
  DEF ThreadNext, OwnerSteps, WorkerSteps

LEMMA TogetherInvariance == ThreadSpec => []TogetherInv
BY TogetherInit, TogetherStep, PTL DEF ThreadSpec

\* Owner, thread, pointer and latch stay of their types, and so does the loop.
THEOREM ThreadTypeCorrect == ThreadSpec => []ThreadTypeOK
<1>1. TogetherInv => ThreadTypeOK
  BY DEF TogetherInv
<1> QED  BY <1>1, TogetherInvariance, PTL

\* startLoop() does not sleep past the latch: while it waits for the loop's
\* address the thread has still to count, and its notification is to come.
THEOREM LatchIsNotMissed == ThreadSpec => []NotifiedIfWaiting
<1>1. TogetherInv => NotifiedIfWaiting
  BY DEF TogetherInv, NotifiedIfWaiting
<1> QED  BY <1>1, TogetherInvariance, PTL

\* If nothing in the loop quits it, a loop whose address startLoop() has returned
\* is there for every call its users make, to the end of the call, and for the
\* destructor as far as the store of its quit().  The rest of that quit() is the
\* exception, and the only one: it may find the loop destroyed.
THEOREM LoopIsThereForItsUsers == ThreadSpec => []LoopOutlivesUsers
<1>1. TogetherInv => LoopOutlivesUsers
  BY DEF TogetherInv, ThreadTypeOK, LoopOutlivesUsers
<1> QED  BY <1>1, TogetherInvariance, PTL
=============================================================================
