----------------------------- MODULE ThreadPool -----------------------------
(***************************************************************************)
(* The thread pool (tinyev/ThreadPool.cc): a bounded deque under mutex_,   *)
(* workers that wait on notEmpty_, submitters that wait on notFull_, and a *)
(* stop() that clears running_ without the mutex, takes the mutex to       *)
(* notify the workers, and joins them.                                     *)
(*                                                                         *)
(* A critical section is one step, with one exception: a worker reads      *)
(* running_ inside its section and stop() writes it outside, so the        *)
(* worker's decision to wait and the wait are two steps, and the mutex is  *)
(* held between them.  A pool without threads runs each task in            *)
(* runTask(): it has no state, and Worker is not empty here.               *)
(*                                                                         *)
(* Bounds: a task is in one place at a time (the guard Unused of Call);    *)
(* stop() is called once, and never by a worker, which could not join      *)
(* itself.                                                                 *)
(*                                                                         *)
(* A definition whose name ends in _Fault is the definition before which   *)
(* it stands with a plausible mistake; no specification uses it.           *)
(***************************************************************************)
EXTENDS Naturals, Sequences, FiniteSets, Functions

CONSTANTS Worker,         \* threads_
          Producer,       \* the other threads that call runTask()
          Task,
          None,           \* "no task" and "nobody"
          MaxQueueSize,   \* maxQueueSize_
          Nested          \* whether a task may call runTask()

ASSUME ThreadPoolAssumption ==
  /\ Worker # {} /\ IsFiniteSet(Worker) /\ IsFiniteSet(Producer)
  /\ Worker \cap Producer = {}
  /\ None \notin Worker \cup Task
  /\ MaxQueueSize \in Nat \ {0}
  /\ Nested \in BOOLEAN

Thread == Worker \cup Producer

VARIABLES
  pc,          \* where each thread is
  job,         \* for each worker, the task it executes, or None
  arg,         \* for each thread inside runTask(), the task it submits
  taskQueue,   \* taskQueue_
  running,     \* running_
  mutex,       \* the worker that holds mutex_ and is about to wait, or None
  stopper      \* where the thread that calls stop() is

vars == <<pc, job, arg, taskQueue, running, mutex, stopper>>

\* A worker tests running_, is about to lock in take(), has decided to wait,
\* waits on notEmpty_, executes a task, has returned.  A thread in runTask() is
\* about to lock, or waits on notFull_.
WorkerPC == {"test", "take", "sleep", "asleep", "run", "exited"}
SubmitPC == {"submit", "blocked"}

TypeOK ==
  /\ pc \in [Thread -> WorkerPC \cup SubmitPC \cup {"idle"}]
  /\ \A w \in Worker : pc[w] # "idle"
  /\ \A p \in Producer : pc[p] \in SubmitPC \cup {"idle"}
  /\ job \in [Worker -> Task \cup {None}]
  /\ arg \in [Thread -> Task \cup {None}]
  /\ taskQueue \in Seq(Task)
  /\ running \in BOOLEAN
  /\ mutex \in Worker \cup {None}
  /\ stopper \in {"idle", "cleared", "joining", "stopped"}

Init ==
  /\ pc = [x \in Thread |-> IF x \in Worker THEN "test" ELSE "idle"]
  /\ job = [w \in Worker |-> None]
  /\ arg = [x \in Thread |-> None]
  /\ taskQueue = <<>>
  /\ running = TRUE
  /\ mutex = None
  /\ stopper = "idle"

Asleep  == {w \in Worker : pc[w] = "asleep"}     \* waiting on notEmpty_
Blocked == {x \in Thread : pc[x] = "blocked"}    \* waiting on notFull_

NotifyOne_Fault(waiting) == {{}}

\* The threads notify_one() may wake: one of those that wait, if any does.
NotifyOne(waiting) == IF waiting = {} THEN {{}} ELSE {{x} : x \in waiting}

\* A woken thread goes back for the mutex and tests its condition again.
Woken(woken) ==
  [x \in Thread |-> IF x \notin woken THEN pc[x]
                    ELSE IF pc[x] = "asleep" THEN "take" ELSE "submit"]

Unused(t) ==
  /\ t \notin Range(taskQueue)
  /\ \A x \in Thread : arg[x] # t
  /\ \A w \in Worker : job[w] # t

-----------------------------------------------------------------------------
(* A worker: runInThread() and take(). *)

TestRunning(w) ==
  /\ pc[w] = "test"
  /\ pc' = [pc EXCEPT ![w] = IF running THEN "take" ELSE "exited"]
  /\ UNCHANGED <<job, arg, taskQueue, running, mutex, stopper>>

\* The queue is empty and running_ is set: the worker will wait.
DecideToWait(w) ==
  /\ pc[w] = "take"
  /\ mutex = None
  /\ taskQueue = <<>>
  /\ running
  /\ mutex' = w
  /\ pc' = [pc EXCEPT ![w] = "sleep"]
  /\ UNCHANGED <<job, arg, taskQueue, running, stopper>>

\* notEmpty_.wait() releases the mutex and waits at once.
Wait(w) ==
  /\ pc[w] = "sleep"
  /\ mutex' = None
  /\ pc' = [pc EXCEPT ![w] = "asleep"]
  /\ UNCHANGED <<job, arg, taskQueue, running, stopper>>

\* The pool is stopped: take() returns an empty task, which is not called.
TakeNothing(w) ==
  /\ pc[w] = "take"
  /\ mutex = None
  /\ taskQueue = <<>>
  /\ ~running
  /\ pc' = [pc EXCEPT ![w] = "test"]
  /\ UNCHANGED <<job, arg, taskQueue, running, mutex, stopper>>

\* notFull_ is notified only by the take that leaves the queue one short.
TakeTask_Fault(w) ==
  /\ pc[w] = "take"
  /\ mutex = None
  /\ taskQueue # <<>>
  /\ job' = [job EXCEPT ![w] = Head(taskQueue)]
  /\ taskQueue' = Tail(taskQueue)
  /\ \E woken \in NotifyOne(Blocked) :
        pc' = IF Len(taskQueue) = MaxQueueSize
              THEN [Woken(woken) EXCEPT ![w] = "run"]
              ELSE [pc EXCEPT ![w] = "run"]
  /\ UNCHANGED <<arg, running, mutex, stopper>>

\* The oldest task is taken, also from a stopped pool, and a thread that waits
\* for room is notified.
TakeTask(w) ==
  /\ pc[w] = "take"
  /\ mutex = None
  /\ taskQueue # <<>>
  /\ job' = [job EXCEPT ![w] = Head(taskQueue)]
  /\ taskQueue' = Tail(taskQueue)
  /\ \E woken \in NotifyOne(Blocked) :
        pc' = [Woken(woken) EXCEPT ![w] = "run"]
  /\ UNCHANGED <<arg, running, mutex, stopper>>

TaskReturns(w) ==
  /\ pc[w] = "run"
  /\ job' = [job EXCEPT ![w] = None]
  /\ pc' = [pc EXCEPT ![w] = "test"]
  /\ UNCHANGED <<arg, taskQueue, running, mutex, stopper>>

-----------------------------------------------------------------------------
(* runTask(), called by a producer or by the task a worker executes. *)

\* runTask() asserts running_: a caller does not begin once stop() has.
Call(x, t) ==
  /\ running
  /\ pc[x] = "idle" \/ (Nested /\ pc[x] = "run")
  /\ Unused(t)
  /\ arg' = [arg EXCEPT ![x] = t]
  /\ pc' = [pc EXCEPT ![x] = "submit"]
  /\ UNCHANGED <<job, taskQueue, running, mutex, stopper>>

WaitForRoom(x) ==
  /\ pc[x] = "submit"
  /\ mutex = None
  /\ Len(taskQueue) >= MaxQueueSize
  /\ pc' = [pc EXCEPT ![x] = "blocked"]
  /\ UNCHANGED <<job, arg, taskQueue, running, mutex, stopper>>

\* The bound is off by one.
Push_Fault(x) ==
  /\ pc[x] = "submit"
  /\ mutex = None
  /\ Len(taskQueue) <= MaxQueueSize
  /\ taskQueue' = Append(taskQueue, arg[x])
  /\ arg' = [arg EXCEPT ![x] = None]
  /\ \E woken \in NotifyOne(Asleep) :
        pc' = [Woken(woken) EXCEPT ![x] = IF x \in Worker THEN "run"
                                                          ELSE "idle"]
  /\ UNCHANGED <<job, running, mutex, stopper>>

\* notEmpty_ is notified only when the queue was empty.
Push_Fault2(x) ==
  /\ pc[x] = "submit"
  /\ mutex = None
  /\ Len(taskQueue) < MaxQueueSize
  /\ taskQueue' = Append(taskQueue, arg[x])
  /\ arg' = [arg EXCEPT ![x] = None]
  /\ \E woken \in NotifyOne(IF taskQueue = <<>> THEN Asleep ELSE {}) :
        pc' = [Woken(woken) EXCEPT ![x] = IF x \in Worker THEN "run"
                                                          ELSE "idle"]
  /\ UNCHANGED <<job, running, mutex, stopper>>

\* A waiting worker is notified.
Push(x) ==
  /\ pc[x] = "submit"
  /\ mutex = None
  /\ Len(taskQueue) < MaxQueueSize
  /\ taskQueue' = Append(taskQueue, arg[x])
  /\ arg' = [arg EXCEPT ![x] = None]
  /\ \E woken \in NotifyOne(Asleep) :
        pc' = [Woken(woken) EXCEPT ![x] = IF x \in Worker THEN "run"
                                                          ELSE "idle"]
  /\ UNCHANGED <<job, running, mutex, stopper>>

\* Either condition variable may wake a thread that nobody notified.
SpuriousWakeup(x) ==
  /\ x \in Asleep \cup Blocked
  /\ pc' = Woken({x})
  /\ UNCHANGED <<job, arg, taskQueue, running, mutex, stopper>>

-----------------------------------------------------------------------------
(* stop(), also called by the destructor. *)

Stop ==
  /\ stopper = "idle"
  /\ running' = FALSE
  /\ stopper' = "cleared"
  /\ UNCHANGED <<pc, job, arg, taskQueue, mutex>>

\* notify_all() without the mutex.
NotifyAll_Fault ==
  /\ stopper = "cleared"
  /\ pc' = Woken(Asleep)
  /\ stopper' = "joining"
  /\ UNCHANGED <<job, arg, taskQueue, running, mutex>>

\* The mutex is taken for the notification.
NotifyAll ==
  /\ stopper = "cleared"
  /\ mutex = None
  /\ pc' = Woken(Asleep)
  /\ stopper' = "joining"
  /\ UNCHANGED <<job, arg, taskQueue, running, mutex>>

Join ==
  /\ stopper = "joining"
  /\ \A w \in Worker : pc[w] = "exited"
  /\ stopper' = "stopped"
  /\ UNCHANGED <<pc, job, arg, taskQueue, running, mutex>>

-----------------------------------------------------------------------------
WorkerStep(w) ==
  \/ TestRunning(w)
  \/ DecideToWait(w)
  \/ Wait(w)
  \/ TakeNothing(w)
  \/ TakeTask(w)

Submit(x) == WaitForRoom(x) \/ Push(x)

Next ==
  \/ \E w \in Worker : WorkerStep(w) \/ TaskReturns(w)
  \/ \E x \in Thread, t \in Task : Call(x, t)
  \/ \E x \in Thread : Submit(x)
  \/ \E x \in Thread : SpuriousWakeup(x)
  \/ Stop
  \/ NotifyAll
  \/ Join

Spec == Init /\ [][Next]_vars

\* A thread that can go on does, and a task returns; no thread is obliged to
\* submit or to stop the pool.  A thread that wants the mutex gets it if it is
\* free again and again (strong fairness): the kernel does not let workers that
\* wake spuriously keep a submitter from it for ever.
FairSpec ==
  /\ Spec
  /\ \A w \in Worker : WF_vars(WorkerStep(w)) /\ WF_vars(TaskReturns(w))
  /\ \A x \in Thread : SF_vars(Submit(x))
  /\ WF_vars(NotifyAll) /\ WF_vars(Join)

-----------------------------------------------------------------------------
(* Properties. *)

\* The pool is a bounded first-in first-out line: no more than maxQueueSize_
\* tasks wait, whoever was blocked, woken or woken for nothing in between, and
\* each is executed in its turn by one worker.
WQ == INSTANCE WorkQueue

ImplementsWorkQueue == WQ!Spec

\* notify_one() is enough for the workers: while one waits, there are at most
\* as many tasks as workers on their way to take() one.
NoTaskOverlooked ==
  running /\ Asleep # {} =>
    Len(taskQueue) <= Cardinality({w \in Worker : pc[w] \in {"test", "take"}})

\* notify_one() is enough for the submitters: while one is blocked, there is no
\* more room than threads on their way to fill it.
NoRoomOverlooked ==
  Blocked # {} =>
    MaxQueueSize - Len(taskQueue)
      <= Cardinality({x \in Thread : pc[x] = "submit"})

\* The test and the wait of take() are not separated by a push: the mutex is
\* held by the worker between the two, and the queue stays empty until it waits.
\* A worker that waits has no task in hand.
MutexInv ==
  /\ \A w \in Worker : pc[w] = "sleep" <=> mutex = w
  /\ mutex # None => taskQueue = <<>>
  /\ \A w \in Worker : job[w] # None => pc[w] \in {"run"} \cup SubmitPC

\* A submitted task is executed, unless the pool is stopped.
EveryTaskRuns ==
  \A t \in Task :
    (t \in Range(taskQueue)) ~> ((\E w \in Worker : job[w] = t) \/ ~running)

\* stop() returns: no worker misses both running_ and the notification.
StopReturns == (stopper = "cleared") ~> (stopper = "stopped")
=============================================================================
