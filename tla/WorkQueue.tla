----------------------------- MODULE WorkQueue -----------------------------
(***************************************************************************)
(* What a thread pool promises to the code that hands it tasks: a bounded  *)
(* line of tasks, each taken from its front by one worker, at most once    *)
(* per submission, every worker executing one task at a time.  Nothing is  *)
(* said of locks, of condition variables or of how a worker or a submitter *)
(* waits.                                                                  *)
(***************************************************************************)
EXTENDS Naturals, Sequences

CONSTANTS Worker,         \* the threads of the pool
          Task,           \* the tasks; a task may be submitted again
          None,           \* "no task"
          MaxQueueSize    \* the capacity of the line

VARIABLES taskQueue,   \* the tasks waiting, oldest first
          job          \* for each worker, the task it executes, or None

vars == <<taskQueue, job>>

Init ==
  /\ taskQueue = <<>>
  /\ job = [w \in Worker |-> None]

Submit(t) ==
  /\ Len(taskQueue) < MaxQueueSize
  /\ taskQueue' = Append(taskQueue, t)
  /\ UNCHANGED job

Start(w) ==
  /\ job[w] = None
  /\ taskQueue # <<>>
  /\ job' = [job EXCEPT ![w] = Head(taskQueue)]
  /\ taskQueue' = Tail(taskQueue)

Finish(w) ==
  /\ job[w] # None
  /\ job' = [job EXCEPT ![w] = None]
  /\ UNCHANGED taskQueue

Next ==
  \/ \E t \in Task : Submit(t)
  \/ \E w \in Worker : Start(w) \/ Finish(w)

Spec == Init /\ [][Next]_vars
=============================================================================
