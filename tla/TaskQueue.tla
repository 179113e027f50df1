----------------------------- MODULE TaskQueue -----------------------------
(***************************************************************************)
(* What an event loop promises to the code that hands it tasks: tasks wait *)
(* in one line, are taken from its front, one at a time, and each          *)
(* submission is started at most once.  Nothing is said of which thread    *)
(* submits, of batches or of wakeups.                                      *)
(***************************************************************************)
EXTENDS Sequences

CONSTANTS Task,   \* the tasks; a task is a value that can be submitted again
          None    \* "no task is running"

VARIABLES queue,    \* the tasks submitted and not yet started, oldest first
          running   \* the task being executed, or None

vars == <<queue, running>>

Init ==
  /\ queue = <<>>
  /\ running = None

Submit(t) ==
  /\ queue' = Append(queue, t)
  /\ UNCHANGED running

Start ==
  /\ running = None
  /\ queue # <<>>
  /\ running' = Head(queue)
  /\ queue' = Tail(queue)

Finish ==
  /\ running # None
  /\ running' = None
  /\ UNCHANGED queue

Next ==
  \/ \E t \in Task : Submit(t)
  \/ Start
  \/ Finish

Spec == Init /\ [][Next]_vars
=============================================================================
