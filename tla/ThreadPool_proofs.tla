------------------------- MODULE ThreadPool_proofs -------------------------
(***************************************************************************)
(* Machine-checked proofs about ThreadPool, for any number of workers,     *)
(* producers and tasks and any capacity of the queue: the pool is a        *)
(* bounded first-in first-out line, and notify_one() overlooks neither a   *)
(* task nor room.                                                          *)
(***************************************************************************)
EXTENDS ThreadPool, FiniteSetTheorems, SequenceTheorems, TLAPS

\* A thread inside runTask() has a task to submit.
ArgInv == \A x \in Thread : pc[x] \in SubmitPC => arg[x] \in Task

PoolInv == TypeOK /\ MutexInv /\ ArgInv

-----------------------------------------------------------------------------
(* What a notification does to the threads. *)

LEMMA NotifyOneWakes ==
  ASSUME NEW waiting, NEW woken \in NotifyOne(waiting)
  PROVE  /\ woken \subseteq waiting
         /\ waiting = {} => woken = {}
         /\ waiting # {} => \E x \in waiting : woken = {x}
  BY DEF NotifyOne

\* Waking threads that wait leaves the others where they are, and sends a
\* worker back to take() and a submitter back to runTask().
LEMMA WokenLemma ==
  ASSUME TypeOK, NEW woken, woken \subseteq Asleep \cup Blocked
  PROVE  /\ Woken(woken) \in [Thread -> WorkerPC \cup SubmitPC \cup {"idle"}]
         /\ \A w \in Worker : Woken(woken)[w] # "idle"
         /\ \A p \in Producer : Woken(woken)[p] \in SubmitPC \cup {"idle"}
         /\ \A x \in Thread :
              /\ x \notin woken => Woken(woken)[x] = pc[x]
              /\ x \in woken /\ pc[x] = "asleep" => Woken(woken)[x] = "take"
              /\ x \in woken /\ pc[x] = "blocked"
                   => Woken(woken)[x] = "submit"
              /\ x \in woken => pc[x] \in {"asleep", "blocked"}
<1> DEFINE f == Woken(woken)
<1>1. /\ pc \in [Thread -> WorkerPC \cup SubmitPC \cup {"idle"}]
      /\ \A w \in Worker : pc[w] # "idle"
      /\ \A p \in Producer : pc[p] \in SubmitPC \cup {"idle"}
  BY DEF TypeOK
<1>2. \A x \in woken : pc[x] \in {"asleep", "blocked"}
  BY DEF Asleep, Blocked
<1>3. \A x \in Thread :
        f[x] = IF x \notin woken THEN pc[x]
               ELSE IF pc[x] = "asleep" THEN "take" ELSE "submit"
  BY DEF Woken
<1>4. f \in [Thread -> WorkerPC \cup SubmitPC \cup {"idle"}]
  BY <1>1 DEF Woken, WorkerPC, SubmitPC
<1> HIDE DEF f
<1>5. \A w \in Worker : f[w] # "idle"
  BY <1>1, <1>3 DEF Thread
<1>6. \A p \in Producer : f[p] \in SubmitPC \cup {"idle"}
  BY <1>1, <1>2, <1>3 DEF Thread, SubmitPC
<1>7. \A x \in Thread :
         /\ x \notin woken => f[x] = pc[x]
         /\ x \in woken /\ pc[x] = "asleep" => f[x] = "take"
         /\ x \in woken /\ pc[x] = "blocked" => f[x] = "submit"
         /\ x \in woken => pc[x] \in {"asleep", "blocked"}
  BY <1>2, <1>3
<1> QED  BY <1>4, <1>5, <1>6, <1>7 DEF f

\* What every step that moves one thread and wakes others does to pc.
LEMMA MoveLemma ==
  ASSUME TypeOK, NEW woken, woken \subseteq Asleep \cup Blocked,
         NEW x \in Thread, NEW to \in WorkerPC \cup SubmitPC \cup {"idle"},
         x \in Worker => to # "idle",
         x \in Producer => to \in SubmitPC \cup {"idle"},
         pc' = [Woken(woken) EXCEPT ![x] = to]
  PROVE  /\ pc' \in [Thread -> WorkerPC \cup SubmitPC \cup {"idle"}]
         /\ \A w \in Worker : pc'[w] # "idle"
         /\ \A p \in Producer : pc'[p] \in SubmitPC \cup {"idle"}
         /\ pc'[x] = to
         /\ \A y \in Thread : y # x => pc'[y] = Woken(woken)[y]
<1>1. Woken(woken) \in [Thread -> WorkerPC \cup SubmitPC \cup {"idle"}]
  BY WokenLemma
<1>2. pc'[x] = to /\ \A y \in Thread : y # x => pc'[y] = Woken(woken)[y]
  BY <1>1
<1>3. pc' \in [Thread -> WorkerPC \cup SubmitPC \cup {"idle"}]
  BY <1>1
<1>4. \A w \in Worker : pc'[w] # "idle"
  <2> TAKE w \in Worker
  <2>1. w \in Thread
    BY DEF Thread
  <2>2. CASE w = x
    BY <1>2, <2>2
  <2>3. CASE w # x
    BY <1>2, <2>1, <2>3, WokenLemma
  <2> QED  BY <2>2, <2>3
<1>5. \A p \in Producer : pc'[p] \in SubmitPC \cup {"idle"}
  <2> TAKE p \in Producer
  <2>1. p \in Thread
    BY DEF Thread
  <2>2. CASE p = x
    BY <1>2, <2>2
  <2>3. CASE p # x
    BY <1>2, <2>1, <2>3, WokenLemma
  <2> QED  BY <2>2, <2>3
<1> QED  BY <1>2, <1>3, <1>4, <1>5

-----------------------------------------------------------------------------
LEMMA PoolInit == Init => PoolInv
<1> SUFFICES ASSUME Init  PROVE PoolInv
  OBVIOUS
<1>1. TypeOK
  BY ThreadPoolAssumption
  DEF Init, TypeOK, Thread, WorkerPC, SubmitPC
<1>2. MutexInv
  BY ThreadPoolAssumption DEF Init, MutexInv, Thread
<1>3. ArgInv
  BY DEF Init, ArgInv, SubmitPC
<1> QED  BY <1>1, <1>2, <1>3 DEF PoolInv

-----------------------------------------------------------------------------
LEMMA TypeStep == PoolInv /\ [Next]_vars => TypeOK'
<1> SUFFICES ASSUME TypeOK, ArgInv, [Next]_vars  PROVE TypeOK'
  BY DEF PoolInv
<1> USE ThreadPoolAssumption
<1>1. ASSUME NEW w \in Worker, TestRunning(w)  PROVE TypeOK'
  BY <1>1 DEF TestRunning, TypeOK, Thread, WorkerPC, SubmitPC
<1>2. ASSUME NEW w \in Worker, DecideToWait(w)  PROVE TypeOK'
  BY <1>2 DEF DecideToWait, TypeOK, Thread, WorkerPC, SubmitPC
<1>3. ASSUME NEW w \in Worker, Wait(w)  PROVE TypeOK'
  BY <1>3 DEF Wait, TypeOK, Thread, WorkerPC, SubmitPC
<1>4. ASSUME NEW w \in Worker, TakeNothing(w)  PROVE TypeOK'
  BY <1>4 DEF TakeNothing, TypeOK, Thread, WorkerPC, SubmitPC
<1>5. ASSUME NEW w \in Worker, TakeTask(w)  PROVE TypeOK'
  <2>1. PICK woken \in NotifyOne(Blocked) :
             pc' = [Woken(woken) EXCEPT ![w] = "run"]
    BY <1>5 DEF TakeTask
  <2>2. woken \subseteq Asleep \cup Blocked
    BY <2>1, NotifyOneWakes
  <2>3. w \in Thread /\ w \notin Producer
    BY DEF Thread
  <2>4. "run" \in WorkerPC \cup SubmitPC \cup {"idle"} /\ "run" # "idle"
    BY DEF WorkerPC
  <2>5. /\ pc' \in [Thread -> WorkerPC \cup SubmitPC \cup {"idle"}]
        /\ \A v \in Worker : pc'[v] # "idle"
        /\ \A p \in Producer : pc'[p] \in SubmitPC \cup {"idle"}
    BY <2>1, <2>2, <2>3, <2>4, MoveLemma
  <2>6. /\ taskQueue \in Seq(Task) /\ taskQueue # <<>>
        /\ job' = [job EXCEPT ![w] = Head(taskQueue)]
        /\ taskQueue' = Tail(taskQueue)
    BY <1>5 DEF TakeTask, TypeOK
  <2>7. Head(taskQueue) \in Task /\ taskQueue' \in Seq(Task)
    BY <2>6, HeadTailProperties
  <2>8. job' \in [Worker -> Task \cup {None}]
    BY <2>6, <2>7 DEF TypeOK
  <2> QED  BY <1>5, <2>5, <2>7, <2>8 DEF TakeTask, TypeOK
<1>6. ASSUME NEW w \in Worker, TaskReturns(w)  PROVE TypeOK'
  BY <1>6 DEF TaskReturns, TypeOK, Thread, WorkerPC, SubmitPC
<1>7. ASSUME NEW x \in Thread, NEW t \in Task, Call(x, t)  PROVE TypeOK'
  BY <1>7 DEF Call, TypeOK, Thread, WorkerPC, SubmitPC
<1>8. ASSUME NEW x \in Thread, WaitForRoom(x)  PROVE TypeOK'
  BY <1>8 DEF WaitForRoom, TypeOK, Thread, WorkerPC, SubmitPC
<1>9. ASSUME NEW x \in Thread, Push(x)  PROVE TypeOK'
  <2> DEFINE to == IF x \in Worker THEN "run" ELSE "idle"
  <2>1. PICK woken \in NotifyOne(Asleep) :
             pc' = [Woken(woken) EXCEPT ![x] = to]
    BY <1>9 DEF Push
  <2>2. woken \subseteq Asleep \cup Blocked
    BY <2>1, NotifyOneWakes
  <2>3. /\ to \in WorkerPC \cup SubmitPC \cup {"idle"}
        /\ x \in Worker => to # "idle"
        /\ x \in Producer => to \in SubmitPC \cup {"idle"}
    BY DEF WorkerPC
  <2> HIDE DEF to
  <2>4. /\ pc' \in [Thread -> WorkerPC \cup SubmitPC \cup {"idle"}]
        /\ \A v \in Worker : pc'[v] # "idle"
        /\ \A p \in Producer : pc'[p] \in SubmitPC \cup {"idle"}
    BY <2>1, <2>2, <2>3, MoveLemma
  <2>5. arg[x] \in Task
    BY <1>9 DEF Push, ArgInv, SubmitPC
  <2>6. taskQueue' \in Seq(Task)
    BY <1>9, <2>5, AppendProperties DEF Push, TypeOK
  <2>7. arg' \in [Thread -> Task \cup {None}]
    BY <1>9 DEF Push, TypeOK
  <2> QED  BY <1>9, <2>4, <2>6, <2>7 DEF Push, TypeOK
<1>10. ASSUME NEW x \in Thread, SpuriousWakeup(x)  PROVE TypeOK'
  <2>1. {x} \subseteq Asleep \cup Blocked /\ pc' = Woken({x})
    BY <1>10 DEF SpuriousWakeup
  <2> QED  BY <1>10, <2>1, WokenLemma DEF SpuriousWakeup, TypeOK
<1>11. CASE Stop
  BY <1>11 DEF Stop, TypeOK
<1>12. CASE NotifyAll
  BY <1>12, WokenLemma DEF NotifyAll, TypeOK
<1>13. CASE Join
  BY <1>13 DEF Join, TypeOK
<1>14. CASE UNCHANGED vars
  BY <1>14 DEF vars, TypeOK
<1> QED
  BY <1>1, <1>2, <1>3, <1>4, <1>5, <1>6, <1>7, <1>8, <1>9, <1>10, <1>11,
     <1>12, <1>13, <1>14 DEF Next, WorkerStep, Submit

\* Who holds the mutex, what a worker has in hand and what a submitter submits.
LEMMA MutexStep == PoolInv /\ [Next]_vars => MutexInv' /\ ArgInv'
<1> SUFFICES ASSUME TypeOK, MutexInv, ArgInv, [Next]_vars
             PROVE  MutexInv' /\ ArgInv'
  BY DEF PoolInv
<1> USE ThreadPoolAssumption DEF MutexInv, ArgInv, SubmitPC
<1>0. /\ pc \in [Thread -> WorkerPC \cup SubmitPC \cup {"idle"}]
      /\ job \in [Worker -> Task \cup {None}]
      /\ arg \in [Thread -> Task \cup {None}]
      /\ Worker \subseteq Thread
  BY DEF TypeOK, Thread
<1>1. ASSUME NEW w \in Worker, TestRunning(w)  PROVE MutexInv' /\ ArgInv'
  BY <1>0, <1>1 DEF TestRunning
<1>2. ASSUME NEW w \in Worker, DecideToWait(w)  PROVE MutexInv' /\ ArgInv'
  BY <1>0, <1>2 DEF DecideToWait
<1>3. ASSUME NEW w \in Worker, Wait(w)  PROVE MutexInv' /\ ArgInv'
  BY <1>0, <1>3 DEF Wait
<1>4. ASSUME NEW w \in Worker, TakeNothing(w)  PROVE MutexInv' /\ ArgInv'
  BY <1>0, <1>4 DEF TakeNothing
<1>5. ASSUME NEW w \in Worker, TakeTask(w)  PROVE MutexInv' /\ ArgInv'
  <2>1. PICK woken \in NotifyOne(Blocked) :
             pc' = [Woken(woken) EXCEPT ![w] = "run"]
    BY <1>5 DEF TakeTask
  <2>2. woken \subseteq Asleep \cup Blocked
    BY <2>1, NotifyOneWakes
  <2>3. "run" \in WorkerPC \cup SubmitPC \cup {"idle"} /\ w \notin Producer
    BY DEF WorkerPC
  <2>4. /\ pc'[w] = "run"
        /\ \A y \in Thread : y # w => pc'[y] = Woken(woken)[y]
    BY <1>0, <2>1, <2>2, <2>3, MoveLemma
  <2>5. /\ mutex = None /\ mutex' = None /\ arg' = arg
        /\ job' = [job EXCEPT ![w] = Head(taskQueue)]
    BY <1>5 DEF TakeTask
  <2>6. \A y \in Thread : y # w => \/ pc'[y] = pc[y]
                                   \/ pc[y] = "asleep" /\ pc'[y] = "take"
                                   \/ pc[y] = "blocked" /\ pc'[y] = "submit"
    BY <2>2, <2>4, WokenLemma
  <2> QED  BY <1>0, <2>4, <2>5, <2>6
<1>6. ASSUME NEW w \in Worker, TaskReturns(w)  PROVE MutexInv' /\ ArgInv'
  BY <1>0, <1>6 DEF TaskReturns
<1>7. ASSUME NEW x \in Thread, NEW t \in Task, Call(x, t)
      PROVE  MutexInv' /\ ArgInv'
  BY <1>0, <1>7 DEF Call
<1>8. ASSUME NEW x \in Thread, WaitForRoom(x)  PROVE MutexInv' /\ ArgInv'
  BY <1>0, <1>8 DEF WaitForRoom
<1>9. ASSUME NEW x \in Thread, Push(x)  PROVE MutexInv' /\ ArgInv'
  <2> DEFINE to == IF x \in Worker THEN "run" ELSE "idle"
  <2>1. PICK woken \in NotifyOne(Asleep) :
             pc' = [Woken(woken) EXCEPT ![x] = to]
    BY <1>9 DEF Push
  <2>2. woken \subseteq Asleep \cup Blocked
    BY <2>1, NotifyOneWakes
  <2>3. /\ to \in WorkerPC \cup SubmitPC \cup {"idle"}
        /\ x \in Worker => to = "run"
        /\ x \in Producer => to \in SubmitPC \cup {"idle"}
        /\ to \in {"run", "idle"}
    BY DEF WorkerPC
  <2> HIDE DEF to
  <2>4. pc'[x] = to /\ \A y \in Thread : y # x => pc'[y] = Woken(woken)[y]
    <3>1. /\ x \in Worker => to # "idle"
          /\ x \in Producer => to \in SubmitPC \cup {"idle"}
          /\ to \in WorkerPC \cup SubmitPC \cup {"idle"}
      BY <2>3
    <3>2. pc' = [Woken(woken) EXCEPT ![x] = to]
      BY <2>1
    <3> QED  BY <2>2, <3>1, <3>2, MoveLemma
  <2>5. /\ mutex = None /\ mutex' = None /\ job' = job
        /\ arg' = [arg EXCEPT ![x] = None] /\ pc[x] = "submit"
    BY <1>9 DEF Push
  <2>6. \A y \in Thread : y # x => \/ pc'[y] = pc[y]
                                   \/ pc[y] = "asleep" /\ pc'[y] = "take"
                                   \/ pc[y] = "blocked" /\ pc'[y] = "submit"
    BY <2>2, <2>4, WokenLemma
  <2> QED  BY <1>0, <2>3, <2>4, <2>5, <2>6
<1>10. ASSUME NEW woken, woken \subseteq Asleep \cup Blocked,
              pc' = Woken(woken), UNCHANGED <<job, arg, taskQueue, mutex>>
       PROVE  MutexInv' /\ ArgInv'
  <2>1. \A y \in Thread : \/ pc'[y] = pc[y]
                          \/ pc[y] = "asleep" /\ pc'[y] = "take"
                          \/ pc[y] = "blocked" /\ pc'[y] = "submit"
    BY <1>10, WokenLemma
  <2> QED  BY <1>0, <1>10, <2>1
<1>11. ASSUME NEW x \in Thread, SpuriousWakeup(x)  PROVE MutexInv' /\ ArgInv'
  BY <1>10, <1>11 DEF SpuriousWakeup
<1>12. CASE Stop
  BY <1>12 DEF Stop
<1>13. CASE NotifyAll
  BY <1>10, <1>13 DEF NotifyAll
<1>14. CASE Join
  BY <1>14 DEF Join
<1>15. CASE UNCHANGED vars
  BY <1>15 DEF vars
<1> QED
  BY <1>1, <1>2, <1>3, <1>4, <1>5, <1>6, <1>7, <1>8, <1>9, <1>11, <1>12,
     <1>13, <1>14, <1>15 DEF Next, WorkerStep, Submit

LEMMA PoolInvariant == Spec => []PoolInv
<1>1. PoolInv /\ [Next]_vars => PoolInv'
  BY TypeStep, MutexStep DEF PoolInv
<1> QED  BY <1>1, PoolInit, PTL DEF Spec

\* Every thread is where it can be and every queued task was submitted.
THEOREM TypeCorrect == Spec => []TypeOK
<1>1. PoolInv => TypeOK
  BY DEF PoolInv
<1> QED  BY <1>1, PoolInvariant, PTL

\* No push separates the test and the wait of take().
THEOREM MutexHeld == Spec => []MutexInv
<1>1. PoolInv => MutexInv
  BY DEF PoolInv
<1> QED  BY <1>1, PoolInvariant, PTL

-----------------------------------------------------------------------------
(* The pool implements the bounded line of tasks. *)

LEMMA RefinementInit == Init => WQ!Init
  BY DEF Init, WQ!Init

\* Three steps touch the queue or what a worker executes; the rest are unseen.
LEMMA RefinementStep == PoolInv /\ [Next]_vars => [WQ!Next]_WQ!vars
<1> SUFFICES ASSUME TypeOK, MutexInv, ArgInv, [Next]_vars
             PROVE  [WQ!Next]_WQ!vars
  BY DEF PoolInv
<1> DEFINE Unseen == UNCHANGED <<taskQueue, job>>
<1>1. Unseen => [WQ!Next]_WQ!vars
  BY DEF WQ!vars
<1>2. ASSUME NEW w \in Worker, TakeTask(w)  PROVE [WQ!Next]_WQ!vars
  <2>1. job[w] = None
    BY <1>2 DEF TakeTask, MutexInv, SubmitPC
  <2>2. WQ!Start(w)
    BY <1>2, <2>1 DEF TakeTask, WQ!Start
  <2> QED  BY <2>2 DEF WQ!Next
<1>3. ASSUME NEW w \in Worker, TaskReturns(w)  PROVE [WQ!Next]_WQ!vars
  <2>1. CASE job[w] = None
    <3>1. job' = job
      BY <1>3, <2>1 DEF TaskReturns, TypeOK
    <3> QED  BY <1>3, <3>1 DEF TaskReturns, WQ!vars
  <2>2. CASE job[w] # None
    <3>1. WQ!Finish(w)
      BY <1>3, <2>2 DEF TaskReturns, WQ!Finish
    <3> QED  BY <3>1 DEF WQ!Next
  <2> QED  BY <2>1, <2>2
<1>4. ASSUME NEW x \in Thread, Push(x)  PROVE [WQ!Next]_WQ!vars
  <2>1. arg[x] \in Task
    BY <1>4 DEF Push, ArgInv, SubmitPC
  <2>2. WQ!Submit(arg[x])
    BY <1>4 DEF Push, WQ!Submit
  <2> QED  BY <2>1, <2>2 DEF WQ!Next
<1>5. ASSUME NEW w \in Worker, \/ TestRunning(w) \/ DecideToWait(w)
                               \/ Wait(w) \/ TakeNothing(w)
      PROVE  Unseen
  BY <1>5 DEF TestRunning, DecideToWait, Wait, TakeNothing
<1>6. ASSUME NEW x \in Thread, NEW t \in Task, Call(x, t)  PROVE Unseen
  BY <1>6 DEF Call
<1>7. ASSUME NEW x \in Thread, WaitForRoom(x) \/ SpuriousWakeup(x)
      PROVE  Unseen
  BY <1>7 DEF WaitForRoom, SpuriousWakeup
<1>8. ASSUME Stop \/ NotifyAll \/ Join \/ UNCHANGED vars  PROVE Unseen
  BY <1>8 DEF Stop, NotifyAll, Join, vars
<1> QED
  BY <1>1, <1>2, <1>3, <1>4, <1>5, <1>6, <1>7, <1>8
  DEF Next, WorkerStep, Submit

\* The pool is a bounded first-in first-out line, each task of which is
\* executed in its turn by one worker, whatever the threads interleave.
THEOREM IsWorkQueue == Spec => ImplementsWorkQueue
BY RefinementInit, RefinementStep, PoolInvariant, PTL
DEF Spec, ImplementsWorkQueue, WQ!Spec

-----------------------------------------------------------------------------
(* notify_one() overlooks no room.  The two counts move together: a push    *)
(* takes one from each, a take adds one to each.                            *)

Submitting == {x \in Thread : pc[x] = "submit"}

LEMMA ThreadsFinite ==
  \A T \in SUBSET Thread : IsFiniteSet(T) /\ Cardinality(T) \in Nat
<1>1. IsFiniteSet(Thread)
  BY ThreadPoolAssumption, FS_Union DEF Thread
<1> QED  BY <1>1, FS_Subset, FS_CardinalityType

\* A set of threads that loses none has no fewer members.
LEMMA MoreThreads ==
  ASSUME NEW S \in SUBSET Thread, NEW T \in SUBSET Thread, S \subseteq T
  PROVE  Cardinality(S) <= Cardinality(T)
  BY ThreadsFinite, FS_Subset

LEMMA OneMoreThread ==
  ASSUME NEW S \in SUBSET Thread, NEW T \in SUBSET Thread, NEW x \in Thread,
         x \notin S, S \cup {x} \subseteq T
  PROVE  Cardinality(S) + 1 <= Cardinality(T)
<1>1. Cardinality(S \cup {x}) = Cardinality(S) + 1
  BY ThreadsFinite, FS_AddElement
<1>2. Cardinality(S \cup {x}) <= Cardinality(T)
  BY MoreThreads
<1> QED  BY <1>1, <1>2

LEMMA OneLessThread ==
  ASSUME NEW S \in SUBSET Thread, NEW T \in SUBSET Thread, NEW x \in Thread,
         S \ {x} \subseteq T
  PROVE  Cardinality(S) - 1 <= Cardinality(T)
<1>1. Cardinality(S \ {x}) = IF x \in S THEN Cardinality(S) - 1
                                        ELSE Cardinality(S)
  BY ThreadsFinite, FS_RemoveElement
<1>2. Cardinality(S \ {x}) <= Cardinality(T)
  BY MoreThreads
<1>3. Cardinality(S) \in Nat /\ Cardinality(T) \in Nat
  BY ThreadsFinite
<1> QED  BY <1>1, <1>2, <1>3

\* The step of NoRoomOverlooked when nobody new is blocked, the submitters on
\* their way stay so and the queue does not shrink.
LEMMA NoNewRoom ==
  ASSUME TypeOK, NoRoomOverlooked, Submitting \subseteq Submitting',
         Blocked' \subseteq Blocked, taskQueue' = taskQueue
  PROVE  NoRoomOverlooked'
<1>1. Submitting \in SUBSET Thread /\ Submitting' \in SUBSET Thread
  BY DEF Submitting
<1>2. Cardinality(Submitting) <= Cardinality(Submitting')
  BY <1>1, MoreThreads
<1>3. Cardinality(Submitting) \in Nat /\ Cardinality(Submitting') \in Nat
  BY <1>1, ThreadsFinite
<1>4. Len(taskQueue) \in Nat /\ MaxQueueSize \in Nat
  BY ThreadPoolAssumption, LenProperties DEF TypeOK
<1> QED
  BY <1>2, <1>3, <1>4 DEF NoRoomOverlooked, Submitting

LEMMA RoomStep ==
  PoolInv /\ NoRoomOverlooked /\ [Next]_vars => NoRoomOverlooked'
<1> SUFFICES ASSUME PoolInv, TypeOK, NoRoomOverlooked, [Next]_vars
             PROVE  NoRoomOverlooked'
  BY DEF PoolInv
<1>0. /\ pc \in [Thread -> WorkerPC \cup SubmitPC \cup {"idle"}]
      /\ Worker \subseteq Thread
      /\ Len(taskQueue) \in Nat /\ MaxQueueSize \in Nat
      /\ Submitting \in SUBSET Thread /\ Submitting' \in SUBSET Thread
      /\ Cardinality(Submitting) \in Nat /\ Cardinality(Submitting') \in Nat
  BY ThreadPoolAssumption, LenProperties, ThreadsFinite
  DEF TypeOK, Thread, Submitting
<1>1. ASSUME NEW w \in Worker, \/ TestRunning(w) \/ DecideToWait(w)
                               \/ Wait(w) \/ TakeNothing(w) \/ TaskReturns(w)
      PROVE  NoRoomOverlooked'
  <2>1. taskQueue' = taskQueue
    BY <1>1 DEF TestRunning, DecideToWait, Wait, TakeNothing, TaskReturns
  <2>2. \A y \in Thread : /\ pc[y] = "submit" => pc'[y] = "submit"
                          /\ pc'[y] = "blocked" => pc[y] = "blocked"
    BY <1>0, <1>1 DEF TestRunning, DecideToWait, Wait, TakeNothing, TaskReturns
  <2>3. Submitting \subseteq Submitting' /\ Blocked' \subseteq Blocked
    BY <2>2 DEF Submitting, Blocked
  <2> QED  BY <2>1, <2>3, NoNewRoom
<1>2. ASSUME NEW w \in Worker, TakeTask(w)  PROVE NoRoomOverlooked'
  <2>1. PICK woken \in NotifyOne(Blocked) :
             pc' = [Woken(woken) EXCEPT ![w] = "run"]
    BY <1>2 DEF TakeTask
  <2>2. woken \subseteq Asleep \cup Blocked
    BY <2>1, NotifyOneWakes
  <2>3. "run" \in WorkerPC \cup SubmitPC \cup {"idle"} /\ w \notin Producer
    BY ThreadPoolAssumption DEF WorkerPC
  <2>4. /\ pc'[w] = "run"
        /\ \A y \in Thread : y # w => pc'[y] = Woken(woken)[y]
    BY <1>0, <2>1, <2>2, <2>3, MoveLemma
  <2>5. pc[w] = "take"
    BY <1>2 DEF TakeTask
  <2>6. Submitting \subseteq Submitting' /\ Blocked' \subseteq Blocked
    <3>1. \A y \in Thread : /\ pc[y] = "submit" => pc'[y] = "submit"
                            /\ pc'[y] = "blocked" => pc[y] = "blocked"
      BY <2>2, <2>4, <2>5, WokenLemma
    <3> QED  BY <3>1 DEF Submitting, Blocked
  <2>7. Len(taskQueue') = Len(taskQueue) - 1
    <3>1. taskQueue \in Seq(Task) /\ taskQueue # <<>>
          /\ taskQueue' = Tail(taskQueue)
      BY <1>2 DEF TakeTask, TypeOK
    <3> QED  BY <3>1, HeadTailProperties
  <2>8. ASSUME Blocked # {}
        PROVE  Cardinality(Submitting) + 1 <= Cardinality(Submitting')
    <3>1. PICK x \in Blocked : woken = {x}
      BY <2>1, <2>8, NotifyOneWakes
    <3>2. x \in Thread /\ pc[x] = "blocked"
      BY DEF Blocked
    <3>3. pc'[x] = "submit"
      BY <2>2, <2>4, <2>5, <3>1, <3>2, WokenLemma
    <3>4. x \notin Submitting /\ x \in Submitting'
      BY <3>2, <3>3 DEF Submitting
    <3> QED  BY <1>0, <2>6, <3>2, <3>4, OneMoreThread
  <2>9. CASE Blocked = {}
    BY <2>6, <2>9 DEF NoRoomOverlooked
  <2>10. CASE Blocked # {}
    <3>1. MaxQueueSize - Len(taskQueue) <= Cardinality(Submitting)
      BY <2>10 DEF NoRoomOverlooked, Submitting
    <3>2. MaxQueueSize - Len(taskQueue') <= Cardinality(Submitting')
      BY <1>0, <2>7, <2>8, <2>10, <3>1
    <3> QED  BY <3>2 DEF NoRoomOverlooked, Submitting
  <2> QED  BY <2>9, <2>10
<1>3. ASSUME NEW x \in Thread, NEW t \in Task, Call(x, t)
      PROVE  NoRoomOverlooked'
  <2>1. \A y \in Thread : /\ pc[y] = "submit" => pc'[y] = "submit"
                          /\ pc'[y] = "blocked" => pc[y] = "blocked"
    BY <1>0, <1>3 DEF Call
  <2>2. Submitting \subseteq Submitting' /\ Blocked' \subseteq Blocked
    BY <2>1 DEF Submitting, Blocked
  <2> QED  BY <1>3, <2>2, NoNewRoom DEF Call
<1>4. ASSUME NEW x \in Thread, WaitForRoom(x)  PROVE NoRoomOverlooked'
  <2>1. taskQueue' = taskQueue /\ Len(taskQueue) >= MaxQueueSize
    BY <1>4 DEF WaitForRoom
  <2>2. MaxQueueSize - Len(taskQueue') <= Cardinality(Submitting')
    BY <1>0, <2>1
  <2> QED  BY <2>2 DEF NoRoomOverlooked, Submitting
<1>5. ASSUME NEW x \in Thread, Push(x)  PROVE NoRoomOverlooked'
  <2> DEFINE to == IF x \in Worker THEN "run" ELSE "idle"
  <2>1. PICK woken \in NotifyOne(Asleep) :
             pc' = [Woken(woken) EXCEPT ![x] = to]
    BY <1>5 DEF Push
  <2>2. woken \subseteq Asleep /\ woken \subseteq Asleep \cup Blocked
    BY <2>1, NotifyOneWakes
  <2>3. /\ to \in WorkerPC \cup SubmitPC \cup {"idle"}
        /\ x \in Worker => to # "idle"
        /\ x \in Producer => to \in SubmitPC \cup {"idle"}
        /\ to \in {"run", "idle"}
    BY ThreadPoolAssumption DEF WorkerPC
  <2> HIDE DEF to
  <2>4. pc'[x] = to /\ \A y \in Thread : y # x => pc'[y] = Woken(woken)[y]
    BY <2>1, <2>2, <2>3, MoveLemma
  <2>5. \A y \in Thread :
           /\ pc[y] = "submit" /\ y # x => pc'[y] = "submit"
           /\ pc'[y] = "blocked" => pc[y] = "blocked"
    BY <2>2, <2>3, <2>4, WokenLemma
  <2>6. Submitting \ {x} \subseteq Submitting' /\ Blocked' \subseteq Blocked
    BY <2>5 DEF Submitting, Blocked
  <2>7. Cardinality(Submitting) - 1 <= Cardinality(Submitting')
    BY <1>0, <2>6, OneLessThread
  <2>8. Len(taskQueue') = Len(taskQueue) + 1
    BY <1>5, AppendProperties DEF Push, TypeOK
  <2>9. Blocked' # {}
          => MaxQueueSize - Len(taskQueue') <= Cardinality(Submitting')
    BY <1>0, <2>6, <2>7, <2>8 DEF NoRoomOverlooked, Submitting
  <2> QED  BY <2>9 DEF NoRoomOverlooked, Submitting
<1>6. ASSUME NEW woken, woken \subseteq Asleep \cup Blocked,
             pc' = Woken(woken), taskQueue' = taskQueue
      PROVE  NoRoomOverlooked'
  <2>1. \A y \in Thread : /\ pc[y] = "submit" => pc'[y] = "submit"
                          /\ pc'[y] = "blocked" => pc[y] = "blocked"
    BY <1>6, WokenLemma
  <2>2. Submitting \subseteq Submitting' /\ Blocked' \subseteq Blocked
    BY <2>1 DEF Submitting, Blocked
  <2> QED  BY <1>6, <2>2, NoNewRoom
<1>7. ASSUME NEW x \in Thread, SpuriousWakeup(x)  PROVE NoRoomOverlooked'
  BY <1>6, <1>7 DEF SpuriousWakeup
<1>8. CASE NotifyAll
  BY <1>6, <1>8 DEF NotifyAll
<1>9. CASE Stop \/ Join \/ UNCHANGED vars
  BY <1>9 DEF Stop, Join, vars, NoRoomOverlooked, Blocked
<1> QED
  BY <1>1, <1>2, <1>3, <1>4, <1>5, <1>7, <1>8, <1>9
  DEF Next, WorkerStep, Submit

\* While a submitter is blocked there is no more room than threads on their way
\* to fill it: one notify_one() per take() is enough.
THEOREM RoomIsSeen == Spec => []NoRoomOverlooked
<1>1. Init => NoRoomOverlooked
  BY DEF Init, NoRoomOverlooked, Blocked
<1> QED  BY <1>1, RoomStep, PoolInvariant, PTL DEF Spec

-----------------------------------------------------------------------------
(* notify_one() overlooks no task: a push adds one task and wakes one       *)
(* worker, and only a worker that takes a task stops being on its way.      *)

OnTheWay == {w \in Worker : pc[w] \in {"test", "take"}}

\* The step of NoTaskOverlooked when no worker goes to sleep or leaves its way
\* to take() and the queue does not grow.
LEMMA NoNewTask ==
  ASSUME TypeOK, NoTaskOverlooked, OnTheWay \subseteq OnTheWay',
         Asleep' \subseteq Asleep, running' => running,
         taskQueue' = taskQueue
  PROVE  NoTaskOverlooked'
<1>1. OnTheWay \in SUBSET Thread /\ OnTheWay' \in SUBSET Thread
  BY DEF OnTheWay, Thread
<1>2. Cardinality(OnTheWay) <= Cardinality(OnTheWay')
  BY <1>1, MoreThreads
<1>3. Cardinality(OnTheWay) \in Nat /\ Cardinality(OnTheWay') \in Nat
  BY <1>1, ThreadsFinite
<1>4. Len(taskQueue) \in Nat
  BY LenProperties DEF TypeOK
<1> QED
  BY <1>2, <1>3, <1>4 DEF NoTaskOverlooked, OnTheWay

LEMMA TaskStep ==
  PoolInv /\ NoTaskOverlooked /\ [Next]_vars => NoTaskOverlooked'
<1> SUFFICES ASSUME PoolInv, TypeOK, MutexInv, NoTaskOverlooked, [Next]_vars
             PROVE  NoTaskOverlooked'
  BY DEF PoolInv
<1>0. /\ pc \in [Thread -> WorkerPC \cup SubmitPC \cup {"idle"}]
      /\ Worker \subseteq Thread
      /\ Len(taskQueue) \in Nat
      /\ OnTheWay \in SUBSET Thread /\ OnTheWay' \in SUBSET Thread
      /\ Cardinality(OnTheWay) \in Nat /\ Cardinality(OnTheWay') \in Nat
  BY LenProperties, ThreadsFinite DEF TypeOK, Thread, OnTheWay
<1>1. ASSUME NEW w \in Worker, TestRunning(w) \/ TaskReturns(w)
      PROVE  NoTaskOverlooked'
  <2>1. taskQueue' = taskQueue /\ running' = running
    BY <1>1 DEF TestRunning, TaskReturns
  <2>2. CASE running
    <3>1. \A v \in Worker :
             /\ pc[v] \in {"test", "take"} => pc'[v] \in {"test", "take"}
             /\ pc'[v] = "asleep" => pc[v] = "asleep"
      BY <1>0, <1>1, <2>2 DEF TestRunning, TaskReturns
    <3>2. OnTheWay \subseteq OnTheWay' /\ Asleep' \subseteq Asleep
      BY <3>1 DEF OnTheWay, Asleep
    <3> QED  BY <2>1, <3>2, NoNewTask
  <2>3. CASE ~running
    BY <2>1, <2>3 DEF NoTaskOverlooked
  <2> QED  BY <2>2, <2>3
<1>2. ASSUME NEW w \in Worker, DecideToWait(w) \/ Wait(w)
      PROVE  NoTaskOverlooked'
  <2>1. taskQueue = <<>> /\ taskQueue' = <<>>
    BY ThreadPoolAssumption, <1>2 DEF DecideToWait, Wait, MutexInv
  <2>2. Len(taskQueue') <= Cardinality(OnTheWay')
    BY <1>0, <2>1
  <2> QED  BY <2>2 DEF NoTaskOverlooked, OnTheWay
<1>3. ASSUME NEW w \in Worker, TakeNothing(w)  PROVE NoTaskOverlooked'
  BY <1>3 DEF TakeNothing, NoTaskOverlooked
<1>4. ASSUME NEW w \in Worker, TakeTask(w)  PROVE NoTaskOverlooked'
  <2>1. PICK woken \in NotifyOne(Blocked) :
             pc' = [Woken(woken) EXCEPT ![w] = "run"]
    BY <1>4 DEF TakeTask
  <2>2. woken \subseteq Blocked /\ woken \subseteq Asleep \cup Blocked
    BY <2>1, NotifyOneWakes
  <2>3. "run" \in WorkerPC \cup SubmitPC \cup {"idle"} /\ w \notin Producer
    BY ThreadPoolAssumption DEF WorkerPC
  <2>4. /\ pc'[w] = "run"
        /\ \A y \in Thread : y # w => pc'[y] = Woken(woken)[y]
    BY <1>0, <2>1, <2>2, <2>3, MoveLemma
  <2>5. \A v \in Worker :
           /\ v # w /\ pc[v] \in {"test", "take"}
                => pc'[v] \in {"test", "take"}
           /\ pc'[v] = "asleep" => pc[v] = "asleep"
    BY <1>0, <2>2, <2>4, WokenLemma
  <2>6. OnTheWay \ {w} \subseteq OnTheWay' /\ Asleep' \subseteq Asleep
    BY <2>5 DEF OnTheWay, Asleep
  <2>7. Cardinality(OnTheWay) - 1 <= Cardinality(OnTheWay')
    BY <1>0, <2>6, OneLessThread
  <2>8. Len(taskQueue') = Len(taskQueue) - 1
    <3>1. taskQueue \in Seq(Task) /\ taskQueue # <<>>
          /\ taskQueue' = Tail(taskQueue)
      BY <1>4 DEF TakeTask, TypeOK
    <3> QED  BY <3>1, HeadTailProperties
  <2>9. running' = running
    BY <1>4 DEF TakeTask
  <2>10. running' /\ Asleep' # {}
           => Len(taskQueue') <= Cardinality(OnTheWay')
    BY <1>0, <2>6, <2>7, <2>8, <2>9 DEF NoTaskOverlooked, OnTheWay
  <2> QED  BY <2>10 DEF NoTaskOverlooked, OnTheWay
<1>5. ASSUME NEW x \in Thread, NEW t \in Task, Call(x, t)
      PROVE  NoTaskOverlooked'
  <2>1. \A v \in Worker :
           /\ pc[v] \in {"test", "take"} => pc'[v] \in {"test", "take"}
           /\ pc'[v] = "asleep" => pc[v] = "asleep"
    BY <1>0, <1>5 DEF Call
  <2>2. OnTheWay \subseteq OnTheWay' /\ Asleep' \subseteq Asleep
    BY <2>1 DEF OnTheWay, Asleep
  <2> QED  BY <1>5, <2>2, NoNewTask DEF Call
<1>6. ASSUME NEW x \in Thread, WaitForRoom(x)  PROVE NoTaskOverlooked'
  <2>1. \A v \in Worker :
           /\ pc[v] \in {"test", "take"} => pc'[v] \in {"test", "take"}
           /\ pc'[v] = "asleep" => pc[v] = "asleep"
    BY <1>0, <1>6 DEF WaitForRoom
  <2>2. OnTheWay \subseteq OnTheWay' /\ Asleep' \subseteq Asleep
    BY <2>1 DEF OnTheWay, Asleep
  <2> QED  BY <1>6, <2>2, NoNewTask DEF WaitForRoom
<1>7. ASSUME NEW x \in Thread, Push(x)  PROVE NoTaskOverlooked'
  <2> DEFINE to == IF x \in Worker THEN "run" ELSE "idle"
  <2>1. PICK woken \in NotifyOne(Asleep) :
             pc' = [Woken(woken) EXCEPT ![x] = to]
    BY <1>7 DEF Push
  <2>2. woken \subseteq Asleep /\ woken \subseteq Asleep \cup Blocked
    BY <2>1, NotifyOneWakes
  <2>3. /\ to \in WorkerPC \cup SubmitPC \cup {"idle"}
        /\ x \in Worker => to # "idle"
        /\ x \in Producer => to \in SubmitPC \cup {"idle"}
        /\ to \in {"run", "idle"}
    BY ThreadPoolAssumption DEF WorkerPC
  <2> HIDE DEF to
  <2>4. pc'[x] = to /\ \A y \in Thread : y # x => pc'[y] = Woken(woken)[y]
    BY <2>1, <2>2, <2>3, MoveLemma
  <2>5. pc[x] = "submit"
    BY <1>7 DEF Push
  <2>6. \A v \in Worker :
           /\ pc[v] \in {"test", "take"} => pc'[v] \in {"test", "take"}
           /\ pc'[v] = "asleep" => pc[v] = "asleep"
    BY <1>0, <2>2, <2>3, <2>4, <2>5, WokenLemma
  <2>7. OnTheWay \subseteq OnTheWay' /\ Asleep' \subseteq Asleep
    BY <2>6 DEF OnTheWay, Asleep
  <2>8. Len(taskQueue') = Len(taskQueue) + 1 /\ running' = running
    BY <1>7, AppendProperties DEF Push, TypeOK
  <2>9. ASSUME Asleep # {}
        PROVE  Cardinality(OnTheWay) + 1 <= Cardinality(OnTheWay')
    <3>1. PICK y \in Asleep : woken = {y}
      BY <2>1, <2>9, NotifyOneWakes
    <3>2. y \in Worker /\ y \in Thread /\ pc[y] = "asleep" /\ y # x
      BY <2>5 DEF Asleep, Thread
    <3>3. pc'[y] = "take"
      BY <2>2, <2>4, <3>1, <3>2, WokenLemma
    <3>4. y \notin OnTheWay /\ y \in OnTheWay'
      BY <3>2, <3>3 DEF OnTheWay
    <3> QED  BY <1>0, <2>7, <3>2, <3>4, OneMoreThread
  <2>10. running' /\ Asleep' # {}
           => Len(taskQueue') <= Cardinality(OnTheWay')
    BY <1>0, <2>7, <2>8, <2>9 DEF NoTaskOverlooked, OnTheWay
  <2> QED  BY <2>10 DEF NoTaskOverlooked, OnTheWay
<1>8. ASSUME NEW woken, woken \subseteq Asleep \cup Blocked,
             pc' = Woken(woken), UNCHANGED <<taskQueue, running>>
      PROVE  NoTaskOverlooked'
  <2>1. \A v \in Worker :
           /\ pc[v] \in {"test", "take"} => pc'[v] \in {"test", "take"}
           /\ pc'[v] = "asleep" => pc[v] = "asleep"
    BY <1>0, <1>8, WokenLemma
  <2>2. OnTheWay \subseteq OnTheWay' /\ Asleep' \subseteq Asleep
    BY <2>1 DEF OnTheWay, Asleep
  <2> QED  BY <1>8, <2>2, NoNewTask
<1>9. ASSUME NEW x \in Thread, SpuriousWakeup(x)  PROVE NoTaskOverlooked'
  BY <1>8, <1>9 DEF SpuriousWakeup
<1>10. CASE NotifyAll
  BY <1>8, <1>10 DEF NotifyAll
<1>11. CASE Stop
  BY <1>11 DEF Stop, NoTaskOverlooked
<1>12. CASE Join \/ UNCHANGED vars
  BY <1>12 DEF Join, vars, NoTaskOverlooked, Asleep
<1> QED
  BY <1>1, <1>2, <1>3, <1>4, <1>5, <1>6, <1>7, <1>9, <1>10, <1>11, <1>12
  DEF Next, WorkerStep, Submit

\* While a worker waits, every queued task has a worker on its way to take()
\* one: one notify_one() per push is enough.
THEOREM TasksAreSeen == Spec => []NoTaskOverlooked
<1>1. Init => NoTaskOverlooked
  <2> SUFFICES ASSUME Init  PROVE NoTaskOverlooked
    OBVIOUS
  <2>1. Asleep = {}
    BY ThreadPoolAssumption DEF Init, Asleep, Thread
  <2> QED  BY <2>1 DEF NoTaskOverlooked
<1> QED  BY <1>1, TaskStep, PoolInvariant, PTL DEF Spec
=============================================================================
