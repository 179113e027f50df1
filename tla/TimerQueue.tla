----------------------------- MODULE TimerQueue -----------------------------
(***************************************************************************)
(* The timers of one loop (tinyev/TimerQueue.cc): the set timers_ ordered  *)
(* by due time and address, the timerfd armed for its first element, the   *)
(* expired batch that handleRead() runs, callbacks and handlers that add   *)
(* and cancel timers meanwhile, and another thread's calls, which the loop *)
(* runs as tasks.                                                          *)
(*                                                                         *)
(* A Timer is its address; an address is used again once the object is     *)
(* deleted.  Time is counted in units of the millisecond that the timerfd  *)
(* is armed for at least.  `now` is the system clock, which timestamps     *)
(* come from and which may be set; the timerfd counts monotonic time.      *)
(*                                                                         *)
(* The caller of cancelTimer() must hold a timer that still exists: a      *)
(* repeating one, or, on the loop's thread, a one-shot that has not run.   *)
(* A callback must not cancel a timer of the batch that is being run, its  *)
(* own included: handleRead() looks at it again after it was deleted.      *)
(*                                                                         *)
(* Bounds: timestamps given to addTimer() are at most MaxTime, where the   *)
(* clock stops and calls end; MaxTasks tasks wait; the clock is set once.  *)
(*                                                                         *)
(* A definition whose name ends in _Fault is the definition before which   *)
(* it stands with a plausible mistake; no specification uses it.           *)
(***************************************************************************)
EXTENDS Naturals, Sequences, FiniteSets, SequencesExt, FiniteSetsExt

CONSTANTS Timer,      \* the addresses of Timer objects, naturals
          MaxTime,
          Interval,   \* the intervals a timer may have; 0 is a one-shot
          MaxTasks,
          None,       \* "no object"
          Off         \* "not armed"

ASSUME TimerQueueAssumption ==
  /\ Timer \subseteq Nat /\ Interval \subseteq Nat
  /\ MaxTime \in Nat /\ MaxTasks \in Nat
  /\ None \notin Nat \cup {"loop", "thread"}
  /\ None \notin [when : Nat, interval : Nat]
  /\ Off \notin Nat

VARIABLES
  now,       \* the system clock
  stepped,   \* it has been set
  timerfd,   \* the time until it expires; 0, readable; Off
  timers,    \* timers_: entries <<due time, timer>>
  object,    \* for each address, the Timer's when_ and interval_, or None
  owner,     \* who may still cancel a timer: "loop", "thread" or None
  active,    \* epoll_wait() reported the timerfd
  pc,        \* the loop is elsewhere, in handleRead(), in a callback
  stamp,     \* `now` in handleRead()
  batch,     \* the expired entries still to be run, the current one first
  tasks      \* the calls of another thread that wait on the loop

vars == <<now, stepped, timerfd, timers, object, owner, active, pc, stamp,
          batch, tasks>>

Entry == Nat \X Timer
Object == [when : Nat, interval : Interval]

TypeOK ==
  /\ now \in 0..MaxTime /\ stepped \in BOOLEAN
  /\ timerfd \in Nat \cup {Off}
  /\ timers \subseteq Entry
  /\ object \in [Timer -> Object \cup {None}]
  /\ owner \in [Timer -> {"loop", "thread", None}]
  /\ active \in BOOLEAN
  /\ pc \in {"idle", "handling", "callback"}
  /\ stamp \in 0..MaxTime
  /\ batch \in Seq(Entry)
  /\ tasks \in Seq([op : {"add", "cancel"}, timer : Timer])

Init ==
  /\ now = 0 /\ stepped = FALSE
  /\ timerfd = Off
  /\ timers = {}
  /\ object = [t \in Timer |-> None]
  /\ owner = [t \in Timer |-> None]
  /\ active = FALSE
  /\ pc = "idle" /\ stamp = 0 /\ batch = <<>>
  /\ tasks = <<>>

-----------------------------------------------------------------------------
(* The set and the timerfd. *)

\* The order of std::pair<Timestamp, Timer*>.
Before(a, b) == a[1] < b[1] \/ (a[1] = b[1] /\ a[2] < b[2])

First(entries) == CHOOSE e \in entries : \A d \in entries : d = e \/ Before(e, d)

\* timerfdSet(): a time that is past, or too close, is one unit from now.
Delay(when) == IF when > now THEN when - now ELSE 1

\* The timerfd is armed for the last timer added.
Insert_Fault(e) ==
  /\ timers' = timers \cup {e}
  /\ timerfd' = Delay(e[1])

\* The task of addTimer().
Insert(e) ==
  /\ timers' = timers \cup {e}
  /\ timerfd' = IF First(timers') = e THEN Delay(e[1]) ELSE timerfd

\* The entry stays in the set.
Erase_Fault(t) ==
  /\ object' = [object EXCEPT ![t] = None]
  /\ UNCHANGED timers

\* The task of cancelTimer(): the entry is looked up by the timer's when_, and
\* the object is deleted.
Erase(t) ==
  /\ timers' = timers \ {<<object[t].when, t>>}
  /\ object' = [object EXCEPT ![t] = None]

-----------------------------------------------------------------------------
(* addTimer() and cancelTimer(). *)

MayAdd(t) ==
  /\ object[t] = None
  /\ now < MaxTime

New(t, when, interval, who) ==
  /\ object' = [object EXCEPT ![t] = [when |-> when, interval |-> interval]]
  /\ owner' = [owner EXCEPT ![t] = who]

\* On the loop's thread, from a callback or another handler or task.
LoopAddTimer(t, when, interval) ==
  /\ pc # "handling"
  /\ MayAdd(t)
  /\ New(t, when, interval, "loop")
  /\ Insert(<<when, t>>)
  /\ UNCHANGED <<now, stepped, active, pc, stamp, batch, tasks>>

LoopCancelTimer(t) ==
  /\ pc # "handling"
  /\ owner[t] = "loop"
  /\ \A i \in DOMAIN batch : batch[i][2] # t
  /\ owner' = [owner EXCEPT ![t] = None]
  /\ Erase(t)
  /\ UNCHANGED <<now, stepped, timerfd, active, pc, stamp, batch, tasks>>

\* On another thread: a task.
ThreadAddTimer(t, when, interval) ==
  /\ MayAdd(t)
  /\ Len(tasks) < MaxTasks
  /\ New(t, when, interval, "thread")
  /\ tasks' = Append(tasks, [op |-> "add", timer |-> t])
  /\ UNCHANGED <<now, stepped, timerfd, timers, active, pc, stamp, batch>>

ThreadCancelTimer(t) ==
  /\ owner[t] = "thread"
  /\ object[t].interval # 0
  /\ Len(tasks) < MaxTasks
  /\ owner' = [owner EXCEPT ![t] = None]
  /\ tasks' = Append(tasks, [op |-> "cancel", timer |-> t])
  /\ UNCHANGED <<now, stepped, timerfd, timers, object, active, pc, stamp,
                 batch>>

\* The loop runs its tasks between its handlers.
RunTask ==
  /\ pc = "idle" /\ ~active
  /\ tasks # <<>>
  /\ tasks' = Tail(tasks)
  /\ LET t == Head(tasks).timer IN
     \/ /\ Head(tasks).op = "add"
        /\ Insert(<<object[t].when, t>>)
        /\ UNCHANGED object
     \/ /\ Head(tasks).op = "cancel"
        /\ Erase(t)
        /\ UNCHANGED timerfd
  /\ UNCHANGED <<now, stepped, owner, active, pc, stamp, batch>>

-----------------------------------------------------------------------------
(* handleRead(). *)

\* epoll_wait() reports the timerfd; its handler need not be the first.
Poll ==
  /\ pc = "idle" /\ ~active
  /\ timerfd = 0
  /\ active' = TRUE
  /\ UNCHANGED <<now, stepped, timerfd, timers, object, owner, pc, stamp,
                 batch, tasks>>

\* A timer due in the next unit is taken along.
Expired_Fault == {e \in timers : e[1] <= now + 1}

\* getExpired()
Expired == {e \in timers : e[1] <= now}

\* The entries one by one, in their order in the set.
InOrder(entries) ==
  {s \in [1..Cardinality(entries) -> entries] :
     \A i, j \in DOMAIN s : i < j => Before(s[i], s[j])}

\* The timerfd is read: nothing is there (EAGAIN) if another handler of this
\* iteration armed it again.
HandleRead ==
  /\ pc = "idle" /\ active
  /\ timerfd' = IF timerfd = 0 THEN Off ELSE timerfd
  /\ stamp' = now
  /\ batch' \in InOrder(Expired)
  /\ timers' = timers \ Expired
  /\ pc' = "handling"
  /\ active' = FALSE
  /\ UNCHANGED <<now, stepped, object, owner, tasks>>

\* The callback starts.  A one-shot is now gone for whoever could cancel it.
RunTimer ==
  /\ pc = "handling"
  /\ batch # <<>>
  /\ pc' = "callback"
  /\ LET t == Head(batch)[2] IN
     owner' = IF object[t].interval = 0 THEN [owner EXCEPT ![t] = None]
                                        ELSE owner
  /\ UNCHANGED <<now, stepped, timerfd, timers, object, active, stamp, batch,
                 tasks>>

\* The entry keeps the due time it had.
TimerReturns_Fault ==
  /\ pc = "callback"
  /\ pc' = "handling"
  /\ batch' = Tail(batch)
  /\ LET t == Head(batch)[2] IN
     IF object[t].interval = 0
     THEN /\ object' = [object EXCEPT ![t] = None]
          /\ UNCHANGED timers
     ELSE /\ object' = [object EXCEPT ![t].when = @ + object[t].interval]
          /\ timers' = timers \cup {Head(batch)}
  /\ UNCHANGED <<now, stepped, timerfd, owner, active, stamp, tasks>>

\* The callback returns: a repeating timer is due one interval later, a one-shot
\* is deleted.
TimerReturns ==
  /\ pc = "callback"
  /\ pc' = "handling"
  /\ batch' = Tail(batch)
  /\ LET t == Head(batch)[2] IN
     IF object[t].interval = 0
     THEN /\ object' = [object EXCEPT ![t] = None]
          /\ UNCHANGED timers
     ELSE /\ object' = [object EXCEPT ![t].when = @ + object[t].interval]
          /\ timers' = timers \cup {<<object'[t].when, t>>}
  /\ UNCHANGED <<now, stepped, timerfd, owner, active, stamp, tasks>>

\* The timerfd is armed again only by addTimer().
HandleReadReturns_Fault ==
  /\ pc = "handling"
  /\ batch = <<>>
  /\ pc' = "idle"
  /\ UNCHANGED <<now, stepped, timerfd, timers, object, owner, active, stamp,
                 batch, tasks>>

\* The timerfd is armed for the first timer that is left.
HandleReadReturns ==
  /\ pc = "handling"
  /\ batch = <<>>
  /\ pc' = "idle"
  /\ timerfd' = IF timers = {} THEN timerfd ELSE Delay(First(timers)[1])
  /\ UNCHANGED <<now, stepped, timers, object, owner, active, stamp, batch,
                 tasks>>

-----------------------------------------------------------------------------
(* The clocks. *)

Tick ==
  /\ now < MaxTime \/ timerfd \notin {0, Off}
  /\ now' = Min({now + 1, MaxTime})
  /\ timerfd' = IF timerfd \in {0, Off} THEN timerfd ELSE timerfd - 1
  /\ UNCHANGED <<stepped, timers, object, owner, active, pc, stamp, batch,
                 tasks>>

\* The system clock is set.
SetClock ==
  /\ ~stepped
  /\ stepped' = TRUE
  /\ now' \in 0..MaxTime
  /\ UNCHANGED <<timerfd, timers, object, owner, active, pc, stamp, batch,
                 tasks>>

-----------------------------------------------------------------------------
LoopStep ==
  Poll \/ HandleRead \/ RunTimer \/ TimerReturns \/ HandleReadReturns

Calls ==
  \E t \in Timer :
    \/ \E when \in 0..MaxTime, interval \in Interval :
         \/ LoopAddTimer(t, when, interval)
         \/ ThreadAddTimer(t, when, interval)
    \/ LoopCancelTimer(t)
    \/ ThreadCancelTimer(t)

Next == LoopStep \/ RunTask \/ Calls \/ Tick \/ SetClock

Spec == Init /\ [][Next]_vars

\* Time passes, and the loop goes on with what it began, handles the timerfd and
\* runs its tasks (EventLoop's IoNotStarved and EveryTaskRuns).  Nobody is obliged
\* to call or to set the clock.
FairSpec == Spec /\ WF_vars(Tick) /\ WF_vars(LoopStep) /\ SF_vars(RunTask)

-----------------------------------------------------------------------------
(* Properties. *)

\* While timers wait and the loop is not in handleRead(), the timerfd is armed,
\* and, unless the clock was set, for no later than the first of them is due:
\* whatever was added, canceled and inserted again while the batch ran.
ArmedInTime ==
  pc = "idle" /\ timers # {} =>
    /\ timerfd # Off
    /\ ~stepped => timerfd <= Delay(First(timers)[1])

\* Every pointer in timers_, in the batch and in the tasks is to an existing
\* Timer, under the due time it has, so that cancelTimer() finds the entry; and
\* every existing Timer is in exactly one place, so none is leaked or run twice.
Adding(t) == \E i \in DOMAIN tasks : tasks[i] = [op |-> "add", timer |-> t]

OwnershipInv ==
  /\ \A e \in timers \cup Range(batch) :
       object[e[2]] # None /\ object[e[2]].when = e[1]
  /\ \A i \in DOMAIN tasks : object[tasks[i].timer] # None
  /\ \A t \in Timer :
       object[t] # None =>
         Cardinality({e \in timers : e[2] = t})
           + Cardinality({i \in DOMAIN batch : batch[i][2] = t})
           + (IF Adding(t) THEN 1 ELSE 0) = 1

\* Timers run when they are due, once per period, and not after they were
\* canceled: the queue implements TimerService, through address reuse, clock
\* steps and what callbacks do to other timers.
TS == INSTANCE TimerService WITH
        running <- IF pc = "callback" THEN Head(batch)[2] ELSE None,
        now <- IF pc = "idle" THEN now ELSE stamp

ImplementsTimerService == TS!Spec

\* A timer that waits runs or is canceled, if the clock reaches its due time.
EveryTimerRuns ==
  \A t \in Timer :
    (object[t] # None /\ object[t].when <= MaxTime)
      ~> (object[t] = None \/ (pc = "callback" /\ Head(batch)[2] = t))
=============================================================================
