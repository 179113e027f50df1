------------------------- MODULE TimerQueue_proofs -------------------------
(***************************************************************************)
(* The safety of the timer queue, for any number of timers, any intervals  *)
(* and any bounds, and that it implements TimerService.                    *)
(***************************************************************************)
EXTENDS TimerQueue, FiniteSetTheorems, FunctionTheorems, SequenceTheorems,
        TLAPS

-----------------------------------------------------------------------------
(* The order of the set. *)

\* Induction over the natural numbers, in the form the provers can use.
LEMMA LeastNat ==
  ASSUME NEW T, T \subseteq Nat, T # {}
  PROVE  \E x \in T : \A y \in T : x <= y
<1> DEFINE Below == {0..n : n \in T}
<1>1. Below \subseteq FiniteSubsetsOf(Nat)
  <2> SUFFICES ASSUME NEW n \in T PROVE 0..n \in FiniteSubsetsOf(Nat)
    OBVIOUS
  <2>1. IsFiniteSet(0..n)
    BY FS_Interval
  <2> QED
    BY <2>1 DEF FiniteSubsetsOf
<1>2. Below # {}
  OBVIOUS
<1>3. IsWellFoundedOn(StrictSubsetOrdering(Nat), FiniteSubsetsOf(Nat))
  BY FS_StrictSubsetOrderingWellFounded
<1>4. \E X \in Below : \A Y \in Below : ~ (<<Y, X>> \in StrictSubsetOrdering(Nat))
  <2> HIDE DEF Below
  <2> QED
    BY <1>1, <1>2, <1>3, WFMin
<1>5. PICK n \in T : \A m \in T : ~ (<<0..m, 0..n>> \in StrictSubsetOrdering(Nat))
  BY <1>4
<1>6. ASSUME NEW m \in T PROVE n <= m
  <2>1. SUFFICES ASSUME m < n PROVE FALSE
    OBVIOUS
  <2>2. 0..m \subseteq 0..n /\ 0..m # 0..n
    <3>1. n \in 0..n /\ n \notin 0..m
      BY <2>1
    <3> QED
      BY <2>1, <3>1
  <2>3. <<0..m, 0..n>> \in StrictSubsetOrdering(Nat)
    BY <2>2 DEF StrictSubsetOrdering
  <2> QED
    BY <1>5, <2>3
<1> QED
  BY <1>6

LEMMA EntryIsPair ==
  ASSUME NEW e \in Entry
  PROVE  e = <<e[1], e[2]>> /\ e[1] \in Nat /\ e[2] \in Timer /\ e[2] \in Nat
<1>1. Timer \subseteq Nat
  BY TimerQueueAssumption
<1>2. e = <<e[1], e[2]>> /\ e[1] \in Nat /\ e[2] \in Timer
  BY DEF Entry
<1> QED
  BY <1>1, <1>2

\* timers_.begin(): every set of entries that is not empty has a first one, due
\* no later than the others, and only one.
LEMMA FirstIsDueFirst ==
  ASSUME NEW S, S \subseteq Entry, S # {}
  PROVE  /\ First(S) \in S
         /\ \A e \in S : First(S)[1] <= e[1]
         /\ \A e \in S : (\A d \in S : d = e \/ Before(e, d)) => e = First(S)
<1>0. \A e \in S : e = <<e[1], e[2]>> /\ e[1] \in Nat /\ e[2] \in Nat
  BY EntryIsPair
<1> DEFINE W == {e[1] : e \in S}
<1>1. PICK w \in W : \A v \in W : w <= v
  <2>1. W \subseteq Nat /\ W # {}
    BY <1>0
  <2> QED
    BY <2>1, LeastNat
<1> DEFINE T == {e[2] : e \in {d \in S : d[1] = w}}
<1>2. PICK t \in T : \A u \in T : t <= u
  <2>1. T \subseteq Nat /\ T # {}
    BY <1>0
  <2> QED
    BY <2>1, LeastNat
<1>3. PICK e \in S : e[1] = w /\ e[2] = t
  OBVIOUS
<1>4. \A d \in S : d = e \/ Before(e, d)
  <2> SUFFICES ASSUME NEW d \in S PROVE d = e \/ Before(e, d)
    OBVIOUS
  <2>1. d[1] \in W /\ e[1] <= d[1]
    BY <1>1, <1>3
  <2>2. d[1] = w => d[2] \in T /\ e[2] <= d[2]
    BY <1>2, <1>3
  <2> HIDE DEF W, T
  <2>3. e[1] \in Nat /\ e[2] \in Nat /\ d[1] \in Nat /\ d[2] \in Nat
    BY <1>0
  <2>4. e[1] = d[1] /\ e[2] = d[2] => d = e
    BY <1>0
  <2> QED
    BY <1>3, <2>1, <2>2, <2>3, <2>4 DEF Before
<1> HIDE DEF W, T
<1>5. First(S) \in S /\ \A d \in S : d = First(S) \/ Before(First(S), d)
  BY <1>4 DEF First
<1>6. \A d \in S : First(S)[1] <= d[1]
  BY <1>0, <1>5 DEF Before
<1>7. ASSUME NEW d \in S, \A c \in S : c = d \/ Before(d, c)
      PROVE  d = First(S)
  BY <1>0, <1>5, <1>7 DEF Before
<1> QED
  BY <1>5, <1>6, <1>7

\* The batch holds the entries of a finite set, and each of them once.
LEMMA InOrderLists ==
  ASSUME NEW S, S \subseteq Entry, IsFiniteSet(S), NEW s \in InOrder(S)
  PROVE  /\ s \in Seq(S)
         /\ \A i, j \in DOMAIN s : s[i] = s[j] => i = j
         /\ \A e \in S : \E i \in DOMAIN s : s[i] = e
<1>1. Cardinality(S) \in Nat
  BY FS_CardinalityType
<1>2. s \in [1..Cardinality(S) -> S]
  BY DEF InOrder
<1>3. s \in Seq(S)
  <2> DEFINE n == Cardinality(S)
  <2>1. n \in Nat /\ s \in [1..n -> S]
    BY <1>1, <1>2
  <2> HIDE DEF n
  <2> QED
    BY <2>1, SeqDef
<1>4. \A i \in DOMAIN s : s[i][1] \in Nat /\ s[i][2] \in Nat
  BY <1>2, EntryIsPair
<1>5. ASSUME NEW i \in DOMAIN s, NEW j \in DOMAIN s, s[i] = s[j]
      PROVE  i = j
  <2>1. i \in Nat /\ j \in Nat
    BY <1>1, <1>2
  <2>2. ~(i < j)
    BY <1>4, <1>5 DEF InOrder, Before
  <2>3. ~(j < i)
    BY <1>4, <1>5 DEF InOrder, Before
  <2> QED
    BY <2>1, <2>2, <2>3
<1>6. \A e \in S : \E i \in DOMAIN s : s[i] = e
  <2>1. s \in Injection(1..Cardinality(S), S)
    BY <1>2, <1>5, Fun_IsInj
  <2>2. IsFiniteSet(1..Cardinality(S)) /\ Cardinality(1..Cardinality(S)) = Cardinality(S)
    BY <1>1, FS_Interval
  <2>3. s \in Surjection(1..Cardinality(S), S)
    BY <2>1, <2>2, FS_Injection
  <2>4. \A e \in S : \E i \in 1..Cardinality(S) : s[i] = e
    BY <2>3 DEF Surjection
  <2> QED
    BY <1>2, <2>4
<1> QED
  BY <1>3, <1>5, <1>6

-----------------------------------------------------------------------------
(* The invariant. *)

InTimers(t) == \E e \in timers : e[2] = t
InBatch(t)  == \E i \in DOMAIN batch : batch[i][2] = t

\* Entries are of existing timers, under the due time these have; a timer is in
\* one place, once.  The batch is due, and there is one only in handleRead().
Placed ==
  /\ IsFiniteSet(timers)
  /\ \A e \in timers : object[e[2]] # None /\ object[e[2]].when = e[1]
  /\ \A i \in DOMAIN batch :
       /\ object[batch[i][2]] # None
       /\ object[batch[i][2]].when = batch[i][1]
       /\ batch[i][1] <= stamp
  /\ \A i, j \in DOMAIN batch : batch[i][2] = batch[j][2] => i = j
  /\ \A t \in Timer : object[t] # None =>
       /\ InTimers(t) \/ InBatch(t) \/ Adding(t)
       /\ ~(InTimers(t) /\ InBatch(t))
       /\ ~(InTimers(t) /\ Adding(t))
       /\ ~(InBatch(t) /\ Adding(t))
  /\ pc = "idle" => batch = <<>>
  /\ pc = "callback" => batch # <<>>

\* The calls that wait are about existing timers, each added before it is
\* canceled and neither twice.  Nobody may cancel a timer that a task cancels, a
\* handler none that a task is about.
CallsInOrder ==
  /\ \A i \in DOMAIN tasks : object[tasks[i].timer] # None
  /\ \A i \in DOMAIN tasks : tasks[i].op = "cancel" =>
       /\ owner[tasks[i].timer] = None
       /\ object[tasks[i].timer].interval # 0
  /\ \A i, j \in DOMAIN tasks : i < j /\ tasks[i].timer = tasks[j].timer =>
       tasks[i].op = "add" /\ tasks[j].op = "cancel"
  /\ \A t \in Timer : owner[t] # None => object[t] # None
  /\ pc = "callback" /\ object[batch[1][2]].interval = 0 =>
       owner[batch[1][2]] = None
  /\ \A t \in Timer : owner[t] = "loop" =>
       \A i \in DOMAIN tasks : tasks[i].timer # t

\* The timerfd expires before every entry of the set is due.
Armed ==
  pc = "idle" /\ timers # {} =>
    /\ timerfd # Off
    /\ ~stepped => \A e \in timers : timerfd <= Delay(e[1])

QueueInv == TypeOK /\ Placed /\ CallsInOrder /\ Armed

LEMMA NoneIsNoValue ==
  /\ None \notin Object /\ None # "loop" /\ None # "thread" /\ None \notin Nat
  /\ Off \notin Nat
  /\ Interval \subseteq Nat /\ Timer \subseteq Nat /\ MaxTime \in Nat
<1>1. /\ Interval \subseteq Nat /\ None \notin [when : Nat, interval : Nat]
      /\ None # "loop" /\ None # "thread" /\ None \notin Nat
      /\ Off \notin Nat /\ Timer \subseteq Nat /\ MaxTime \in Nat
  BY TimerQueueAssumption
<1>2. Object \subseteq [when : Nat, interval : Nat]
  BY <1>1 DEF Object
<1> QED
  BY <1>1, <1>2

LEMMA DelayIsPositive ==
  ASSUME now \in Nat, NEW w \in Nat
  PROVE  /\ Delay(w) \in Nat /\ Delay(w) >= 1
         /\ \A v \in Nat : w <= v => Delay(w) <= Delay(v)
  BY DEF Delay

LEMMA TaskTypes ==
  ASSUME TypeOK
  PROVE  \A i \in DOMAIN tasks :
           /\ tasks[i].timer \in Timer /\ tasks[i].op \in {"add", "cancel"}
           /\ tasks[i] = [op |-> tasks[i].op, timer |-> tasks[i].timer]
<1> DEFINE Call == [op : {"add", "cancel"}, timer : Timer]
<1>1. tasks \in Seq(Call)
  BY DEF TypeOK
<1>2. \A i \in DOMAIN tasks : tasks[i] \in Call
  <2> HIDE DEF Call
  <2> QED
    BY <1>1
<1> QED
  BY <1>2

LEMMA BatchTypes ==
  ASSUME TypeOK
  PROVE  /\ \A i \in DOMAIN batch : batch[i] \in Entry /\ batch[i][2] \in Timer
         /\ batch # <<>> => 1 \in DOMAIN batch /\ Head(batch) = batch[1]
  BY DEF TypeOK, Entry

\* An entry that goes in keeps the timerfd in time for it and for the others.
LEMMA InsertArms ==
  ASSUME TypeOK, Armed, NEW e \in Entry, Insert(e),
         UNCHANGED <<now, stepped, pc>>
  PROVE  Armed'
<1>1. /\ now \in Nat /\ timerfd \in Nat \cup {Off} /\ timers' \subseteq Entry
      /\ timers' = timers \cup {e} /\ e[1] \in Nat /\ Off \notin Nat
  BY EntryIsPair, NoneIsNoValue DEF TypeOK, Insert
<1>2. First(timers') \in timers' /\ \A d \in timers' : First(timers')[1] <= d[1]
  BY <1>1, FirstIsDueFirst
<1>3. \A d \in timers' : d[1] \in Nat
  BY <1>1, EntryIsPair
<1> DEFINE f == First(timers')
<1>4. \A d \in timers' : Delay(f[1]) <= Delay(d[1]) /\ Delay(d[1]) \in Nat
  BY <1>1, <1>2, <1>3, DelayIsPositive
<1>5. \A d \in timers' : Delay(d[1])' = Delay(d[1])
  BY DEF Delay
<1>6. timerfd' = IF f = e THEN Delay(e[1]) ELSE timerfd
  BY DEF Insert
<1>7. f \in timers \/ f = e
  BY <1>1, <1>2
<1>8. f[1] \in Nat /\ Delay(f[1]) \in Nat
  BY <1>2, <1>3, <1>4
<1> HIDE DEF f
<1> SUFFICES ASSUME pc = "idle"
             PROVE  /\ timerfd' # Off
                    /\ ~stepped => \A d \in timers' : timerfd' <= Delay(d[1])
  BY <1>5 DEF Armed
<1>9. CASE f = e
  BY <1>1, <1>4, <1>6, <1>8, <1>9
<1>10. CASE f # e
  <2>1. timers # {} /\ f \in timers
    BY <1>7, <1>10
  <2>2. timerfd # Off /\ (~stepped => timerfd <= Delay(f[1]))
    BY <2>1 DEF Armed
  <2>3. timerfd' = timerfd /\ timerfd \in Nat
    BY <1>1, <1>6, <1>10, <2>2
  <2> QED
    BY <1>4, <1>8, <2>2, <2>3
<1> QED
  BY <1>9, <1>10

\* The task of cancelTimer() finds the entry.
LEMMA EraseTakesOut ==
  ASSUME TypeOK, Placed, NEW t \in Timer, object[t] # None, Erase(t)
  PROVE  /\ \A e \in timers : e \in timers' <=> e[2] # t
         /\ timers' \subseteq timers
         /\ object' = [object EXCEPT ![t] = None]
<1>1. \A e \in timers : e = <<e[1], e[2]>> /\ object[e[2]].when = e[1]
  BY EntryIsPair DEF TypeOK, Placed
<1>2. timers' = timers \ {<<object[t].when, t>>}
  BY DEF Erase
<1>3. \A e \in timers : e = <<object[t].when, t>> <=> e[2] = t
  BY <1>1
<1> QED
  BY <1>2, <1>3 DEF Erase

LEMMA RemovalArms ==
  ASSUME Armed, timers' \subseteq timers, UNCHANGED <<now, stepped, timerfd, pc>>
  PROVE  Armed'
BY DEF Armed, Delay

LEMMA AppendTask ==
  ASSUME TypeOK, NEW call \in [op : {"add", "cancel"}, timer : Timer],
         tasks' = Append(tasks, call)
  PROVE  /\ tasks' \in Seq([op : {"add", "cancel"}, timer : Timer])
         /\ Len(tasks) \in Nat /\ DOMAIN tasks = 1..Len(tasks)
         /\ DOMAIN tasks' = 1..(Len(tasks) + 1)
         /\ \A i \in DOMAIN tasks : tasks'[i] = tasks[i]
         /\ tasks'[Len(tasks) + 1] = call
<1> DEFINE Call == [op : {"add", "cancel"}, timer : Timer]
<1>1. tasks \in Seq(Call) /\ call \in Call
  BY DEF TypeOK
<1> HIDE DEF Call
<1>2. /\ tasks' \in Seq(Call) /\ Len(tasks') = Len(tasks) + 1
      /\ \A i \in 1..Len(tasks) : tasks'[i] = tasks[i]
      /\ tasks'[Len(tasks) + 1] = call
  BY <1>1, AppendProperties
<1>3. /\ Len(tasks) \in Nat /\ DOMAIN tasks = 1..Len(tasks)
      /\ DOMAIN tasks' = 1..(Len(tasks) + 1)
  BY <1>1, <1>2
<1> QED
  BY <1>2, <1>3 DEF Call

LEMMA InitInv == Init => QueueInv
<1> SUFFICES ASSUME Init PROVE QueueInv
  OBVIOUS
<1>1. TypeOK
  <2>1. /\ object \in [Timer -> Object \cup {None}]
        /\ owner \in [Timer -> {"loop", "thread", None}]
        /\ batch \in Seq(Entry)
        /\ tasks \in Seq([op : {"add", "cancel"}, timer : Timer])
    BY DEF Init
  <2>2. now \in 0..MaxTime /\ stamp \in 0..MaxTime
    BY NoneIsNoValue DEF Init
  <2> QED
    BY <2>1, <2>2 DEF Init, TypeOK
<1>2. Placed
  BY FS_EmptySet DEF Init, Placed
<1>3. CallsInOrder
  BY DEF Init, CallsInOrder
<1>4. Armed
  BY DEF Init, Armed
<1> QED
  BY <1>1, <1>2, <1>3, <1>4 DEF QueueInv

-----------------------------------------------------------------------------
(* addTimer() and cancelTimer(). *)

LEMMA LoopAddTimerInv ==
  ASSUME QueueInv, NEW t \in Timer, NEW when \in 0..MaxTime,
         NEW interval \in Interval, LoopAddTimer(t, when, interval)
  PROVE  QueueInv'
<1> DEFINE obj == [when |-> when, interval |-> interval]
<1>0. TypeOK /\ Placed /\ CallsInOrder /\ Armed
  BY DEF QueueInv
<1>1. /\ pc # "handling" /\ object[t] = None
      /\ object' = [object EXCEPT ![t] = obj]
      /\ owner' = [owner EXCEPT ![t] = "loop"]
      /\ timers' = timers \cup {<<when, t>>}
      /\ timerfd' = IF First(timers') = <<when, t>> THEN Delay(when) ELSE timerfd
      /\ UNCHANGED <<now, stepped, active, pc, stamp, batch, tasks>>
  BY DEF LoopAddTimer, MayAdd, New, Insert
<1>2. /\ obj \in Object /\ obj # None /\ when \in Nat /\ now \in Nat
      /\ <<when, t>> \in Entry /\ obj.when = when /\ obj.interval = interval
  BY <1>0, NoneIsNoValue DEF TypeOK, Object, Entry
<1>3. /\ \A d \in timers : d[2] # t
      /\ \A i \in DOMAIN batch : batch[i][2] # t
      /\ \A i \in DOMAIN tasks : tasks[i].timer # t
  BY <1>0, <1>1 DEF Placed, CallsInOrder
<1>4. /\ object'[t] = obj /\ owner'[t] = "loop"
      /\ \A u \in Timer : u # t => object'[u] = object[u] /\ owner'[u] = owner[u]
  BY <1>0, <1>1 DEF TypeOK
<1> HIDE DEF obj
<1>5. TypeOK'
  BY <1>0, <1>1, <1>2, DelayIsPositive DEF TypeOK
<1>7. Placed'
  <2>1. IsFiniteSet(timers')
    BY <1>0, <1>1, FS_AddElement DEF Placed
  <2>2. \A e \in timers' : object'[e[2]] # None /\ object'[e[2]].when = e[1]
    BY <1>0, <1>1, <1>2, <1>3, <1>4, EntryIsPair DEF Placed, TypeOK
  <2>3. \A i \in DOMAIN batch' :
          /\ object'[batch'[i][2]] # None
          /\ object'[batch'[i][2]].when = batch'[i][1]
          /\ batch'[i][1] <= stamp'
    BY <1>0, <1>1, <1>3, <1>4, EntryIsPair DEF Placed, TypeOK
  <2>4. \A u \in Timer : /\ InTimers(u)' <=> InTimers(u) \/ u = t
                         /\ InBatch(u)' <=> InBatch(u)
                         /\ Adding(u)' <=> Adding(u)
    <3> SUFFICES ASSUME NEW u \in Timer
                 PROVE  /\ InTimers(u)' <=> InTimers(u) \/ u = t
                        /\ InBatch(u)' <=> InBatch(u)
                        /\ Adding(u)' <=> Adding(u)
      OBVIOUS
    <3>1. InTimers(u)' <=> InTimers(u) \/ <<when, t>>[2] = u
      BY <1>1 DEF InTimers
    <3>2. (InBatch(u)' <=> InBatch(u)) /\ (Adding(u)' <=> Adding(u))
      BY <1>1 DEF InBatch, Adding
    <3> QED
      BY <3>1, <3>2
  <2>5. ~InBatch(t) /\ ~Adding(t)
    BY <1>3 DEF InBatch, Adding
  <2>6. \A u \in Timer : object'[u] # None =>
          /\ InTimers(u)' \/ InBatch(u)' \/ Adding(u)'
          /\ ~(InTimers(u)' /\ InBatch(u)')
          /\ ~(InTimers(u)' /\ Adding(u)')
          /\ ~(InBatch(u)' /\ Adding(u)')
    BY <1>0, <1>4, <2>4, <2>5 DEF Placed
  <2> QED
    BY <1>0, <1>1, <2>1, <2>2, <2>3, <2>6 DEF Placed
<1>8. CallsInOrder'
  <2>1. \A i \in DOMAIN tasks : /\ tasks[i].timer \in Timer
                                /\ object'[tasks[i].timer] = object[tasks[i].timer]
                                /\ owner'[tasks[i].timer] = owner[tasks[i].timer]
    BY <1>0, <1>3, <1>4, TaskTypes
  <2>2. \A u \in Timer : owner'[u] # None => object'[u] # None
    BY <1>0, <1>2, <1>4 DEF CallsInOrder
  <2>3. \A u \in Timer : owner'[u] = "loop" =>
          \A i \in DOMAIN tasks : tasks[i].timer # u
    BY <1>0, <1>3, <1>4 DEF CallsInOrder
  <2>4. pc = "callback" => /\ object'[batch[1][2]] = object[batch[1][2]]
                           /\ owner'[batch[1][2]] = owner[batch[1][2]]
    BY <1>0, <1>3, <1>4, BatchTypes DEF Placed
  <2> QED
    BY <1>0, <1>1, <2>1, <2>2, <2>3, <2>4 DEF CallsInOrder
<1>9. Armed'
  <2>1. Insert(<<when, t>>) /\ UNCHANGED <<now, stepped, pc>>
    BY DEF LoopAddTimer
  <2> QED
    BY <1>0, <1>2, <2>1, InsertArms
<1> QED
  BY <1>5, <1>7, <1>8, <1>9 DEF QueueInv

LEMMA LoopCancelTimerInv ==
  ASSUME QueueInv, NEW t \in Timer, LoopCancelTimer(t)
  PROVE  QueueInv'
<1>0. TypeOK /\ Placed /\ CallsInOrder /\ Armed
  BY DEF QueueInv
<1>1. /\ owner[t] = "loop" /\ Erase(t)
      /\ owner' = [owner EXCEPT ![t] = None]
      /\ \A i \in DOMAIN batch : batch[i][2] # t
      /\ UNCHANGED <<now, stepped, timerfd, active, pc, stamp, batch, tasks>>
  BY DEF LoopCancelTimer
<1>2. object[t] # None /\ \A i \in DOMAIN tasks : tasks[i].timer # t
  BY <1>0, <1>1, NoneIsNoValue DEF CallsInOrder
<1>3. /\ \A e \in timers : e \in timers' <=> e[2] # t
      /\ timers' \subseteq timers
      /\ object' = [object EXCEPT ![t] = None]
  BY <1>0, <1>1, <1>2, EraseTakesOut
<1>4. /\ object'[t] = None /\ owner'[t] = None
      /\ \A u \in Timer : u # t => object'[u] = object[u] /\ owner'[u] = owner[u]
  BY <1>0, <1>1, <1>3 DEF TypeOK
<1>5. TypeOK'
  BY <1>0, <1>1, <1>3 DEF TypeOK
<1>6. Placed'
  <2>1. IsFiniteSet(timers')
    BY <1>0, <1>3, FS_Subset DEF Placed
  <2>2. \A e \in timers' : object'[e[2]] # None /\ object'[e[2]].when = e[1]
    BY <1>0, <1>3, <1>4, EntryIsPair DEF Placed, TypeOK
  <2>3. \A i \in DOMAIN batch' :
          /\ object'[batch'[i][2]] # None
          /\ object'[batch'[i][2]].when = batch'[i][1]
          /\ batch'[i][1] <= stamp'
    BY <1>0, <1>1, <1>4, BatchTypes DEF Placed
  <2>4. \A u \in Timer : /\ InTimers(u)' <=> InTimers(u) /\ u # t
                         /\ InBatch(u)' <=> InBatch(u)
                         /\ Adding(u)' <=> Adding(u)
    BY <1>1, <1>3 DEF InTimers, InBatch, Adding
  <2>5. \A u \in Timer : object'[u] # None =>
          /\ InTimers(u)' \/ InBatch(u)' \/ Adding(u)'
          /\ ~(InTimers(u)' /\ InBatch(u)')
          /\ ~(InTimers(u)' /\ Adding(u)')
          /\ ~(InBatch(u)' /\ Adding(u)')
    BY <1>0, <1>4, <2>4 DEF Placed
  <2> QED
    BY <1>0, <1>1, <2>1, <2>2, <2>3, <2>5 DEF Placed
<1>7. CallsInOrder'
  <2>1. \A i \in DOMAIN tasks : /\ object'[tasks[i].timer] = object[tasks[i].timer]
                                /\ owner'[tasks[i].timer] = owner[tasks[i].timer]
    BY <1>0, <1>2, <1>4, TaskTypes
  <2>2. \A u \in Timer : owner'[u] # None => object'[u] # None
    BY <1>0, <1>4 DEF CallsInOrder
  <2>3. \A u \in Timer : owner'[u] = "loop" => owner[u] = "loop"
    BY <1>4, NoneIsNoValue
  <2>4. pc = "callback" => /\ object'[batch[1][2]] = object[batch[1][2]]
                           /\ owner'[batch[1][2]] = owner[batch[1][2]]
    BY <1>0, <1>1, <1>4, BatchTypes DEF Placed
  <2> QED
    BY <1>0, <1>1, <2>1, <2>2, <2>3, <2>4 DEF CallsInOrder
<1>8. Armed'
  BY <1>0, <1>1, <1>3, RemovalArms
<1> QED
  BY <1>5, <1>6, <1>7, <1>8 DEF QueueInv

LEMMA ThreadAddTimerInv ==
  ASSUME QueueInv, NEW t \in Timer, NEW when \in 0..MaxTime,
         NEW interval \in Interval, ThreadAddTimer(t, when, interval)
  PROVE  QueueInv'
<1> DEFINE obj == [when |-> when, interval |-> interval]
<1> DEFINE call == [op |-> "add", timer |-> t]
<1>0. TypeOK /\ Placed /\ CallsInOrder /\ Armed
  BY DEF QueueInv
<1>1. /\ object[t] = None
      /\ object' = [object EXCEPT ![t] = obj]
      /\ owner' = [owner EXCEPT ![t] = "thread"]
      /\ tasks' = Append(tasks, call)
      /\ UNCHANGED <<now, stepped, timerfd, timers, active, pc, stamp, batch>>
  BY DEF ThreadAddTimer, MayAdd, New
<1>2. obj \in Object /\ obj # None
  BY <1>0, NoneIsNoValue DEF Object
<1>3. /\ \A d \in timers : d[2] # t
      /\ \A i \in DOMAIN batch : batch[i][2] # t
      /\ \A i \in DOMAIN tasks : tasks[i].timer # t
  BY <1>0, <1>1 DEF Placed, CallsInOrder
<1>4. /\ object'[t] = obj /\ owner'[t] = "thread"
      /\ \A u \in Timer : u # t => object'[u] = object[u] /\ owner'[u] = owner[u]
  BY <1>0, <1>1 DEF TypeOK
<1>5. call \in [op : {"add", "cancel"}, timer : Timer]
  OBVIOUS
<1>6. call.op = "add" /\ call.timer = t
  OBVIOUS
<1> HIDE DEF obj, call
<1>7. /\ tasks' \in Seq([op : {"add", "cancel"}, timer : Timer])
      /\ Len(tasks) \in Nat /\ DOMAIN tasks = 1..Len(tasks)
      /\ DOMAIN tasks' = 1..(Len(tasks) + 1)
      /\ \A i \in DOMAIN tasks : tasks'[i] = tasks[i]
      /\ tasks'[Len(tasks) + 1] = call
  BY <1>0, <1>1, <1>5, AppendTask
<1>8. \A i \in DOMAIN tasks' :
        (i \in DOMAIN tasks /\ tasks'[i] = tasks[i])
          \/ (i = Len(tasks) + 1 /\ tasks'[i] = call)
  BY <1>7
<1>9. TypeOK'
  BY <1>0, <1>1, <1>2, <1>7 DEF TypeOK
<1>10. Placed'
  <2>1. \A e \in timers' : object'[e[2]] # None /\ object'[e[2]].when = e[1]
    BY <1>0, <1>1, <1>3, <1>4, EntryIsPair DEF Placed, TypeOK
  <2>2. \A i \in DOMAIN batch' :
          /\ object'[batch'[i][2]] # None
          /\ object'[batch'[i][2]].when = batch'[i][1]
          /\ batch'[i][1] <= stamp'
    BY <1>0, <1>1, <1>3, <1>4, BatchTypes DEF Placed
  <2>3. \A u \in Timer : /\ InTimers(u)' <=> InTimers(u)
                         /\ InBatch(u)' <=> InBatch(u)
    BY <1>1 DEF InTimers, InBatch
  <2>4. \A u \in Timer : Adding(u)' <=> Adding(u) \/ u = t
    <3> SUFFICES ASSUME NEW u \in Timer PROVE Adding(u)' <=> Adding(u) \/ u = t
      OBVIOUS
    <3>1. call = [op |-> "add", timer |-> u] <=> u = t
      BY <1>6 DEF call
    <3>2. Adding(u)' <=> \E i \in DOMAIN tasks' : tasks'[i] = [op |-> "add", timer |-> u]
      BY DEF Adding
    <3>3. Len(tasks) + 1 \in DOMAIN tasks' /\ DOMAIN tasks \subseteq DOMAIN tasks'
      BY <1>7
    <3> QED
      BY <1>7, <1>8, <3>1, <3>2, <3>3 DEF Adding
  <2>5. ~InBatch(t) /\ ~InTimers(t)
    BY <1>3 DEF InBatch, InTimers
  <2>6. \A u \in Timer : object'[u] # None =>
          /\ InTimers(u)' \/ InBatch(u)' \/ Adding(u)'
          /\ ~(InTimers(u)' /\ InBatch(u)')
          /\ ~(InTimers(u)' /\ Adding(u)')
          /\ ~(InBatch(u)' /\ Adding(u)')
    BY <1>0, <1>4, <2>3, <2>4, <2>5 DEF Placed
  <2> QED
    BY <1>0, <1>1, <2>1, <2>2, <2>6 DEF Placed
<1>11. CallsInOrder'
  <2>1. \A i \in DOMAIN tasks : /\ object'[tasks[i].timer] = object[tasks[i].timer]
                                /\ owner'[tasks[i].timer] = owner[tasks[i].timer]
    BY <1>0, <1>3, <1>4, TaskTypes
  <2>2. \A u \in Timer : owner'[u] # None => object'[u] # None
    BY <1>0, <1>2, <1>4 DEF CallsInOrder
  <2>3. \A u \in Timer : owner'[u] = "loop" => owner[u] = "loop" /\ u # t
    BY <1>4
  <2>4. pc = "callback" => /\ object'[batch[1][2]] = object[batch[1][2]]
                           /\ owner'[batch[1][2]] = owner[batch[1][2]]
    BY <1>0, <1>3, <1>4, BatchTypes DEF Placed
  <2>5. \A i \in DOMAIN tasks' : object'[tasks'[i].timer] # None
    BY <1>0, <1>2, <1>4, <1>6, <1>8, <2>1 DEF CallsInOrder
  <2>6. \A i \in DOMAIN tasks' : tasks'[i].op = "cancel" =>
          /\ owner'[tasks'[i].timer] = None
          /\ object'[tasks'[i].timer].interval # 0
    BY <1>0, <1>6, <1>8, <2>1 DEF CallsInOrder
  <2>7. \A i, j \in DOMAIN tasks' : i < j /\ tasks'[i].timer = tasks'[j].timer =>
          tasks'[i].op = "add" /\ tasks'[j].op = "cancel"
    <3> SUFFICES ASSUME NEW i \in DOMAIN tasks', NEW j \in DOMAIN tasks',
                        i < j, tasks'[i].timer = tasks'[j].timer
                 PROVE  tasks'[i].op = "add" /\ tasks'[j].op = "cancel"
      OBVIOUS
    <3>1. i \in DOMAIN tasks
      BY <1>7
    <3>2. j \in DOMAIN tasks
      BY <1>3, <1>6, <1>8, <3>1
    <3> QED
      BY <1>0, <1>7, <3>1, <3>2 DEF CallsInOrder
  <2>8. \A u \in Timer : owner'[u] = "loop" =>
          \A i \in DOMAIN tasks' : tasks'[i].timer # u
    BY <1>0, <1>6, <1>8, <2>3 DEF CallsInOrder
  <2> QED
    BY <1>0, <1>1, <2>2, <2>4, <2>5, <2>6, <2>7, <2>8 DEF CallsInOrder
<1>12. Armed'
  BY <1>0, <1>1, RemovalArms
<1> QED
  BY <1>9, <1>10, <1>11, <1>12 DEF QueueInv

LEMMA ThreadCancelTimerInv ==
  ASSUME QueueInv, NEW t \in Timer, ThreadCancelTimer(t)
  PROVE  QueueInv'
<1> DEFINE call == [op |-> "cancel", timer |-> t]
<1>0. TypeOK /\ Placed /\ CallsInOrder /\ Armed
  BY DEF QueueInv
<1>1. /\ owner[t] = "thread" /\ object[t].interval # 0
      /\ owner' = [owner EXCEPT ![t] = None]
      /\ tasks' = Append(tasks, call)
      /\ UNCHANGED <<now, stepped, timerfd, timers, object, active, pc, stamp, batch>>
  BY DEF ThreadCancelTimer
<1>2. object[t] # None
  BY <1>0, <1>1, NoneIsNoValue DEF CallsInOrder
<1>3. \A i \in DOMAIN tasks : tasks[i].timer = t => tasks[i].op = "add"
  BY <1>0, <1>1, TaskTypes, NoneIsNoValue DEF CallsInOrder
<1>4. /\ owner'[t] = None
      /\ \A u \in Timer : u # t => owner'[u] = owner[u]
      /\ \A u \in Timer : owner'[u] \in {None, owner[u]}
  BY <1>0, <1>1 DEF TypeOK
<1>5. call \in [op : {"add", "cancel"}, timer : Timer]
  OBVIOUS
<1>6. call.op = "cancel" /\ call.timer = t
  OBVIOUS
<1> HIDE DEF call
<1>7. /\ tasks' \in Seq([op : {"add", "cancel"}, timer : Timer])
      /\ Len(tasks) \in Nat /\ DOMAIN tasks = 1..Len(tasks)
      /\ DOMAIN tasks' = 1..(Len(tasks) + 1)
      /\ \A i \in DOMAIN tasks : tasks'[i] = tasks[i]
      /\ tasks'[Len(tasks) + 1] = call
  BY <1>0, <1>1, <1>5, AppendTask
<1>8. \A i \in DOMAIN tasks' :
        (i \in DOMAIN tasks /\ tasks'[i] = tasks[i])
          \/ (i = Len(tasks) + 1 /\ tasks'[i] = call)
  BY <1>7
<1>9. TypeOK'
  BY <1>0, <1>1, <1>7 DEF TypeOK
<1>10. Placed'
  <2>1. \A u \in Timer : Adding(u)' <=> Adding(u)
    <3> SUFFICES ASSUME NEW u \in Timer PROVE Adding(u)' <=> Adding(u)
      OBVIOUS
    <3>1. call # [op |-> "add", timer |-> u]
      BY <1>6
    <3>2. Adding(u)' <=> \E i \in DOMAIN tasks' : tasks'[i] = [op |-> "add", timer |-> u]
      BY DEF Adding
    <3>3. DOMAIN tasks \subseteq DOMAIN tasks'
      BY <1>7
    <3> QED
      BY <1>7, <1>8, <3>1, <3>2, <3>3 DEF Adding
  <2>2. \A u \in Timer : (InTimers(u)' <=> InTimers(u)) /\ (InBatch(u)' <=> InBatch(u))
    BY <1>1 DEF InTimers, InBatch
  <2> QED
    BY <1>0, <1>1, <2>1, <2>2 DEF Placed
<1>11. CallsInOrder'
  <2>1. \A i \in DOMAIN tasks' : object'[tasks'[i].timer] # None
    BY <1>0, <1>1, <1>2, <1>6, <1>8 DEF CallsInOrder
  <2>2. \A i \in DOMAIN tasks' : tasks'[i].op = "cancel" =>
          /\ owner'[tasks'[i].timer] = None
          /\ object'[tasks'[i].timer].interval # 0
    BY <1>0, <1>1, <1>4, <1>6, <1>8, TaskTypes DEF CallsInOrder
  <2>3. \A i, j \in DOMAIN tasks' : i < j /\ tasks'[i].timer = tasks'[j].timer =>
          tasks'[i].op = "add" /\ tasks'[j].op = "cancel"
    <3> SUFFICES ASSUME NEW i \in DOMAIN tasks', NEW j \in DOMAIN tasks',
                        i < j, tasks'[i].timer = tasks'[j].timer
                 PROVE  tasks'[i].op = "add" /\ tasks'[j].op = "cancel"
      OBVIOUS
    <3>1. i \in DOMAIN tasks /\ tasks'[i] = tasks[i]
      BY <1>7
    <3>2. CASE j \in DOMAIN tasks
      BY <1>0, <1>7, <3>1, <3>2 DEF CallsInOrder
    <3>3. CASE tasks'[j] = call
      BY <1>3, <1>6, <3>1, <3>3
    <3> QED
      BY <1>8, <3>2, <3>3
  <2>4. \A u \in Timer : owner'[u] # None => object'[u] # None
    BY <1>0, <1>1, <1>4 DEF CallsInOrder
  <2>5. \A u \in Timer : owner'[u] = "loop" => owner[u] = "loop" /\ u # t
    BY <1>4, NoneIsNoValue
  <2>6. \A u \in Timer : owner'[u] = "loop" =>
          \A i \in DOMAIN tasks' : tasks'[i].timer # u
    BY <1>0, <1>6, <1>8, <2>5 DEF CallsInOrder
  <2>7. pc = "callback" /\ owner[batch[1][2]] = None => owner'[batch[1][2]] = None
    BY <1>0, <1>4, BatchTypes DEF Placed
  <2> QED
    BY <1>0, <1>1, <2>1, <2>2, <2>3, <2>4, <2>6, <2>7 DEF CallsInOrder
<1>12. Armed'
  BY <1>0, <1>1, RemovalArms
<1> QED
  BY <1>9, <1>10, <1>11, <1>12 DEF QueueInv

\* What is left of the tasks when the first was taken.
LEMMA TailTask ==
  ASSUME TypeOK, tasks # <<>>, tasks' = Tail(tasks)
  PROVE  /\ tasks' \in Seq([op : {"add", "cancel"}, timer : Timer])
         /\ Head(tasks) = tasks[1] /\ 1 \in DOMAIN tasks
         /\ \A i \in DOMAIN tasks' : /\ i + 1 \in DOMAIN tasks
                                     /\ tasks'[i] = tasks[i + 1]
                                     /\ 1 < i + 1 /\ i \in Nat
         /\ \A i \in DOMAIN tasks : i # 1 => i - 1 \in DOMAIN tasks' /\ i \in Nat
<1> DEFINE Call == [op : {"add", "cancel"}, timer : Timer]
<1>1. tasks \in Seq(Call)
  BY DEF TypeOK
<1> HIDE DEF Call
<1>2. /\ tasks' \in Seq(Call) /\ Len(tasks') = Len(tasks) - 1
      /\ \A i \in 1..Len(tasks') : tasks'[i] = tasks[i + 1]
  BY <1>1, HeadTailProperties
<1>3. /\ Len(tasks) \in Nat /\ Len(tasks') \in Nat
      /\ DOMAIN tasks = 1..Len(tasks) /\ DOMAIN tasks' = 1..Len(tasks')
      /\ Head(tasks) = tasks[1]
  BY <1>1, <1>2
<1> QED
  BY <1>2, <1>3 DEF Call

LEMMA RunTaskInv ==
  ASSUME QueueInv, RunTask
  PROVE  QueueInv'
<1>0. TypeOK /\ Placed /\ CallsInOrder /\ Armed
  BY DEF QueueInv
<1>1. /\ pc = "idle" /\ tasks # <<>> /\ tasks' = Tail(tasks)
      /\ UNCHANGED <<now, stepped, owner, active, pc, stamp, batch>>
  BY DEF RunTask
<1>2. /\ tasks' \in Seq([op : {"add", "cancel"}, timer : Timer])
      /\ Head(tasks) = tasks[1] /\ 1 \in DOMAIN tasks
      /\ \A i \in DOMAIN tasks' : /\ i + 1 \in DOMAIN tasks
                                  /\ tasks'[i] = tasks[i + 1]
                                  /\ 1 < i + 1 /\ i \in Nat
      /\ \A i \in DOMAIN tasks : i # 1 => i - 1 \in DOMAIN tasks' /\ i \in Nat
  BY <1>0, <1>1, TailTask
<1> PICK t \in Timer : t = Head(tasks).timer
  BY <1>0, <1>2, TaskTypes
<1>3. t = tasks[1].timer /\ object[t] # None /\ batch = <<>>
  BY <1>0, <1>1, <1>2, TaskTypes DEF CallsInOrder, Placed
<1>4. \A i \in DOMAIN tasks' : tasks'[i].timer = t =>
        tasks[1].op = "add" /\ tasks'[i].op = "cancel"
  BY <1>0, <1>2, <1>3 DEF CallsInOrder
<1>5. \A u \in Timer : ~InBatch(u) /\ ~InBatch(u)'
  BY <1>1, <1>3 DEF InBatch
<1>6. \A u \in Timer : Adding(u)' =>
        \E i \in DOMAIN tasks : i # 1 /\ tasks[i] = [op |-> "add", timer |-> u]
  <2> SUFFICES ASSUME NEW u \in Timer, Adding(u)'
               PROVE  \E i \in DOMAIN tasks : i # 1 /\ tasks[i] = [op |-> "add", timer |-> u]
    OBVIOUS
  <2>1. PICK i \in DOMAIN tasks' : tasks'[i] = [op |-> "add", timer |-> u]
    BY DEF Adding
  <2>2. i + 1 \in DOMAIN tasks /\ i + 1 # 1
    BY <1>2
  <2> QED
    BY <1>2, <2>1, <2>2
<1>7. \A u \in Timer : u # t => (Adding(u)' <=> Adding(u))
  <2> SUFFICES ASSUME NEW u \in Timer, u # t, Adding(u) PROVE Adding(u)'
    BY <1>6 DEF Adding
  <2>1. PICK i \in DOMAIN tasks : tasks[i] = [op |-> "add", timer |-> u]
    BY DEF Adding
  <2>2. i # 1
    BY <1>2, <2>1
  <2>3. i - 1 \in DOMAIN tasks' /\ tasks'[i - 1] = tasks[i]
    BY <1>2, <2>2
  <2> QED
    BY <2>1, <2>3 DEF Adding
<1>8. ~Adding(t)'
  <2> SUFFICES ASSUME Adding(t)' PROVE FALSE
    OBVIOUS
  <2>1. PICK i \in DOMAIN tasks' : tasks'[i] = [op |-> "add", timer |-> t]
    BY DEF Adding
  <2> QED
    BY <1>4, <2>1
<1>9. \A i, j \in DOMAIN tasks' : i < j /\ tasks'[i].timer = tasks'[j].timer =>
        tasks'[i].op = "add" /\ tasks'[j].op = "cancel"
  BY <1>0, <1>2 DEF CallsInOrder
<1>10. CASE Head(tasks).op = "add" /\ Insert(<<object[t].when, t>>) /\ UNCHANGED object
  <2> DEFINE e == <<object[t].when, t>>
  <2>1. e \in Entry /\ e[1] = object[t].when /\ e[2] = t
    BY <1>0, <1>3 DEF TypeOK, Object, Entry
  <2>2. timers' = timers \cup {e} /\ object' = object /\ Insert(e)
    BY <1>10 DEF Insert
  <2> HIDE DEF e
  <2>3. Adding(t)
    <3>1. tasks[1] = [op |-> "add", timer |-> t]
      BY <1>0, <1>2, <1>3, <1>10, TaskTypes
    <3> QED
      BY <1>2, <3>1 DEF Adding
  <2>4. Armed'
    BY <1>0, <1>1, <2>1, <2>2, InsertArms
  <2>5. TypeOK'
    <3>1. timerfd' \in Nat \cup {Off}
      BY <1>0, <2>1, <2>2, EntryIsPair, DelayIsPositive, NoneIsNoValue DEF Insert, TypeOK
    <3> QED
      BY <1>0, <1>1, <1>2, <2>1, <2>2, <3>1 DEF TypeOK
  <2>6. \A u \in Timer : InTimers(u)' <=> InTimers(u) \/ u = t
    BY <2>1, <2>2 DEF InTimers
  <2>7. Placed'
    <3>1. IsFiniteSet(timers')
      BY <1>0, <2>2, FS_AddElement DEF Placed
    <3>2. \A d \in timers' : object'[d[2]] # None /\ object'[d[2]].when = d[1]
      BY <1>0, <1>3, <2>1, <2>2 DEF Placed
    <3>3. \A u \in Timer : object'[u] # None =>
            /\ InTimers(u)' \/ InBatch(u)' \/ Adding(u)'
            /\ ~(InTimers(u)' /\ InBatch(u)')
            /\ ~(InTimers(u)' /\ Adding(u)')
            /\ ~(InBatch(u)' /\ Adding(u)')
      BY <1>0, <1>5, <1>7, <1>8, <2>2, <2>3, <2>6 DEF Placed
    <3> QED
      BY <1>0, <1>1, <1>3, <3>1, <3>2, <3>3 DEF Placed
  <2>8. CallsInOrder'
    BY <1>0, <1>1, <1>2, <1>9, <2>2 DEF CallsInOrder
  <2> QED
    BY <2>4, <2>5, <2>7, <2>8 DEF QueueInv
<1>11. CASE Head(tasks).op = "cancel" /\ Erase(t) /\ UNCHANGED timerfd
  <2>1. /\ \A e \in timers : e \in timers' <=> e[2] # t
        /\ timers' \subseteq timers
        /\ object' = [object EXCEPT ![t] = None]
    BY <1>0, <1>3, <1>11, EraseTakesOut
  <2>2. /\ object'[t] = None
        /\ \A u \in Timer : u # t => object'[u] = object[u]
    BY <1>0, <1>3, <2>1 DEF TypeOK
  <2>3. /\ \A i \in DOMAIN tasks' : tasks'[i].timer # t
        /\ owner[t] = None
    BY <1>0, <1>2, <1>3, <1>4, <1>11 DEF CallsInOrder
  <2>4. TypeOK'
    BY <1>0, <1>1, <1>2, <1>11, <2>1 DEF TypeOK
  <2>5. Placed'
    <3>1. IsFiniteSet(timers')
      BY <1>0, <2>1, FS_Subset DEF Placed
    <3>2. \A d \in timers' : object'[d[2]] # None /\ object'[d[2]].when = d[1]
      BY <1>0, <2>1, <2>2, EntryIsPair DEF Placed, TypeOK
    <3>3. \A u \in Timer : InTimers(u)' <=> InTimers(u) /\ u # t
      BY <2>1 DEF InTimers
    <3>4. \A u \in Timer : object'[u] # None =>
            /\ InTimers(u)' \/ InBatch(u)' \/ Adding(u)'
            /\ ~(InTimers(u)' /\ InBatch(u)')
            /\ ~(InTimers(u)' /\ Adding(u)')
            /\ ~(InBatch(u)' /\ Adding(u)')
      BY <1>0, <1>5, <1>7, <2>2, <3>3 DEF Placed
    <3> QED
      BY <1>0, <1>1, <1>3, <3>1, <3>2, <3>4 DEF Placed
  <2>6. CallsInOrder'
    <3>1. \A i \in DOMAIN tasks' :
            /\ tasks'[i].timer \in Timer
            /\ object'[tasks'[i].timer] = object[tasks'[i].timer]
            /\ tasks'[i] = tasks[i + 1] /\ i + 1 \in DOMAIN tasks
      BY <1>0, <1>2, <2>2, <2>3, TaskTypes
    <3>2. \A i \in DOMAIN tasks' :
            /\ object'[tasks'[i].timer] # None
            /\ tasks'[i].op = "cancel" =>
                 /\ owner'[tasks'[i].timer] = None
                 /\ object'[tasks'[i].timer].interval # 0
      BY <1>0, <1>1, <3>1 DEF CallsInOrder
    <3>3. \A u \in Timer : owner'[u] # None => object'[u] # None
      BY <1>0, <1>1, <2>2, <2>3 DEF CallsInOrder
    <3>4. \A u \in Timer : owner'[u] = "loop" =>
            \A i \in DOMAIN tasks' : tasks'[i].timer # u
      BY <1>0, <1>1, <3>1 DEF CallsInOrder
    <3> QED
      BY <1>1, <1>9, <3>2, <3>3, <3>4 DEF CallsInOrder
  <2>7. Armed'
    BY <1>0, <1>1, <1>11, <2>1, RemovalArms
  <2> QED
    BY <2>4, <2>5, <2>6, <2>7 DEF QueueInv
<1> QED
  BY <1>10, <1>11 DEF RunTask

-----------------------------------------------------------------------------
(* handleRead() and the clocks. *)

LEMMA HandleReadInv ==
  ASSUME QueueInv, HandleRead
  PROVE  QueueInv'
<1>0. TypeOK /\ Placed /\ CallsInOrder
  BY DEF QueueInv
<1>1. /\ pc = "idle" /\ pc' = "handling" /\ active' = FALSE /\ stamp' = now
      /\ timerfd' = IF timerfd = 0 THEN Off ELSE timerfd
      /\ batch' \in InOrder(Expired) /\ timers' = timers \ Expired
      /\ UNCHANGED <<now, stepped, object, owner, tasks>>
  BY DEF HandleRead
<1>2. /\ Expired \subseteq timers /\ Expired \subseteq Entry /\ IsFiniteSet(Expired)
      /\ IsFiniteSet(timers')
  BY <1>0, <1>1, FS_Subset DEF Expired, TypeOK, Placed
<1>3. /\ batch' \in Seq(Expired)
      /\ \A i, j \in DOMAIN batch' : batch'[i] = batch'[j] => i = j
      /\ \A e \in Expired : \E i \in DOMAIN batch' : batch'[i] = e
  BY <1>1, <1>2, InOrderLists
<1>4. \A i \in DOMAIN batch' : batch'[i] \in Expired
  BY <1>3
<1>5. batch' \in Seq(Entry)
  BY <1>2, <1>3, SeqMonotonic
<1>6. \A d, e \in timers : d[2] = e[2] => d = e
  <2> SUFFICES ASSUME NEW d \in timers, NEW e \in timers, d[2] = e[2] PROVE d = e
    OBVIOUS
  <2>1. d[1] = e[1]
    BY <1>0 DEF Placed
  <2>2. d = <<d[1], d[2]>> /\ e = <<e[1], e[2]>>
    BY <1>0, EntryIsPair DEF TypeOK
  <2> QED
    BY <2>1, <2>2
<1>7. TypeOK'
  BY <1>0, <1>1, <1>5 DEF TypeOK
<1>8. \A u \in Timer : ~InBatch(u)
  BY <1>0, <1>1 DEF Placed, InBatch
<1>9. \A u \in Timer : /\ InBatch(u)' <=> \E e \in Expired : e[2] = u
                       /\ InTimers(u)' <=> \E e \in timers \ Expired : e[2] = u
                       /\ Adding(u)' <=> Adding(u)
  BY <1>1, <1>3, <1>4 DEF InBatch, InTimers, Adding
<1>10. \A u \in Timer : /\ InTimers(u) <=> InTimers(u)' \/ InBatch(u)'
                        /\ ~(InTimers(u)' /\ InBatch(u)')
  BY <1>2, <1>6, <1>9 DEF InTimers
<1>11. \A u \in Timer : object'[u] # None =>
         /\ InTimers(u)' \/ InBatch(u)' \/ Adding(u)'
         /\ ~(InTimers(u)' /\ InBatch(u)')
         /\ ~(InTimers(u)' /\ Adding(u)')
         /\ ~(InBatch(u)' /\ Adding(u)')
  BY <1>0, <1>1, <1>8, <1>9, <1>10 DEF Placed
<1>12. \A i \in DOMAIN batch' :
         /\ object'[batch'[i][2]] # None
         /\ object'[batch'[i][2]].when = batch'[i][1]
         /\ batch'[i][1] <= stamp'
  BY <1>0, <1>1, <1>2, <1>4 DEF Placed, Expired
<1>13. Placed'
  BY <1>0, <1>1, <1>2, <1>3, <1>4, <1>6, <1>11, <1>12 DEF Placed
<1>14. CallsInOrder'
  BY <1>0, <1>1 DEF CallsInOrder
<1>15. Armed'
  BY <1>1 DEF Armed
<1> QED
  BY <1>7, <1>13, <1>14, <1>15 DEF QueueInv

LEMMA RunTimerInv ==
  ASSUME QueueInv, RunTimer
  PROVE  QueueInv'
<1>0. TypeOK /\ Placed /\ CallsInOrder
  BY DEF QueueInv
<1>1. /\ batch # <<>> /\ pc' = "callback" /\ 1 \in DOMAIN batch
      /\ Head(batch) = batch[1] /\ batch[1][2] \in Timer
      /\ UNCHANGED <<now, stepped, timerfd, timers, object, active, stamp, batch, tasks>>
  BY <1>0, BatchTypes DEF RunTimer
<1> PICK t \in Timer : t = batch[1][2]
  BY <1>1
<1>2. owner' = IF object[t].interval = 0 THEN [owner EXCEPT ![t] = None] ELSE owner
  BY <1>1 DEF RunTimer
<1>3. /\ owner' \in [Timer -> {"loop", "thread", None}]
      /\ \A u \in Timer : owner'[u] \in {None, owner[u]}
      /\ object[t].interval = 0 => owner'[t] = None
  BY <1>0, <1>2 DEF TypeOK
<1>4. TypeOK'
  BY <1>0, <1>1, <1>3 DEF TypeOK
<1>5. Placed'
  BY <1>0, <1>1 DEF Placed, InTimers, InBatch, Adding
<1>6. CallsInOrder'
  <2>1. \A i \in DOMAIN tasks : owner'[tasks[i].timer] \in {None, owner[tasks[i].timer]}
    BY <1>0, <1>3, TaskTypes
  <2>2. \A u \in Timer : owner'[u] = "loop" => owner[u] = "loop"
    BY <1>3, NoneIsNoValue
  <2> QED
    BY <1>0, <1>1, <1>3, <2>1, <2>2 DEF CallsInOrder
<1>7. Armed'
  BY <1>1 DEF Armed
<1> QED
  BY <1>4, <1>5, <1>6, <1>7 DEF QueueInv

\* The rest of the batch.
LEMMA TailBatch ==
  ASSUME TypeOK, batch # <<>>, batch' = Tail(batch)
  PROVE  /\ batch' \in Seq(Entry)
         /\ \A i \in DOMAIN batch' : /\ i + 1 \in DOMAIN batch
                                     /\ batch'[i] = batch[i + 1]
                                     /\ i + 1 # 1 /\ i \in Nat
         /\ \A i \in DOMAIN batch : i # 1 => i - 1 \in DOMAIN batch' /\ i \in Nat
<1>1. batch \in Seq(Entry)
  BY DEF TypeOK
<1>2. /\ batch' \in Seq(Entry) /\ Len(batch') = Len(batch) - 1
      /\ \A i \in 1..Len(batch') : batch'[i] = batch[i + 1]
  BY <1>1, HeadTailProperties
<1>3. /\ Len(batch) \in Nat /\ Len(batch') \in Nat
      /\ DOMAIN batch = 1..Len(batch) /\ DOMAIN batch' = 1..Len(batch')
  BY <1>1, <1>2
<1> QED
  BY <1>2, <1>3

LEMMA TimerReturnsInv ==
  ASSUME QueueInv, TimerReturns
  PROVE  QueueInv'
<1>0. TypeOK /\ Placed /\ CallsInOrder
  BY DEF QueueInv
<1>1. /\ pc = "callback" /\ pc' = "handling" /\ batch' = Tail(batch)
      /\ UNCHANGED <<now, stepped, timerfd, owner, active, stamp, tasks>>
  BY DEF TimerReturns
<1>2. /\ batch # <<>> /\ 1 \in DOMAIN batch
      /\ Head(batch) = batch[1] /\ batch[1][2] \in Timer
  BY <1>0, <1>1, BatchTypes DEF Placed
<1> PICK t \in Timer : t = batch[1][2]
  BY <1>2
<1>3. /\ object[t] # None /\ InBatch(t) /\ ~InTimers(t) /\ ~Adding(t)
      /\ object[t].interval = 0 => owner[t] = None
  BY <1>0, <1>1, <1>2 DEF Placed, CallsInOrder, InBatch
<1>4. /\ batch' \in Seq(Entry)
      /\ \A i \in DOMAIN batch' : /\ i + 1 \in DOMAIN batch
                                  /\ batch'[i] = batch[i + 1]
                                  /\ i + 1 # 1 /\ i \in Nat
      /\ \A i \in DOMAIN batch : i # 1 => i - 1 \in DOMAIN batch' /\ i \in Nat
  BY <1>0, <1>1, <1>2, TailBatch
<1>5. \A i \in DOMAIN batch' : batch'[i][2] # t /\ batch'[i][2] \in Timer
  BY <1>0, <1>2, <1>4, BatchTypes DEF Placed
<1>6. \A u \in Timer : /\ InBatch(u)' <=> InBatch(u) /\ u # t
                       /\ Adding(u)' <=> Adding(u)
  <2> SUFFICES ASSUME NEW u \in Timer
               PROVE  /\ InBatch(u)' <=> InBatch(u) /\ u # t
                      /\ Adding(u)' <=> Adding(u)
    OBVIOUS
  <2>1. Adding(u)' <=> Adding(u)
    BY <1>1 DEF Adding
  <2>2. InBatch(u)' => InBatch(u) /\ u # t
    BY <1>4, <1>5 DEF InBatch
  <2>3. ASSUME InBatch(u), u # t PROVE InBatch(u)'
    <3>1. PICK i \in DOMAIN batch : batch[i][2] = u
      BY <2>3 DEF InBatch
    <3>2. i # 1
      BY <2>3, <3>1
    <3>3. i - 1 \in DOMAIN batch' /\ batch'[i - 1] = batch[i]
      BY <1>4, <3>2
    <3> QED
      BY <3>1, <3>3 DEF InBatch
  <2> QED
    BY <2>1, <2>2, <2>3
<1>7. \A i, j \in DOMAIN batch' : batch'[i][2] = batch'[j][2] => i = j
  BY <1>0, <1>4 DEF Placed
<1>8. Armed'
  BY <1>1 DEF Armed
<1>9. \A i \in DOMAIN tasks : tasks[i].timer = t =>
        tasks[i].op = "cancel" /\ object[t].interval # 0
  <2> SUFFICES ASSUME NEW i \in DOMAIN tasks, tasks[i].timer = t
               PROVE  tasks[i].op = "cancel"
    BY <1>0 DEF CallsInOrder
  <2> QED
    BY <1>0, <1>3, TaskTypes DEF Adding
<1>10. CASE object[t].interval = 0
  <2>1. object' = [object EXCEPT ![t] = None] /\ timers' = timers
    BY <1>2, <1>10 DEF TimerReturns
  <2>2. /\ object'[t] = None
        /\ \A u \in Timer : u # t => object'[u] = object[u]
    BY <1>0, <2>1 DEF TypeOK
  <2>3. \A e \in timers : e[2] # t /\ e[2] \in Timer
    BY <1>0, <1>3, EntryIsPair DEF InTimers, TypeOK
  <2>4. TypeOK'
    BY <1>0, <1>1, <1>4, <2>1 DEF TypeOK
  <2>5. \A u \in Timer : InTimers(u)' <=> InTimers(u)
    BY <2>1 DEF InTimers
  <2>6. Placed'
    <3>1. \A e \in timers' : object'[e[2]] # None /\ object'[e[2]].when = e[1]
      BY <1>0, <2>1, <2>2, <2>3 DEF Placed
    <3>2. \A i \in DOMAIN batch' :
            /\ object'[batch'[i][2]] # None
            /\ object'[batch'[i][2]].when = batch'[i][1]
            /\ batch'[i][1] <= stamp'
      <4> SUFFICES ASSUME NEW i \in DOMAIN batch'
                   PROVE  /\ object'[batch'[i][2]] # None
                          /\ object'[batch'[i][2]].when = batch'[i][1]
                          /\ batch'[i][1] <= stamp'
        OBVIOUS
      <4>1. i + 1 \in DOMAIN batch /\ batch'[i] = batch[i + 1]
        BY <1>4
      <4>2. object'[batch'[i][2]] = object[batch'[i][2]]
        BY <1>5, <2>2
      <4>3. /\ object[batch[i + 1][2]] # None
            /\ object[batch[i + 1][2]].when = batch[i + 1][1]
            /\ batch[i + 1][1] <= stamp
        BY <1>0, <4>1 DEF Placed
      <4> QED
        BY <1>1, <4>1, <4>2, <4>3
    <3>3. \A u \in Timer : object'[u] # None =>
            /\ InTimers(u)' \/ InBatch(u)' \/ Adding(u)'
            /\ ~(InTimers(u)' /\ InBatch(u)')
            /\ ~(InTimers(u)' /\ Adding(u)')
            /\ ~(InBatch(u)' /\ Adding(u)')
      BY <1>0, <1>6, <2>2, <2>5 DEF Placed
    <3> QED
      BY <1>0, <1>1, <1>7, <2>1, <3>1, <3>2, <3>3 DEF Placed
  <2>7. CallsInOrder'
    <3>1. \A i \in DOMAIN tasks : object'[tasks[i].timer] = object[tasks[i].timer]
      BY <1>0, <1>9, <1>10, <2>2, TaskTypes
    <3>2. \A u \in Timer : owner'[u] # None => object'[u] # None
      BY <1>0, <1>1, <1>3, <1>10, <2>2 DEF CallsInOrder
    <3> QED
      BY <1>0, <1>1, <3>1, <3>2 DEF CallsInOrder
  <2> QED
    BY <1>8, <2>4, <2>6, <2>7 DEF QueueInv
<1>11. CASE object[t].interval # 0
  <2>1. /\ object' = [object EXCEPT ![t].when = @ + object[t].interval]
        /\ timers' = timers \cup {<<object'[t].when, t>>}
    BY <1>2, <1>11 DEF TimerReturns
  <2>2. object[t] \in Object
    BY <1>0, <1>3 DEF TypeOK
  <2>3. object'[t] = [object[t] EXCEPT !.when = @ + object[t].interval]
    BY <1>0, <2>1 DEF TypeOK
  <2>4. /\ object'[t] \in Object /\ object'[t].interval = object[t].interval
        /\ \A u \in Timer : u # t => object'[u] = object[u]
        /\ object' \in [Timer -> Object \cup {None}]
    <3>1. object[t].interval \in Nat /\ object[t].when \in Nat
      BY <2>2, NoneIsNoValue DEF Object
    <3>2. object'[t] \in Object /\ object'[t].interval = object[t].interval
      BY <2>2, <2>3, <3>1 DEF Object
    <3>3. \A u \in Timer : u # t => object'[u] = object[u]
      BY <1>0, <2>1 DEF TypeOK
    <3>4. object' \in [Timer -> Object \cup {None}]
      BY <1>0, <2>1, <2>3, <3>2, <3>3 DEF TypeOK
    <3> QED
      BY <3>2, <3>3, <3>4
  <2> DEFINE e == <<object'[t].when, t>>
  <2>5. e \in Entry /\ e[1] = object'[t].when /\ e[2] = t /\ object'[t] # None
    BY <2>4, NoneIsNoValue DEF Entry, Object
  <2>6. timers' = timers \cup {e}
    BY <2>1
  <2> HIDE DEF e
  <2>7. \A d \in timers : d[2] # t /\ d[2] \in Timer
    BY <1>0, <1>3, EntryIsPair DEF InTimers, TypeOK
  <2>8. TypeOK'
    BY <1>0, <1>1, <1>4, <2>4, <2>5, <2>6 DEF TypeOK
  <2>9. \A u \in Timer : InTimers(u)' <=> InTimers(u) \/ u = t
    BY <2>5, <2>6 DEF InTimers
  <2>10. Placed'
    <3>1. \A d \in timers' : object'[d[2]] # None /\ object'[d[2]].when = d[1]
      BY <1>0, <2>4, <2>5, <2>6, <2>7 DEF Placed
    <3>2. \A i \in DOMAIN batch' :
            /\ object'[batch'[i][2]] # None
            /\ object'[batch'[i][2]].when = batch'[i][1]
            /\ batch'[i][1] <= stamp'
      <4> SUFFICES ASSUME NEW i \in DOMAIN batch'
                   PROVE  /\ object'[batch'[i][2]] # None
                          /\ object'[batch'[i][2]].when = batch'[i][1]
                          /\ batch'[i][1] <= stamp'
        OBVIOUS
      <4>1. i + 1 \in DOMAIN batch /\ batch'[i] = batch[i + 1]
        BY <1>4
      <4>2. object'[batch'[i][2]] = object[batch'[i][2]]
        BY <1>5, <2>4
      <4>3. /\ object[batch[i + 1][2]] # None
            /\ object[batch[i + 1][2]].when = batch[i + 1][1]
            /\ batch[i + 1][1] <= stamp
        BY <1>0, <4>1 DEF Placed
      <4> QED
        BY <1>1, <4>1, <4>2, <4>3
    <3>3. \A u \in Timer : object'[u] # None =>
            /\ InTimers(u)' \/ InBatch(u)' \/ Adding(u)'
            /\ ~(InTimers(u)' /\ InBatch(u)')
            /\ ~(InTimers(u)' /\ Adding(u)')
            /\ ~(InBatch(u)' /\ Adding(u)')
      BY <1>0, <1>3, <1>6, <2>4, <2>9 DEF Placed
    <3>4. IsFiniteSet(timers')
      BY <1>0, <2>6, FS_AddElement DEF Placed
    <3> QED
      BY <1>0, <1>1, <1>7, <3>1, <3>2, <3>3, <3>4 DEF Placed
  <2>11. CallsInOrder'
    <3>1. \A i \in DOMAIN tasks :
            /\ object'[tasks[i].timer] # None
            /\ object'[tasks[i].timer].interval = object[tasks[i].timer].interval
      BY <1>0, <2>4, <2>5, TaskTypes DEF CallsInOrder
    <3>2. \A u \in Timer : owner'[u] # None => object'[u] # None
      BY <1>0, <1>1, <2>4, <2>5 DEF CallsInOrder
    <3> QED
      BY <1>0, <1>1, <3>1, <3>2 DEF CallsInOrder
  <2> QED
    BY <1>8, <2>8, <2>10, <2>11 DEF QueueInv
<1> QED
  BY <1>10, <1>11

LEMMA HandleReadReturnsInv ==
  ASSUME QueueInv, HandleReadReturns
  PROVE  QueueInv'
<1>0. TypeOK /\ Placed /\ CallsInOrder
  BY DEF QueueInv
<1>1. /\ batch = <<>> /\ pc' = "idle"
      /\ timerfd' = IF timers = {} THEN timerfd ELSE Delay(First(timers)[1])
      /\ UNCHANGED <<now, stepped, timers, object, owner, active, stamp, batch, tasks>>
  BY DEF HandleReadReturns
<1>2. now \in Nat /\ timers \subseteq Entry /\ Off \notin Nat
  BY <1>0, NoneIsNoValue DEF TypeOK
<1>3. timers # {} =>
        /\ timerfd' \in Nat
        /\ \A e \in timers : timerfd' <= Delay(e[1])
  <2> SUFFICES ASSUME timers # {}
               PROVE  /\ timerfd' \in Nat
                      /\ \A e \in timers : timerfd' <= Delay(e[1])
    OBVIOUS
  <2>1. First(timers) \in timers /\ \A e \in timers : First(timers)[1] <= e[1]
    BY <1>2, FirstIsDueFirst
  <2>2. \A e \in timers : e[1] \in Nat
    BY <1>2, EntryIsPair
  <2> QED
    BY <1>1, <1>2, <2>1, <2>2, DelayIsPositive
<1>4. TypeOK'
  BY <1>0, <1>1, <1>3 DEF TypeOK
<1>5. Placed'
  BY <1>0, <1>1 DEF Placed, InTimers, InBatch, Adding
<1>6. CallsInOrder'
  BY <1>0, <1>1 DEF CallsInOrder
<1>7. Armed'
  <2>1. \A e \in timers : Delay(e[1])' = Delay(e[1])
    BY <1>1 DEF Delay
  <2> QED
    BY <1>1, <1>2, <1>3, <2>1 DEF Armed
<1> QED
  BY <1>4, <1>5, <1>6, <1>7 DEF QueueInv

LEMMA TickInv ==
  ASSUME QueueInv, Tick
  PROVE  QueueInv'
<1>0. TypeOK /\ Placed /\ CallsInOrder /\ Armed
  BY DEF QueueInv
<1>1. /\ now' = Min({now + 1, MaxTime})
      /\ timerfd' = IF timerfd \in {0, Off} THEN timerfd ELSE timerfd - 1
      /\ UNCHANGED <<stepped, timers, object, owner, active, pc, stamp, batch, tasks>>
  BY DEF Tick
<1>2. now \in Nat /\ now <= MaxTime /\ timerfd \in Nat \cup {Off} /\ Off \notin Nat
  BY <1>0, NoneIsNoValue DEF TypeOK
<1>3. now' = IF now + 1 <= MaxTime THEN now + 1 ELSE MaxTime
  BY <1>1, <1>2, NoneIsNoValue DEF Min
<1>4. now' \in 0..MaxTime /\ now <= now' /\ now' <= now + 1
  BY <1>2, <1>3, NoneIsNoValue
<1>5. timerfd' \in Nat \cup {Off}
  BY <1>1, <1>2
<1>6. TypeOK'
  BY <1>0, <1>1, <1>4, <1>5 DEF TypeOK
<1>7. Placed'
  BY <1>0, <1>1 DEF Placed, InTimers, InBatch, Adding
<1>8. CallsInOrder'
  BY <1>0, <1>1 DEF CallsInOrder
<1>9. Armed'
  <2> SUFFICES ASSUME pc = "idle", timers # {}
               PROVE  /\ timerfd' # Off
                      /\ ~stepped => \A e \in timers : timerfd' <= Delay(e[1])'
    BY <1>1 DEF Armed
  <2>1. timerfd \in Nat /\ timerfd' \in Nat
    BY <1>0, <1>1, <1>2 DEF Armed
  <2>2. ASSUME ~stepped, NEW e \in timers PROVE timerfd' <= Delay(e[1])'
    <3>1. timerfd <= Delay(e[1])
      BY <1>0, <2>2 DEF Armed
    <3>2. e[1] \in Nat
      BY <1>0, EntryIsPair DEF TypeOK
    <3>3. Delay(e[1])' = IF e[1] > now' THEN e[1] - now' ELSE 1
      BY DEF Delay
    <3> QED
      BY <1>1, <1>2, <1>4, <2>1, <3>1, <3>2, <3>3 DEF Delay
  <2> QED
    BY <1>2, <2>1, <2>2
<1> QED
  BY <1>6, <1>7, <1>8, <1>9 DEF QueueInv

LEMMA StepInv == QueueInv /\ [Next]_vars => QueueInv'
<1> SUFFICES ASSUME QueueInv, [Next]_vars PROVE QueueInv'
  OBVIOUS
<1>1. ASSUME NEW t \in Timer, NEW when \in 0..MaxTime, NEW interval \in Interval,
             LoopAddTimer(t, when, interval) \/ ThreadAddTimer(t, when, interval)
      PROVE  QueueInv'
  BY <1>1, LoopAddTimerInv, ThreadAddTimerInv
<1>2. ASSUME NEW t \in Timer, LoopCancelTimer(t) \/ ThreadCancelTimer(t)
      PROVE  QueueInv'
  BY <1>2, LoopCancelTimerInv, ThreadCancelTimerInv
<1>3. CASE Poll
  BY <1>3 DEF Poll, QueueInv, TypeOK, Placed, CallsInOrder, Armed, InTimers,
              InBatch, Adding, Delay
<1>4. CASE SetClock
  <2>1. /\ stepped' = TRUE /\ now' \in 0..MaxTime
        /\ UNCHANGED <<timerfd, timers, object, owner, active, pc, stamp, batch, tasks>>
    BY <1>4 DEF SetClock
  <2>2. TypeOK' /\ Placed' /\ CallsInOrder'
    BY <2>1 DEF QueueInv, TypeOK, Placed, CallsInOrder, InTimers, InBatch, Adding
  <2>3. Armed'
    BY <2>1 DEF QueueInv, Armed
  <2> QED
    BY <2>2, <2>3 DEF QueueInv
<1>5. CASE UNCHANGED vars
  BY <1>5 DEF vars, QueueInv, TypeOK, Placed, CallsInOrder, Armed, InTimers,
              InBatch, Adding, Delay
<1> QED
  BY <1>1, <1>2, <1>3, <1>4, <1>5, HandleReadInv, RunTimerInv, TimerReturnsInv,
     HandleReadReturnsInv, RunTaskInv, TickInv DEF Next, LoopStep, Calls

-----------------------------------------------------------------------------
(* The theorems. *)

LEMMA Invariance == Spec => []QueueInv
  BY InitInv, StepInv, PTL DEF Spec

\* The queue, its timers and its tasks have the types their declarations give
\* them: due times grow without bound, so this needs the intervals to be naturals.
THEOREM TypeCorrect == Spec => []TypeOK
<1>1. QueueInv => TypeOK
  BY DEF QueueInv
<1> QED
  BY <1>1, Invariance, PTL

\* While timers wait and the loop is not in handleRead(), the timerfd is armed
\* and, the clock not having been set, expires before the first of them is due.
THEOREM TimerfdArmedInTime == Spec => []ArmedInTime
<1>1. ASSUME QueueInv PROVE ArmedInTime
  <2> SUFFICES ASSUME pc = "idle", timers # {}
               PROVE  /\ timerfd # Off
                      /\ ~stepped => timerfd <= Delay(First(timers)[1])
    BY DEF ArmedInTime
  <2>1. First(timers) \in timers
    BY <1>1, FirstIsDueFirst DEF QueueInv, TypeOK
  <2> QED
    BY <1>1, <2>1 DEF QueueInv, Armed
<1> QED
  BY <1>1, Invariance, PTL

\* No entry, no task and no element of the batch is of a timer that was deleted,
\* and every timer that exists is in exactly one of the three places, once.
THEOREM EveryTimerInOnePlace == Spec => []OwnershipInv
<1>1. ASSUME QueueInv PROVE OwnershipInv
  <2>0. TypeOK /\ Placed /\ CallsInOrder
    BY <1>1 DEF QueueInv
  <2>1. \A e \in timers \cup Range(batch) :
          object[e[2]] # None /\ object[e[2]].when = e[1]
    BY <2>0 DEF Placed, Range
  <2>2. ASSUME NEW t \in Timer, object[t] # None
        PROVE  Cardinality({e \in timers : e[2] = t})
                 + Cardinality({i \in DOMAIN batch : batch[i][2] = t})
                 + (IF Adding(t) THEN 1 ELSE 0) = 1
    <3> DEFINE E == {e \in timers : e[2] = t}
               B == {i \in DOMAIN batch : batch[i][2] = t}
    <3>1. InTimers(t) => \E e : E = {e}
      <4> SUFFICES ASSUME InTimers(t) PROVE \E e : E = {e}
        OBVIOUS
      <4>1. PICK e \in timers : e[2] = t
        BY DEF InTimers
      <4>2. \A d \in E : d = e
        <5> SUFFICES ASSUME NEW d \in timers, d[2] = t PROVE d = e
          OBVIOUS
        <5>1. d[1] = e[1]
          BY <2>0, <4>1 DEF Placed
        <5>2. d = <<d[1], d[2]>> /\ e = <<e[1], e[2]>>
          BY <2>0, EntryIsPair DEF TypeOK
        <5> QED
          BY <4>1, <5>1, <5>2
      <4>3. E = {e}
        BY <4>1, <4>2
      <4> QED
        BY <4>3
    <3>2. ~InTimers(t) => E = {}
      BY DEF InTimers
    <3>3. InBatch(t) => \E i : B = {i}
      <4> SUFFICES ASSUME InBatch(t) PROVE \E i : B = {i}
        OBVIOUS
      <4>1. PICK i \in DOMAIN batch : batch[i][2] = t
        BY DEF InBatch
      <4>2. B = {i}
        BY <2>0, <4>1 DEF Placed
      <4> QED
        BY <4>2
    <3>4. ~InBatch(t) => B = {}
      BY DEF InBatch
    <3> HIDE DEF E, B
    <3>5. Cardinality(E) = IF InTimers(t) THEN 1 ELSE 0
      BY <3>1, <3>2, FS_EmptySet, FS_Singleton
    <3>6. Cardinality(B) = IF InBatch(t) THEN 1 ELSE 0
      BY <3>3, <3>4, FS_EmptySet, FS_Singleton
    <3>7. /\ InTimers(t) \/ InBatch(t) \/ Adding(t)
          /\ ~(InTimers(t) /\ InBatch(t))
          /\ ~(InTimers(t) /\ Adding(t))
          /\ ~(InBatch(t) /\ Adding(t))
      BY <2>0, <2>2 DEF Placed
    <3>8. Cardinality(E) + Cardinality(B) + (IF Adding(t) THEN 1 ELSE 0) = 1
      BY <3>5, <3>6, <3>7
    <3> QED
      BY <3>8 DEF E, B
  <2> QED
    BY <2>0, <2>1, <2>2 DEF OwnershipInv, CallsInOrder
<1> QED
  BY <1>1, Invariance, PTL

-----------------------------------------------------------------------------
(* The refinement. *)

\* The timer that runs and the time the loop acts on, as TimerService sees them.
Running == IF pc = "callback" THEN Head(batch)[2] ELSE None
Clock   == IF pc = "idle" THEN now ELSE stamp

LEMMA AddServed ==
  ASSUME QueueInv, NEW t \in Timer, NEW when \in 0..MaxTime,
         NEW interval \in Interval, MayAdd(t),
         object' = [object EXCEPT ![t] = [when |-> when, interval |-> interval]],
         UNCHANGED <<Running, Clock>>
  PROVE  TS!Next
<1>1. when \in Nat /\ interval \in Nat
  BY NoneIsNoValue
<1>2. object'[t] = [when |-> when, interval |-> interval]
  BY DEF QueueInv, TypeOK
<1>3. object[t] = None /\ object'[t] \in [when : Nat, interval : Nat]
  BY <1>1, <1>2 DEF MayAdd
<1>4. object' = [object EXCEPT ![t] = object'[t]]
  BY <1>2
<1>5. TS!Add(t)
  BY <1>3, <1>4 DEF TS!Add, Running, Clock
<1> QED
  BY <1>5 DEF TS!Next

LEMMA CancelServed ==
  ASSUME NEW t \in Timer, object[t] # None, Running # t, Erase(t),
         UNCHANGED <<Running, Clock>>
  PROVE  TS!Next
<1>1. TS!Cancel(t)
  BY DEF TS!Cancel, Erase, Running, Clock
<1> QED
  BY <1>1 DEF TS!Next

LEMMA RunServed ==
  ASSUME QueueInv, RunTimer
  PROVE  TS!Next
<1>1. /\ pc = "handling" /\ pc' = "callback" /\ batch # <<>>
      /\ UNCHANGED <<now, object, stamp, batch>>
  BY DEF RunTimer
<1>2. 1 \in DOMAIN batch /\ Head(batch) = batch[1]
  BY <1>1, BatchTypes DEF QueueInv
<1> PICK t \in Timer : t = Head(batch)[2]
  BY <1>2, BatchTypes DEF QueueInv
<1>3. object[t] # None /\ object[t].when <= stamp
  BY <1>2 DEF QueueInv, Placed
<1>4. TS!Run(t)
  BY <1>1, <1>3 DEF TS!Run
<1> QED
  BY <1>4 DEF TS!Next

LEMMA ReturnServed ==
  ASSUME QueueInv, TimerReturns
  PROVE  TS!Next
<1>1. /\ pc = "callback" /\ pc' = "handling"
      /\ UNCHANGED <<now, stamp>>
  BY DEF TimerReturns
<1>2. 1 \in DOMAIN batch /\ Head(batch) = batch[1]
  BY <1>1, BatchTypes DEF QueueInv, Placed
<1> PICK t \in Timer : t = Head(batch)[2]
  BY <1>2, BatchTypes DEF QueueInv
<1>3. object \in [Timer -> Object \cup {None}] /\ object[t] \in Object
  BY <1>2 DEF QueueInv, Placed, TypeOK
<1>4. object' = [object EXCEPT ![t] =
                   IF @.interval = 0
                   THEN None
                   ELSE [when |-> @.when + @.interval, interval |-> @.interval]]
  <2>1. CASE object[t].interval = 0
    BY <2>1 DEF TimerReturns
  <2>2. CASE object[t].interval # 0
    <3> DEFINE later == [object[t] EXCEPT !.when = @ + object[t].interval]
    <3>1. object' = [object EXCEPT ![t].when = @ + object[t].interval]
      BY <2>2 DEF TimerReturns
    <3>2. object' = [object EXCEPT ![t] = later]
      BY <1>3, <3>1
    <3>3. later = [when |-> object[t].when + object[t].interval,
                   interval |-> object[t].interval]
      BY <1>3 DEF Object
    <3> QED
      BY <2>2, <3>2, <3>3
  <2> QED
    BY <2>1, <2>2
<1>5. TS!Return(t)
  BY <1>1, <1>4 DEF TS!Return
<1> QED
  BY <1>5 DEF TS!Next

\* Every step of the queue is a step of TimerService or leaves what that sees.
LEMMA StepServed ==
  ASSUME QueueInv, [Next]_vars
  PROVE  [TS!Next]_(TS!vars)
<1>0. now \in Nat /\ stamp \in Nat
  BY NoneIsNoValue DEF QueueInv, TypeOK
<1>1. ASSUME NEW t \in Timer, NEW when \in 0..MaxTime, NEW interval \in Interval,
             LoopAddTimer(t, when, interval) \/ ThreadAddTimer(t, when, interval)
      PROVE  TS!Next
  BY <1>1, AddServed DEF LoopAddTimer, ThreadAddTimer, New, Running, Clock
<1>2. ASSUME NEW t \in Timer, LoopCancelTimer(t)
      PROVE  TS!Next
  <2>1. object[t] # None
    BY <1>2, NoneIsNoValue DEF LoopCancelTimer, QueueInv, CallsInOrder
  <2>2. Running # t
    BY <1>2, BatchTypes, NoneIsNoValue
    DEF LoopCancelTimer, QueueInv, Placed, Running
  <2> QED
    BY <1>2, <2>1, <2>2, CancelServed DEF LoopCancelTimer, Running, Clock
<1>3. ASSUME NEW t \in Timer, ThreadCancelTimer(t)
      PROVE  UNCHANGED TS!vars
  BY <1>3 DEF ThreadCancelTimer, TS!vars
<1>4. CASE RunTask
  <2>1. pc = "idle" /\ tasks # <<>> /\ UNCHANGED <<now, pc, stamp, batch>>
    BY <1>4 DEF RunTask
  <2>2. 1 \in DOMAIN tasks /\ Head(tasks) = tasks[1]
    BY <2>1 DEF QueueInv, TypeOK
  <2> PICK t \in Timer : t = Head(tasks).timer
    BY <2>2, TaskTypes DEF QueueInv
  <2>3. object[t] # None /\ Running # t
    BY <2>1, <2>2, NoneIsNoValue DEF QueueInv, CallsInOrder, Running
  <2>4. CASE UNCHANGED object
    BY <2>1, <2>4 DEF TS!vars
  <2>5. CASE Erase(t)
    BY <2>1, <2>3, <2>5, CancelServed DEF Running, Clock
  <2> QED
    BY <1>4, <2>4, <2>5 DEF RunTask
<1>5. CASE HandleRead
  BY <1>5 DEF HandleRead, TS!vars
<1>6. CASE Poll
  BY <1>6 DEF Poll, TS!vars
<1>7. CASE HandleReadReturns \/ Tick \/ SetClock
  <2>1. UNCHANGED <<object, batch>> /\ Running' = Running
    BY <1>7 DEF HandleReadReturns, Tick, SetClock, Running
  <2>2. Clock' \in Nat
    <3>1. QueueInv'
      BY StepInv
    <3> QED
      BY <3>1, NoneIsNoValue DEF QueueInv, TypeOK, Clock
  <2>3. TS!Clock
    BY <2>1, <2>2 DEF TS!Clock, Running, Clock
  <2> QED
    BY <2>3 DEF TS!Next
<1>8. CASE UNCHANGED vars
  BY <1>8 DEF vars, TS!vars
<1> QED
  BY <1>1, <1>2, <1>3, <1>4, <1>5, <1>6, <1>7, <1>8, RunServed, ReturnServed
  DEF Next, LoopStep, Calls

\* The queue implements TimerService: a timer runs when it is due and not before,
\* once per period, and not after it was canceled.
THEOREM ServiceImplemented == Spec => ImplementsTimerService
<1>1. Init => TS!Init
  BY NoneIsNoValue DEF Init, TS!Init
<1>2. QueueInv /\ [Next]_vars => [TS!Next]_(TS!vars)
  BY StepServed
<1> QED
  BY <1>1, <1>2, Invariance, PTL DEF Spec, ImplementsTimerService, TS!Spec

=============================================================================
