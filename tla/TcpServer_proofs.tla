-------------------------- MODULE TcpServer_proofs --------------------------
(***************************************************************************)
(* The safety of a server, for any number of threads and clients and any   *)
(* number of descriptors.                                                  *)
(***************************************************************************)
EXTENDS TcpServer, TLAPS

Starting == main \in {"spawn", "lock", "asleep"}
Quitting == main \in {"test", "quit", "wake"}

-----------------------------------------------------------------------------
(* The invariant. *)

\* A thread's loop is published while it may be used; it has been quit when it
\* has left.
Published ==
  /\ \A t \in Thread : eventLoops[t] <=> place[t] \in {"published", "ready", "looping", "left"}
  /\ \A t \in Thread : place[t] \in {"left", "cleared", "gone"} => quit[t]
  /\ place[0] \in {"ready", "looping", "left"}

\* The threads are started in turn, once, each published before the next.
StartsInTurn ==
  /\ queued => started
  /\ ~started \/ queued => \A t \in Thread : place[t] = "none"
  /\ main = "free" /\ started /\ ~queued => \A t \in Thread : place[t] \notin {"none", "built"}
  /\ Starting =>
       /\ started /\ ~queued /\ index \in Thread
       /\ \A t \in Thread : /\ t < index => place[t] \notin {"none", "built"}
                            /\ t > index => place[t] = "none"
       /\ main = "spawn" <=> place[index] = "none"
       /\ main = "asleep" => place[index] = "built"

\* Only the destructor quits the threads' loops, one after the other.
QuitsInTurn ==
  /\ main = "free" \/ Starting => \A t \in Thread : ~quit[t]
  /\ Quitting => index \in Thread /\ \A t \in Thread : t > index => ~quit[t]
  /\ main \in {"test", "quit"} => ~quit[index]
  /\ main = "quit" => eventLoops[index]
  /\ main = "undefined" => index \in Thread /\ place[index] = "gone"
  /\ main \in {"drop", "gone"} => \A t \in Thread : place[t] \in {"none", "gone"}

\* What a server has, it has while it exists.
ServesWhileThere ==
  \A s \in Server :
    /\ listening[s] => Exists(s) /\ (s # 0 => place[s] \in {"ready", "looping", "left", "cleared"})
    /\ connections[s] # {} => Exists(s) /\ place[s] \in {"looping", "left", "cleared"}

ServerInv ==
  /\ TypeOK
  /\ Published /\ StartsInTurn /\ QuitsInTurn
  /\ ServesWhileThere /\ ClientsHeld

-----------------------------------------------------------------------------
(* The start, the loops and the destruction. *)

LEMMA Servers ==
  /\ NumThreads \in Nat /\ NumThreads > 0
  /\ 0 \in Server /\ 0 \notin Thread
  /\ \A t \in Thread : t \in Server /\ t \in Nat /\ t >= 1 /\ t < NumThreads
  /\ \A n \in Nat : n >= 1 /\ n < NumThreads => n \in Thread
  /\ \A s \in Server : s = 0 \/ s \in Thread
  BY TcpServerAssumption DEF Server, Thread

Place == {"none", "built", "published", "ready", "looping", "left", "cleared", "gone"}

ControlTypes ==
  /\ started \in BOOLEAN /\ queued \in BOOLEAN
  /\ main \in {"free", "spawn", "lock", "asleep", "test", "quit", "wake", "join", "drop", "gone", "undefined"}
  /\ index \in 0..NumThreads
  /\ place \in [Server -> Place]
  /\ eventLoops \in [Thread -> BOOLEAN]
  /\ quit \in [Server -> BOOLEAN]

Control == ControlTypes /\ Published /\ StartsInTurn /\ QuitsInTurn

LEMMA ControlInit == Init => Control
<1> SUFFICES ASSUME Init PROVE Control
  OBVIOUS
<1>1. ControlTypes
  BY Servers DEF Init, ControlTypes, Place
<1>2. place[0] = "ready" /\ \A t \in Thread : place[t] = "none" /\ ~eventLoops[t] /\ ~quit[t]
  BY Servers DEF Init
<1> QED
  BY <1>1, <1>2
  DEF Init, Control, Published, StartsInTurn, QuitsInTurn, Starting, Quitting

\* start() and the thread's work for it.
LEMMA StartKeepsControl ==
  ASSUME Control, StartHere \/ StartElsewhere \/ RunQueuedStart
  PROVE  Control'
<1> USE Servers DEF Control, ControlTypes, Published, StartsInTurn, QuitsInTurn, Starting,
                    Quitting, loopVars
<1>1. CASE StartElsewhere
  BY <1>1 DEF StartElsewhere
<1>2. CASE StartHere
  BY <1>2 DEF StartHere, BeginStart
<1>3. CASE RunQueuedStart
  <2>1. /\ queued /\ started /\ main = "free" /\ queued' = FALSE
        /\ index' = 1 /\ main' = IF 1 < NumThreads THEN "spawn" ELSE "free"
        /\ UNCHANGED <<started, place, eventLoops, quit>>
    BY <1>3 DEF RunQueuedStart, BeginStart, Runs
  <2>2. /\ \A t \in Thread : place[t] = "none" /\ ~quit[t]
        /\ main' # "quit" /\ main' \notin {"drop", "gone", "undefined"} /\ ~Quitting'
    BY <2>1
  <2>3. ControlTypes' /\ Published' /\ QuitsInTurn'
    <3>1. ControlTypes'
      <4>1. index' \in 0..NumThreads
        BY <2>1
      <4>2. main' \in {"spawn", "free"}
        BY <2>1
      <4> QED
        BY <2>1, <4>1, <4>2
    <3>2. Published'
      BY <2>1
    <3>3. QuitsInTurn'
      BY <2>1, <2>2
    <3> QED
      BY <3>1, <3>2, <3>3
  <2>4. CASE 1 < NumThreads
    <3>1. main' = "spawn" /\ 1 \in Thread
      BY <2>1, <2>4
    <3> QED
      BY <2>1, <2>2, <2>3, <3>1
  <2>5. CASE ~(1 < NumThreads)
    <3>1. main' = "free" /\ Thread = {}
      BY <2>1, <2>5
    <3> QED
      BY <2>1, <2>3, <3>1
  <2> QED
    BY <2>4, <2>5
<1> QED
  BY <1>1, <1>2, <1>3

LEMMA SpawnKeepsControl ==
  ASSUME Control, Spawn \/ AwaitLoop \/ SpuriousWakeup
  PROVE  Control'
<1> USE Servers DEF Control, ControlTypes, Published, StartsInTurn, QuitsInTurn, Starting,
                    Quitting, loopVars
<1>1. CASE Spawn
  BY <1>1 DEF Spawn, Place
<1>2. CASE AwaitLoop /\ ~eventLoops[index]
  BY <1>2 DEF AwaitLoop, Place
<1>3. CASE AwaitLoop /\ eventLoops[index]
  <2>1. /\ main = "lock" /\ index' = index + 1
        /\ main' = IF index + 1 < NumThreads THEN "spawn" ELSE "free"
        /\ UNCHANGED <<started, queued, place, eventLoops, quit>>
    BY <1>3 DEF AwaitLoop, NextIndex
  <2>2. index \in Thread /\ place[index] \notin {"none", "built"}
    BY <1>3, <2>1
  <2>3. CASE index + 1 < NumThreads
    BY <2>1, <2>2, <2>3
  <2>4. CASE ~(index + 1 < NumThreads)
    BY <2>1, <2>2, <2>4
  <2> QED
    BY <2>3, <2>4
<1>4. CASE SpuriousWakeup
  BY <1>4 DEF SpuriousWakeup
<1> QED
  BY <1>1, <1>2, <1>3, <1>4

LEMMA ThreadKeepsControl ==
  ASSUME Control, NEW t \in Thread, ThreadSteps(t)
  PROVE  Control'
<1> USE Servers DEF Control, ControlTypes, Published, StartsInTurn, QuitsInTurn, Starting,
                    Quitting, startVars, Place
<1>1. CASE Publish(t)
  BY <1>1 DEF Publish
<1>2. CASE Listen(t)
  BY <1>2 DEF Listen
<1>3. CASE Clear(t)
  BY <1>3 DEF Clear
<1>4. CASE Exit(t)
  BY <1>4 DEF Exit
<1> QED
  BY <1>1, <1>2, <1>3, <1>4 DEF ThreadSteps

LEMMA LoopKeepsControl ==
  ASSUME Control,
         QuitBase \/ \E s \in Server : EnterLoop(s) \/ LeaveLoop(s)
  PROVE  Control'
<1> USE Servers DEF Control, ControlTypes, Published, StartsInTurn, QuitsInTurn, Starting,
                    Quitting, startVars, Place
<1>1. CASE QuitBase
  BY <1>1 DEF QuitBase
<1>2. ASSUME NEW s \in Server, EnterLoop(s) PROVE Control'
  BY <1>2 DEF EnterLoop
<1>3. ASSUME NEW s \in Server, LeaveLoop(s) PROVE Control'
  BY <1>3 DEF LeaveLoop, Runs
<1> QED
  BY <1>1, <1>2, <1>3

LEMMA DestructorKeepsControl ==
  ASSUME Control, Destroy \/ TestLoop \/ QuitLoop \/ WakeLoop \/ Join \/ DropBase
  PROVE  Control'
<1> USE Servers DEF Control, ControlTypes, Published, StartsInTurn, QuitsInTurn, Starting,
                    Quitting, loopVars
<1>1. CASE Destroy
  BY <1>1 DEF Destroy
<1>2. CASE TestLoop
  BY <1>2 DEF TestLoop, NextIndex
<1>3. CASE QuitLoop
  BY <1>3 DEF QuitLoop
<1>4. CASE WakeLoop
  BY <1>4 DEF WakeLoop, NextIndex
<1>5. CASE Join \/ DropBase
  BY <1>5 DEF Join, DropBase
<1> QED
  BY <1>1, <1>2, <1>3, <1>4, <1>5

-----------------------------------------------------------------------------
(* The handlers, the kernel and the user. *)

ServiceStep ==
  \/ \E s \in Server : HandleRead(s)
  \/ \E s \in Server, c \in Client : CloseConnection(s, c) \/ Connect(c, s)
  \/ \E c \in Client : End(c) \/ Release(c)

LEMMA ServiceLeavesControl ==
  ASSUME ServiceStep
  PROVE  UNCHANGED <<started, queued, main, index, place, eventLoops, quit>>
<1>1. CASE \E s \in Server : HandleRead(s)
  BY <1>1 DEF HandleRead, startVars, loopVars
<1>2. CASE \E s \in Server, c \in Client : CloseConnection(s, c) \/ Connect(c, s)
  BY <1>2 DEF CloseConnection, Connect, startVars, loopVars
<1>3. CASE \E c \in Client : End(c) \/ Release(c)
  BY <1>3 DEF End, Release, startVars, loopVars
<1> QED
  BY <1>1, <1>2, <1>3 DEF ServiceStep

LEMMA ControlUnchanged ==
  ASSUME Control, UNCHANGED <<started, queued, main, index, place, eventLoops, quit>>
  PROVE  Control'
  BY DEF Control, ControlTypes, Published, StartsInTurn, QuitsInTurn, Starting, Quitting

\* The steps, by what they do.
LEMMA Steps ==
  ASSUME Next
  PROVE  \/ StartHere \/ StartElsewhere \/ RunQueuedStart
         \/ Spawn \/ AwaitLoop \/ SpuriousWakeup
         \/ \E t \in Thread : ThreadSteps(t)
         \/ QuitBase \/ \E s \in Server : EnterLoop(s) \/ LeaveLoop(s)
         \/ Destroy \/ TestLoop \/ QuitLoop \/ WakeLoop \/ Join \/ DropBase
         \/ ServiceStep
  BY DEF Next, MainSteps, ServiceStep

LEMMA ControlStep ==
  ASSUME Control, [Next]_vars
  PROVE  Control'
<1>1. CASE UNCHANGED vars
  BY <1>1, ControlUnchanged DEF vars, startVars, loopVars
<1>2. CASE ServiceStep
  BY <1>2, ControlUnchanged, ServiceLeavesControl
<1>3. CASE \E t \in Thread : ThreadSteps(t)
  BY <1>3, ThreadKeepsControl
<1> QED
  BY <1>1, <1>2, <1>3, Steps, StartKeepsControl, SpawnKeepsControl, LoopKeepsControl,
     DestructorKeepsControl

-----------------------------------------------------------------------------
(* The clients. *)

Holds(q, c) == \E i \in DOMAIN q : q[i] = c
Distinct(q) == \A i, j \in DOMAIN q : q[i] = q[j] => i = j

\* A queue without its head holds what it held, but for that.
LEMMA TailHolds ==
  ASSUME NEW S, NEW q \in Seq(S), q # <<>>, Distinct(q)
  PROVE  /\ Head(q) \in S /\ Tail(q) \in Seq(S) /\ Holds(q, Head(q))
         /\ \A c : Holds(Tail(q), c) <=> Holds(q, c) /\ c # Head(q)
         /\ Distinct(Tail(q))
<1>1. /\ Len(q) \in Nat /\ Len(q) >= 1 /\ DOMAIN q = 1..Len(q)
      /\ Head(q) = q[1] /\ Head(q) \in S /\ Tail(q) \in Seq(S)
  OBVIOUS
<1>2. /\ DOMAIN Tail(q) = 1..Len(q) - 1
      /\ \A i \in 1..Len(q) - 1 : Tail(q)[i] = q[i + 1]
  OBVIOUS
<1>3. Distinct(Tail(q))
  <2> SUFFICES ASSUME NEW i \in 1..Len(q) - 1, NEW j \in 1..Len(q) - 1, q[i + 1] = q[j + 1]
               PROVE  i = j
    BY <1>2 DEF Distinct
  <2>1. i + 1 \in DOMAIN q /\ j + 1 \in DOMAIN q
    BY <1>1
  <2> QED
    BY <1>1, <2>1 DEF Distinct
<1>4. ASSUME NEW c, Holds(Tail(q), c) PROVE Holds(q, c) /\ c # Head(q)
  <2>1. PICK i \in 1..Len(q) - 1 : q[i + 1] = c
    BY <1>2, <1>4 DEF Holds
  <2>2. i + 1 \in DOMAIN q /\ 1 \in DOMAIN q /\ i + 1 # 1
    BY <1>1, <2>1
  <2> QED
    BY <1>1, <2>1, <2>2 DEF Holds, Distinct
<1>5. ASSUME NEW c, Holds(q, c), c # Head(q) PROVE Holds(Tail(q), c)
  <2>1. PICK i \in 1..Len(q) : q[i] = c
    BY <1>1, <1>5 DEF Holds
  <2>2. i # 1 /\ i - 1 \in 1..Len(q) - 1 /\ (i - 1) + 1 = i
    BY <1>1, <1>5, <2>1
  <2> QED
    BY <1>2, <2>1, <2>2 DEF Holds
<1>6. Holds(q, Head(q))
  BY <1>1 DEF Holds
<1> QED
  BY <1>1, <1>3, <1>4, <1>5, <1>6

LEMMA AppendHolds ==
  ASSUME NEW S, NEW q \in Seq(S), NEW e \in S, Distinct(q), ~Holds(q, e)
  PROVE  /\ Append(q, e) \in Seq(S)
         /\ \A c : Holds(Append(q, e), c) <=> Holds(q, c) \/ c = e
         /\ Distinct(Append(q, e))
<1>1. /\ Append(q, e) \in Seq(S) /\ Len(q) \in Nat /\ DOMAIN q = 1..Len(q)
      /\ DOMAIN Append(q, e) = 1..Len(q) + 1
      /\ \A i \in 1..Len(q) : Append(q, e)[i] = q[i]
      /\ Append(q, e)[Len(q) + 1] = e
  OBVIOUS
<1>2. \A i \in DOMAIN Append(q, e) : i \in DOMAIN q \/ i = Len(q) + 1
  BY <1>1
<1>3. Distinct(Append(q, e))
  BY <1>1, <1>2 DEF Distinct, Holds
<1>4. \A c : Holds(Append(q, e), c) <=> Holds(q, c) \/ c = e
  <2>1. DOMAIN q \subseteq DOMAIN Append(q, e) /\ Len(q) + 1 \in DOMAIN Append(q, e)
    BY <1>1
  <2> QED
    BY <1>1, <1>2, <2>1 DEF Holds
<1> QED
  BY <1>1, <1>3, <1>4

ClientTypes ==
  /\ listening \in [Server -> BOOLEAN]
  /\ backlog \in [Server -> Seq(Client)]
  /\ connections \in [Server -> SUBSET Client]
  /\ phantom \in [Server -> BOOLEAN]
  /\ link \in [Client -> {"away", "pending", "up", "down", "reset", "dropped"}]
  /\ ended \subseteq Client
  /\ kept \subseteq Client

\* A client is with the server: in its backlog or in connections_.
With(s, c) == Holds(backlog[s], c) \/ c \in connections[s]

\* ClientsHeld, without what there is of the servers.
HeldOnce ==
  /\ \A c \in Client : link[c] = "pending" <=> \E s \in Server : Holds(backlog[s], c)
  /\ \A c \in Client : link[c] = "up" <=> \E s \in Server : c \in connections[s]
  /\ \A c \in Client : \A s, r \in Server : With(s, c) /\ With(r, c) => s = r
  /\ \A s \in Server : Distinct(backlog[s])
  /\ \A s \in Server : backlog[s] # <<>> => listening[s]

LEMMA HeldSplits ==
  /\ TypeOK <=> ControlTypes /\ ClientTypes
  /\ ClientsHeld <=> /\ HeldOnce
                     /\ \A s \in Server : listening[s] \/ connections[s] # {} => Exists(s)
<1>1. TypeOK <=> ControlTypes /\ ClientTypes
  BY DEF TypeOK, ControlTypes, ClientTypes, Place
<1>2. ClientsHeld <=> /\ HeldOnce
                     /\ \A s \in Server : listening[s] \/ connections[s] # {} => Exists(s)
  BY DEF ClientsHeld, HeldOnce, With, Holds, Distinct, Queues
<1> QED
  BY <1>1, <1>2

Held == ClientTypes /\ HeldOnce

LEMMA HeldInit == Init => Held
<1> SUFFICES ASSUME Init PROVE Held
  OBVIOUS
<1>1. ClientTypes
  BY DEF Init, ClientTypes
<1>2. /\ \A s \in Server : backlog[s] = <<>> /\ connections[s] = {}
      /\ \A c \in Client : link[c] = "away"
  BY DEF Init
<1>3. \A c : ~Holds(<<>>, c)
  BY DEF Holds
<1>4. HeldOnce
  BY <1>2, <1>3 DEF HeldOnce, With, Distinct
<1> QED
  BY <1>1, <1>4 DEF Held

\* No client is disturbed by a step that does not concern it; a server may
\* begin to listen.
LEMMA HeldUndisturbed ==
  ASSUME Held,
         UNCHANGED <<backlog, connections, link>>,
         phantom' \in [Server -> BOOLEAN], ended' \subseteq Client, kept' \subseteq Client,
         listening' \in [Server -> BOOLEAN],
         \A s \in Server : listening[s] => listening'[s]
  PROVE  Held'
<1>1. ClientTypes'
  BY DEF Held, ClientTypes
<1>2. HeldOnce'
  BY DEF Held, HeldOnce, With
<1> QED
  BY <1>1, <1>2 DEF Held

\* ~TcpServerSingle: its clients are reset or dropped, the others stay.
LEMMA HeldAfterDestroy ==
  ASSUME Held, NEW s \in Server, DestroySingle(s)
  PROVE  Held'
<1> DEFINE queuedClients == {backlog[s][i] : i \in DOMAIN backlog[s]}
<1>1. /\ listening' = [listening EXCEPT ![s] = FALSE]
      /\ backlog' = [backlog EXCEPT ![s] = <<>>]
      /\ connections' = [connections EXCEPT ![s] = {}]
      /\ phantom' = [phantom EXCEPT ![s] = FALSE]
      /\ link' = [c \in Client |-> IF c \in queuedClients THEN "reset"
                                   ELSE IF c \in connections[s] THEN "dropped" ELSE link[c]]
      /\ UNCHANGED <<ended, kept>>
  BY DEF DestroySingle
<1>2. ClientTypes'
  BY <1>1 DEF Held, ClientTypes
<1>3. \A c : c \in queuedClients <=> Holds(backlog[s], c)
  BY DEF Holds
<1>4. /\ \A c : ~Holds(backlog'[s], c) /\ c \notin connections'[s]
      /\ backlog'[s] = <<>>
      /\ \A r \in Server : r # s => /\ backlog'[r] = backlog[r] /\ listening'[r] = listening[r]
                                   /\ connections'[r] = connections[r]
  BY <1>1 DEF Holds, Held, ClientTypes
<1>5. \A r \in Server : \A c :
        /\ Holds(backlog'[r], c) <=> r # s /\ Holds(backlog[r], c)
        /\ c \in connections'[r] <=> r # s /\ c \in connections[r]
  BY <1>4
<1>6. \A c \in Client : IF With(s, c) THEN link'[c] \in {"reset", "dropped"}
                       ELSE link'[c] = link[c]
  BY <1>1, <1>3 DEF With
<1>7. \A c \in Client : link'[c] = "pending" <=> \E r \in Server : Holds(backlog'[r], c)
  BY <1>5, <1>6 DEF Held, HeldOnce, With
<1>8. \A c \in Client : link'[c] = "up" <=> \E r \in Server : c \in connections'[r]
  BY <1>5, <1>6 DEF Held, HeldOnce, With
<1>9. \A c \in Client : \A q, r \in Server : With(q, c)' /\ With(r, c)' => q = r
  BY <1>5 DEF Held, HeldOnce, With
<1>10. \A r \in Server : Distinct(backlog'[r]) /\ (backlog'[r] # <<>> => listening'[r])
  <2>1. Distinct(<<>>)
    BY DEF Distinct
  <2> QED
    BY <1>4, <2>1 DEF Held, HeldOnce
<1> QED
  BY <1>2, <1>7, <1>8, <1>9, <1>10 DEF Held, HeldOnce

\* The head of a backlog leaves it: for connections_, or for nothing.
LEMMA HeldAfterAccept ==
  ASSUME Held, NEW s \in Server, backlog[s] # <<>>, Accept(s) \/ AcceptAborted(s),
         UNCHANGED <<listening, ended>>
  PROVE  Held'
<1> DEFINE c == Head(backlog[s])
<1>1. /\ backlog[s] \in Seq(Client) /\ Distinct(backlog[s])
      /\ backlog' = [backlog EXCEPT ![s] = Tail(@)]
  BY DEF Held, ClientTypes, HeldOnce, Accept, AcceptAborted
<1>2. /\ c \in Client /\ Tail(backlog[s]) \in Seq(Client) /\ Holds(backlog[s], c)
      /\ \A d : Holds(Tail(backlog[s]), d) <=> Holds(backlog[s], d) /\ d # c
      /\ Distinct(Tail(backlog[s]))
  BY <1>1, TailHolds
<1>3. /\ backlog'[s] = Tail(backlog[s])
      /\ \A r \in Server : r # s => backlog'[r] = backlog[r]
  BY <1>1 DEF Held, ClientTypes
<1>4. \A r \in Server : r # s => ~With(r, c)
  BY <1>2 DEF Held, HeldOnce, With
<1>5. \A r \in Server : \A d : Holds(backlog'[r], d) <=> Holds(backlog[r], d) /\ d # c
  BY <1>2, <1>3, <1>4 DEF With
<1>6. link[c] = "pending" /\ \A r \in Server : c \notin connections[r]
  <2>1. link[c] = "pending"
    BY <1>2 DEF Held, HeldOnce
  <2> QED
    BY <1>2, <2>1 DEF Held, HeldOnce
<1>7. \A r \in Server : Distinct(backlog'[r]) /\ (backlog'[r] # <<>> => listening'[r])
  BY <1>2, <1>3 DEF Held, HeldOnce
<1>8. CASE Accept(s)
  <2>1. /\ connections' = [connections EXCEPT ![s] = @ \cup {c}]
        /\ link' = [link EXCEPT ![c] = "up"]
        /\ kept' \in {kept, kept \cup {c}} /\ phantom' = phantom
    BY <1>8 DEF Accept
  <2>2. ClientTypes'
    BY <1>1, <1>2, <2>1 DEF Held, ClientTypes
  <2>3. \A r \in Server : \A d : d \in connections'[r] <=> d \in connections[r] \/ (r = s /\ d = c)
    BY <2>1 DEF Held, ClientTypes
  <2>4. link'[c] = "up" /\ \A d \in Client : d # c => link'[d] = link[d]
    BY <1>2, <2>1 DEF Held, ClientTypes
  <2>5. \A d \in Client : link'[d] = "pending" <=> \E r \in Server : Holds(backlog'[r], d)
    BY <1>5, <2>4 DEF Held, HeldOnce
  <2>6. \A d \in Client : link'[d] = "up" <=> \E r \in Server : d \in connections'[r]
    BY <2>3, <2>4 DEF Held, HeldOnce
  <2>7. \A d \in Client : \A q, r \in Server : With(q, d)' /\ With(r, d)' => q = r
    BY <1>5, <1>6, <2>3 DEF Held, HeldOnce, With
  <2> QED
    BY <1>7, <2>2, <2>5, <2>6, <2>7 DEF Held, HeldOnce
<1>9. CASE AcceptAborted(s)
  <2>1. /\ phantom' = [phantom EXCEPT ![s] = TRUE]
        /\ link' = [link EXCEPT ![c] = "reset"]
        /\ connections' = connections /\ kept' = kept
    BY <1>9 DEF AcceptAborted
  <2>2. ClientTypes'
    BY <1>1, <1>2, <2>1 DEF Held, ClientTypes
  <2>3. link'[c] = "reset" /\ \A d \in Client : d # c => link'[d] = link[d]
    BY <1>2, <2>1 DEF Held, ClientTypes
  <2>4. \A d \in Client : link'[d] = "pending" <=> \E r \in Server : Holds(backlog'[r], d)
    BY <1>5, <2>3 DEF Held, HeldOnce
  <2>5. \A d \in Client : link'[d] = "up" <=> \E r \in Server : d \in connections'[r]
    BY <1>6, <2>1, <2>3 DEF Held, HeldOnce
  <2>6. \A d \in Client : \A q, r \in Server : With(q, d)' /\ With(r, d)' => q = r
    BY <1>5, <2>1 DEF Held, HeldOnce, With
  <2> QED
    BY <1>7, <2>2, <2>4, <2>5, <2>6 DEF Held, HeldOnce
<1> QED
  BY <1>8, <1>9

LEMMA HeldAfterClose ==
  ASSUME Held, NEW s \in Server, NEW c \in Client, CloseConnection(s, c)
  PROVE  Held'
<1>1. /\ c \in connections[s]
      /\ connections' = [connections EXCEPT ![s] = @ \ {c}]
      /\ link' = [link EXCEPT ![c] = "down"]
      /\ kept' \in {kept, kept \ {c}, kept \cup {c}}
      /\ UNCHANGED <<listening, backlog, phantom, ended>>
  BY DEF CloseConnection, acceptVars
<1>2. ClientTypes'
  BY <1>1 DEF Held, ClientTypes
<1>3. link[c] = "up" /\ \A r \in Server : c \in connections[r] => r = s
  BY <1>1 DEF Held, HeldOnce, With
<1>4. \A r \in Server : \A d : d \in connections'[r] <=> d \in connections[r] /\ ~(r = s /\ d = c)
  BY <1>1 DEF Held, ClientTypes
<1>5. link'[c] = "down" /\ \A d \in Client : d # c => link'[d] = link[d]
  BY <1>1 DEF Held, ClientTypes
<1>6. \A d \in Client : link'[d] = "pending" <=> \E r \in Server : Holds(backlog'[r], d)
  BY <1>1, <1>3, <1>5 DEF Held, HeldOnce
<1>7. \A d \in Client : link'[d] = "up" <=> \E r \in Server : d \in connections'[r]
  BY <1>3, <1>4, <1>5 DEF Held, HeldOnce
<1>8. \A d \in Client : \A q, r \in Server : With(q, d)' /\ With(r, d)' => q = r
  BY <1>1, <1>4 DEF Held, HeldOnce, With
<1> QED
  BY <1>1, <1>2, <1>6, <1>7, <1>8 DEF Held, HeldOnce

LEMMA HeldAfterConnect ==
  ASSUME Held, NEW c \in Client, NEW s \in Server, Connect(c, s)
  PROVE  Held'
<1>1. /\ link[c] = "away" /\ listening[s]
      /\ link' = [link EXCEPT ![c] = "pending"]
      /\ backlog' = [backlog EXCEPT ![s] = Append(@, c)]
      /\ UNCHANGED <<listening, connections, phantom, ended, kept>>
  BY DEF Connect
<1>2. \A r \in Server : ~With(r, c)
  BY <1>1 DEF Held, HeldOnce, With
<1>3. /\ Append(backlog[s], c) \in Seq(Client) /\ Distinct(Append(backlog[s], c))
      /\ \A d : Holds(Append(backlog[s], c), d) <=> Holds(backlog[s], d) \/ d = c
  <2>1. backlog[s] \in Seq(Client) /\ Distinct(backlog[s]) /\ ~Holds(backlog[s], c)
    BY <1>2 DEF Held, ClientTypes, HeldOnce, With
  <2> QED
    BY <2>1, AppendHolds
<1>4. ClientTypes'
  BY <1>1, <1>3 DEF Held, ClientTypes
<1>5. /\ backlog'[s] = Append(backlog[s], c)
      /\ \A r \in Server : r # s => backlog'[r] = backlog[r]
  BY <1>1 DEF Held, ClientTypes
<1>6. \A r \in Server : \A d : Holds(backlog'[r], d) <=> Holds(backlog[r], d) \/ (r = s /\ d = c)
  BY <1>3, <1>5
<1>7. link'[c] = "pending" /\ \A d \in Client : d # c => link'[d] = link[d]
  BY <1>1 DEF Held, ClientTypes
<1>8. \A d \in Client : link'[d] = "pending" <=> \E r \in Server : Holds(backlog'[r], d)
  BY <1>6, <1>7 DEF Held, HeldOnce
<1>9. \A d \in Client : link'[d] = "up" <=> \E r \in Server : d \in connections'[r]
  BY <1>1, <1>2, <1>7 DEF Held, HeldOnce, With
<1>10. \A d \in Client : \A q, r \in Server : With(q, d)' /\ With(r, d)' => q = r
  BY <1>1, <1>2, <1>6 DEF Held, HeldOnce, With
<1>11. \A r \in Server : Distinct(backlog'[r]) /\ (backlog'[r] # <<>> => listening'[r])
  BY <1>1, <1>3, <1>5 DEF Held, HeldOnce
<1> QED
  BY <1>4, <1>8, <1>9, <1>10, <1>11 DEF Held, HeldOnce

\* The steps of the base thread and of the loops that concern no client.
SilentStep ==
  \/ StartElsewhere \/ Spawn \/ AwaitLoop \/ SpuriousWakeup \/ QuitBase
  \/ Destroy \/ TestLoop \/ QuitLoop \/ WakeLoop \/ Join
  \/ \E t \in Thread : Publish(t) \/ Clear(t)
  \/ \E s \in Server : EnterLoop(s) \/ LeaveLoop(s)
  \/ UNCHANGED vars

LEMMA SilentStepIsSilent ==
  SilentStep => UNCHANGED <<listening, backlog, connections, phantom, link, ended, kept>>
  BY DEF SilentStep, StartElsewhere, Spawn, AwaitLoop, SpuriousWakeup, QuitBase, Destroy,
         TestLoop, QuitLoop, WakeLoop, Join, Publish, Clear, EnterLoop, LeaveLoop, vars,
         acceptVars, connVars

\* One socket more listens.
ListenStep == StartHere \/ RunQueuedStart \/ \E t \in Thread : Listen(t)

DestroyStep == DropBase \/ \E t \in Thread : Exit(t)

LEMMA StepsForClients ==
  ASSUME [Next]_vars
  PROVE  SilentStep \/ ListenStep \/ DestroyStep \/ ServiceStep
  BY Steps DEF SilentStep, ListenStep, DestroyStep, ThreadSteps

LEMMA ListenStepListens ==
  ASSUME Held, ListenStep
  PROVE  /\ \E s \in Server : listening' = [listening EXCEPT ![s] = TRUE]
         /\ UNCHANGED <<backlog, connections, phantom, link, ended, kept>>
  BY Servers DEF ListenStep, StartHere, RunQueuedStart, BeginStart, Listen, connVars

LEMMA HeldStep ==
  ASSUME Control, Held, [Next]_vars
  PROVE  Held'
<1>1. CASE SilentStep
  <2>1. UNCHANGED <<listening, backlog, connections, phantom, link, ended, kept>>
    BY <1>1, SilentStepIsSilent
  <2> QED
    BY <2>1, HeldUndisturbed DEF Held, ClientTypes
<1>2. CASE ListenStep
  <2>1. PICK s \in Server : listening' = [listening EXCEPT ![s] = TRUE]
    BY <1>2, ListenStepListens
  <2>2. UNCHANGED <<backlog, connections, phantom, link, ended, kept>>
    BY <1>2, ListenStepListens
  <2>3. \A r \in Server : listening[r] => listening'[r]
    BY <2>1 DEF Held, ClientTypes
  <2> QED
    BY <2>1, <2>2, <2>3, HeldUndisturbed DEF Held, ClientTypes
<1>3. CASE DestroyStep
  <2>1. PICK s \in Server : DestroySingle(s)
    BY <1>3, Servers DEF DestroyStep, DropBase, Exit
  <2> QED
    BY <2>1, HeldAfterDestroy
<1>4. CASE ServiceStep
  <2>1. ASSUME NEW s \in Server, HandleRead(s) PROVE Held'
    <3>1. UNCHANGED <<listening, ended>> /\ backlog[s] # <<>>
      BY <2>1 DEF HandleRead
    <3>2. CASE Accept(s) \/ AcceptAborted(s)
      BY <3>1, <3>2, HeldAfterAccept
    <3>3. CASE AcceptFails(s)
      BY <3>1, <3>3, HeldUndisturbed DEF AcceptFails, Held, ClientTypes
    <3> QED
      BY <2>1, <3>2, <3>3 DEF HandleRead
  <2>2. ASSUME NEW c \in Client, End(c) \/ Release(c) PROVE Held'
    BY <2>2, HeldUndisturbed DEF End, Release, Held, ClientTypes, acceptVars
  <2> QED
    BY <1>4, <2>1, <2>2, HeldAfterClose, HeldAfterConnect DEF ServiceStep
<1> QED
  BY <1>1, <1>2, <1>3, <1>4, StepsForClients

-----------------------------------------------------------------------------
(* What a server has, it has while it exists. *)

LEMMA ServesStep ==
  ASSUME Control, Held, ServesWhileThere, [Next]_vars
  PROVE  ServesWhileThere'
<1> USE Servers
<1>1. CASE SilentStep
  <2>1. UNCHANGED <<listening, connections>>
    BY <1>1, SilentStepIsSilent
  <2>2. main # "gone" => main' # "gone"
    BY <1>1 DEF SilentStep, StartElsewhere, Spawn, AwaitLoop, NextIndex, SpuriousWakeup,
            QuitBase, Destroy, TestLoop, QuitLoop, WakeLoop, Join, Publish, Clear, EnterLoop,
            LeaveLoop, vars, startVars
  <2>3. \A t \in Thread :
          /\ place[t] \in {"ready", "looping", "left", "cleared"}
               => place'[t] \in {"ready", "looping", "left", "cleared"}
          /\ place[t] \in {"looping", "left", "cleared"}
               => place'[t] \in {"looping", "left", "cleared"}
    BY <1>1 DEF SilentStep, StartElsewhere, Spawn, AwaitLoop, SpuriousWakeup, QuitBase, Destroy,
            TestLoop, QuitLoop, WakeLoop, Join, Publish, Clear, EnterLoop, LeaveLoop, vars, loopVars,
            Control, ControlTypes, StartsInTurn, Starting
  <2>4. place[0] \in {"looping", "left", "cleared"} => place'[0] \in {"looping", "left", "cleared"}
    BY <1>1 DEF SilentStep, StartElsewhere, Spawn, AwaitLoop, SpuriousWakeup, QuitBase, Destroy,
            TestLoop, QuitLoop, WakeLoop, Join, Publish, Clear, EnterLoop, LeaveLoop, vars, loopVars,
            Control, ControlTypes, StartsInTurn, Starting
  <2> QED
    BY <2>1, <2>2, <2>3, <2>4 DEF ServesWhileThere, Exists
<1>2. CASE StartHere \/ RunQueuedStart
  <2>1. /\ listening' = [listening EXCEPT ![0] = TRUE] /\ main' # "gone"
        /\ UNCHANGED <<place, connections>>
    BY <1>2 DEF StartHere, RunQueuedStart, BeginStart, loopVars, connVars
  <2>2. \A t \in Thread : listening'[t] = listening[t]
    BY <2>1 DEF Held, ClientTypes
  <2> QED
    BY <2>1, <2>2 DEF ServesWhileThere, Exists
<1>3. ASSUME NEW t \in Thread, Listen(t) PROVE ServesWhileThere'
  <2>1. /\ place[t] = "published" /\ place' = [place EXCEPT ![t] = "ready"]
        /\ listening' = [listening EXCEPT ![t] = TRUE]
        /\ UNCHANGED <<main, connections>>
    BY <1>3 DEF Listen, startVars, connVars
  <2>2. place'[t] = "ready" /\ connections[t] = {}
    BY <2>1 DEF ServesWhileThere, Control, ControlTypes
  <2>3. \A s \in Server : s # t => place'[s] = place[s] /\ listening'[s] = listening[s]
    BY <2>1 DEF Held, ClientTypes, Control, ControlTypes
  <2> QED
    BY <2>1, <2>2, <2>3 DEF ServesWhileThere, Exists
<1>4. CASE DestroyStep
  <2>1. ASSUME NEW s \in Server, DestroySingle(s), \A r \in Server : r # s => place'[r] = place[r],
               main' = main \/ s = 0
        PROVE  ServesWhileThere'
    <3>1. /\ ~listening'[s] /\ connections'[s] = {}
          /\ \A r \in Server : r # s => listening'[r] = listening[r] /\ connections'[r] = connections[r]
      BY <2>1 DEF DestroySingle, Held, ClientTypes
    <3> QED
      BY <2>1, <3>1 DEF ServesWhileThere, Exists
  <2>2. CASE DropBase
    BY <2>1, <2>2 DEF DropBase, loopVars
  <2>3. ASSUME NEW t \in Thread, Exit(t) PROVE ServesWhileThere'
    BY <2>1, <2>3 DEF Exit, startVars, Control, ControlTypes
  <2> QED
    BY <1>4, <2>2, <2>3 DEF DestroyStep
<1>5. CASE ServiceStep
  <2>1. UNCHANGED <<main, place>>
    BY <1>5, ServiceLeavesControl
  <2>2. listening' = listening
    BY <1>5 DEF ServiceStep, HandleRead, CloseConnection, Connect, End, Release, acceptVars
  <2>3. ASSUME NEW s \in Server, connections[s] = {}, connections'[s] # {}
        PROVE  Runs(s) /\ listening[s]
    <3>1. CASE \E r \in Server : HandleRead(r)
      BY <2>3, <3>1 DEF HandleRead, Accept, AcceptAborted, AcceptFails, Held, ClientTypes
    <3>2. CASE \E r \in Server, c \in Client : CloseConnection(r, c)
      BY <2>3, <3>2 DEF CloseConnection, Held, ClientTypes
    <3> QED
      BY <1>5, <2>3, <3>1, <3>2 DEF ServiceStep, Connect, End, Release
  <2> QED
    BY <2>1, <2>2, <2>3 DEF ServesWhileThere, Exists, Runs
<1> QED
  BY <1>1, <1>2, <1>3, <1>4, <1>5, StepsForClients DEF ListenStep

-----------------------------------------------------------------------------
(* The theorems. *)

LEMMA InvSplits ==
  ServerInv <=> Control /\ Held /\ ServesWhileThere
<1>1. ServesWhileThere => \A s \in Server : listening[s] \/ connections[s] # {} => Exists(s)
  BY DEF ServesWhileThere
<1> QED
  BY <1>1, HeldSplits DEF ServerInv, Control, Held

LEMMA ServerInvariance == Spec => []ServerInv
<1>1. Init => ServerInv
  <2>1. Init => ServesWhileThere
    BY DEF Init, ServesWhileThere
  <2> QED
    BY <2>1, ControlInit, HeldInit, InvSplits
<1>2. Control /\ Held /\ ServesWhileThere /\ [Next]_vars
        => (Control /\ Held /\ ServesWhileThere)'
  BY ControlStep, HeldStep, ServesStep
<1>3. ServerInv /\ [Next]_vars => ServerInv'
  BY <1>2, InvSplits, PTL
<1> QED
  BY <1>1, <1>3, PTL DEF Spec

\* Every variable of a server keeps its type.
THEOREM TypeCorrect == Spec => []TypeOK
<1>1. ServerInv => TypeOK
  BY DEF ServerInv
<1> QED
  BY <1>1, ServerInvariance, PTL

\* Through the start, the accepts, the closes and the destruction, a client is
\* queued once on a socket that listens, or up in the connections_ of one server
\* that exists, exactly when its state says so.  And ~TcpServer (TcpServer.cc:25),
\* which reads eventLoops_ without the mutex, begins quit() on no loop that its
\* thread has destroyed, because nothing else quits it and it quits each once;
\* the rest of quit(), after the store, may find the loop destroyed, but only
\* by what that store told its thread.
THEOREM ClientsAndLoopsAreHeld == Spec => []ClientsAndLoopsHeld
<1>1. ServerInv => ClientsAndLoopsHeld
  <2> SUFFICES ASSUME ServerInv
               PROVE  QuitsLiveLoop
    BY DEF ClientsAndLoopsHeld, ServerInv
  <2>1. CASE main = "quit"
    <3>1. index \in Thread /\ ~quit[index] /\ eventLoops[index]
      BY <2>1, Servers DEF ServerInv, QuitsInTurn, Quitting
    <3> QED
      BY <2>1, <3>1 DEF ServerInv, Published, QuitsLiveLoop
  <2>2. CASE main = "undefined"
    BY <2>2 DEF ServerInv, QuitsInTurn, Published, QuitsLiveLoop
  <2> QED
    BY <2>1, <2>2 DEF QuitsLiveLoop
<1> QED
  BY <1>1, ServerInvariance, PTL

\* The base thread sleeps in startInLoop() only while the thread it has created
\* last has its loop still to publish.
AwaitsPublication == main = "asleep" => index \in Thread /\ place[index] = "built"

\* The handshake of startInLoop() (TcpServer.cc:88) loses no notification: with
\* one condition variable for all threads, one notify_one() each, either of the
\* two first at the mutex and spurious wakeups, a sleeper still has one to come.
THEOREM NotificationIsAhead == Spec => []AwaitsPublication
<1>1. ServerInv => AwaitsPublication
  BY DEF ServerInv, StartsInTurn, Starting, AwaitsPublication
<1> QED
  BY <1>1, ServerInvariance, PTL
=============================================================================
