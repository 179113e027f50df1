------------------------ MODULE TcpConnection_proofs ------------------------
(***************************************************************************)
(* The safety of one connection, for any number of foreign threads and     *)
(* messages, any sizes, and any programs around it.  Where a theorem        *)
(* assumes OneCloser, they are programs in which a connection that a       *)
(* foreign thread ends is ended by nobody else.                            *)
(***************************************************************************)
EXTENDS TcpConnection, SequenceTheorems, TLAPS

Byte == Msg \X (1..Size)

LEMMA Sizes ==
  /\ Size \in Nat /\ Size > 0 /\ SndBuf \in Nat /\ SndBuf > 0
  /\ MaxTasks \in Nat /\ HighWaterMark \in Nat
  BY TcpConnectionAssumption

LEMMA Names ==
  /\ \A m \in Msg : m \notin TaskName /\ m \notin {"idle", "checked", "done"}
  /\ Loop \notin Thread
  /\ "done" \notin Task /\ "checked" \notin Task /\ "idle" \notin Task
<1>1. Msg \cap (TaskName \cup {"idle", "checked", "done"}) = {} /\ Loop \notin Thread
  BY TcpConnectionAssumption
<1>2. \A m \in Msg : m \notin TaskName /\ m \notin {"idle", "checked", "done"}
  BY <1>1
<1>3. "done" \notin TaskName /\ "checked" \notin TaskName /\ "idle" \notin TaskName
  BY DEF TaskName
<1> QED
  BY <1>1, <1>2, <1>3 DEF Task

-----------------------------------------------------------------------------
(* What moves bytes. *)

LEMMA BytesOfMessage ==
  ASSUME NEW m \in Msg
  PROVE  Bytes(m) \in Seq(Byte) /\ Len(Bytes(m)) = Size
<1>1. \A i \in 1..Size : <<m, i>> \in Byte
  BY DEF Byte
<1>2. Bytes(m) \in [1..Size -> Byte]
  BY <1>1 DEF Bytes
<1>3. Size \in Nat
  BY Sizes
<1> HIDE DEF Byte
<1> QED
  BY <1>2, <1>3

\* write() takes no more than it is given or the kernel has room for, and nothing
\* when the connection is broken.
LEMMA WritableBounds ==
  ASSUME NEW len \in Nat, inflight \in 0..SndBuf, NEW n \in Writable(len)
  PROVE  /\ n \in 0..len /\ inflight + n \in 0..SndBuf
         /\ Broken => n = 0
<1>1. SndBuf \in Nat /\ inflight \in Nat /\ inflight <= SndBuf
  BY Sizes
<1>2. CASE Broken \/ inflight = SndBuf \/ len = 0
  BY <1>1, <1>2 DEF Writable
<1>3. CASE ~(Broken \/ inflight = SndBuf \/ len = 0)
  <2>1. n \in 1..Min({len, SndBuf - inflight})
    BY <1>3 DEF Writable
  <2>2. Min({len, SndBuf - inflight})
          = IF len <= SndBuf - inflight THEN len ELSE SndBuf - inflight
    BY <1>1 DEF Min
  <2> QED
    BY <1>1, <1>3, <2>1, <2>2
<1> QED
  BY <1>2, <1>3

LEMMA Associative == \A x, y, z \in Seq(Byte) : (x \o y) \o z = x \o (y \o z)
  BY ConcatAssociative

\* Cutting a sequence in two.
LEMMA Cut ==
  ASSUME NEW S, NEW s \in Seq(S), NEW n \in 0..Len(s)
  PROVE  /\ SubSeq(s, 1, n) \in Seq(S) /\ SubSeq(s, n + 1, Len(s)) \in Seq(S)
         /\ SubSeq(s, 1, n) \o SubSeq(s, n + 1, Len(s)) = s
         /\ n = 0 => SubSeq(s, 1, n) = <<>> /\ SubSeq(s, n + 1, Len(s)) = s
         /\ SubSeq(s, n + 1, Len(s)) = <<>> <=> n = Len(s)
<1>1. /\ Len(s) \in Nat /\ n \in Int /\ n + 1 \in Int /\ Len(s) \in Int /\ 1 \in Int
      /\ \A i \in 1..Len(s) : s[i] \in S
  OBVIOUS
<1>2. SubSeq(s, 1, n) \in Seq(S)
  BY <1>1, SubSeqProperties
<1>3. /\ SubSeq(s, n + 1, Len(s)) \in Seq(S)
      /\ Len(SubSeq(s, n + 1, Len(s)))
           = IF n + 1 <= Len(s) THEN Len(s) - (n + 1) + 1 ELSE 0
  <2>1. \A i \in (n + 1)..Len(s) : s[i] \in S
    BY <1>1
  <2> QED
    BY <1>1, <2>1, SubSeqProperties
<1>4. SubSeq(s, 1, n) \o SubSeq(s, n + 1, Len(s)) = SubSeq(s, 1, Len(s))
  <2>1. /\ 1 \in 1..(Len(s) + 1) /\ n \in (1 - 1)..Len(s)
        /\ Len(s) \in n..Len(s)
    BY <1>1
  <2> QED
    BY <2>1, ConcatAdjacentSubSeq, Zenon
<1>5. SubSeq(s, 1, Len(s)) = s
  BY SubSeqFull
<1>6. n = 0 => SubSeq(s, 1, n) = <<>> /\ SubSeq(s, n + 1, Len(s)) = s
  BY <1>1, <1>5, SubSeqEmpty
<1>7. SubSeq(s, n + 1, Len(s)) = <<>> <=> n = Len(s)
  <2>1. n = Len(s) => SubSeq(s, n + 1, Len(s)) = <<>>
    BY <1>1, SubSeqEmpty
  <2>2. n # Len(s) => Len(SubSeq(s, n + 1, Len(s))) # 0
    BY <1>1, <1>3
  <2>3. Len(<<>>) = 0
    OBVIOUS
  <2> QED
    BY <2>1, <2>2, <2>3
<1> QED
  BY <1>2, <1>3, <1>4, <1>5, <1>6, <1>7

-----------------------------------------------------------------------------
(* The invariant. *)

Queued(task) == \E i \in DOMAIN tasks : tasks[i] = task

\* Nothing is taken up any more: the connection is closed, or broken with nothing
\* left that waits.
Frozen == state = "kDisconnected" \/ (Broken /\ output = <<>>)

\* Before connectEstablished() nothing has happened.
Fresh ==
  state = "kConnecting" =>
    /\ events = {} /\ polling = FALSE /\ revents = {} /\ user = "none"
    /\ output = <<>> /\ tasks = <<>> /\ closed = 0
    /\ \A p \in Thread : caller[p] = "idle"

\* A foreign thread that ends the connection is past its last call when the
\* connection is closed, and nothing but its task closes it.
Ending ==
  /\ \A p \in Thread : caller[p] \in {"checked", "forceClose"} =>
       "forceClose" \in use.thread[p]
  /\ Closers(use) # {} =>
       /\ peer = "open" /\ ~sockErr
       /\ "hup" \notin revents /\ "err" \notin revents
       /\ "in" \in revents => input
       /\ Queued("forceClose") \/ state = "kDisconnected" =>
            \E p \in Thread : /\ "forceClose" \in use.thread[p]
                              /\ caller[p] = "done"

\* An open connection watches its socket: for bytes to write while some wait,
\* and, whether it reads or not, for urgent data, so that it stays in the set.
Wired == Open => "pri" \in events /\ ("out" \in events <=> output # <<>>)

\* If startRead() is called with care, the channel of a closed connection watches
\* nothing, and no event that closes is left over from before.
Watched ==
  Careful =>
    /\ closed = IF state = "kDisconnected" THEN 1 ELSE 0
    /\ polling <=> Open
    /\ state = "kDisconnected" => events = {}
    /\ "hup" \in revents \/ "in" \in revents => Open
    /\ ~Queued("startRead")
    /\ \A p \in Thread : caller[p] # "startRead"

\* A connection that was not closed is in the epoll set while it is open, whoever
\* ends it, and watched for urgent data.
Unclosed ==
  /\ closed \in 0..2
  /\ closed = 0 =>
       /\ state \in {"kConnecting", "kConnected", "kDisconnecting"}
       /\ polling \in BOOLEAN /\ (polling <=> Open)
       /\ Open => "pri" \in events

\* The state tells whether the connection was closed.
Told == closed > 0 <=> state = "kDisconnected"

ConnectionInv == TypeOK /\ Fresh /\ Ending /\ Wired /\ Watched /\ Told

-----------------------------------------------------------------------------
(* What the operations do. *)

\* What is written goes to the end of what was.
LEMMA WriteAppends ==
  ASSUME TypeOK, NEW bytes \in Seq(Byte), NEW n \in 0..Len(bytes),
         inflight + n \in 0..SndBuf, Write(bytes, n)
  PROVE  /\ sent' \in Seq(Byte) /\ inflight' \in 0..SndBuf
         /\ sent' = sent \o SubSeq(bytes, 1, n)
         /\ IsPrefix(sent, sent')
         /\ n = 0 => sent' = sent
<1>1. sent \in Seq(Byte)
  BY DEF TypeOK, Byte
<1> DEFINE w == SubSeq(bytes, 1, n)
<1>2. w \in Seq(Byte) /\ (n = 0 => w = <<>>)
  BY Cut
<1>3. sent' = sent \o w /\ inflight' = inflight + n
  BY DEF Write
<1> HIDE DEF w
<1>4. sent' \in Seq(Byte) /\ Len(sent') = Len(sent) + Len(w)
  BY <1>1, <1>2, <1>3, ConcatProperties
<1>5. n = 0 => sent' = sent
  BY <1>1, <1>2, <1>3, ConcatEmptySeq
<1>6. IsPrefix(sent, sent')
  <2>1. Len(sent) \in Nat /\ Len(w) \in Nat
    BY <1>1, <1>2
  <2>2. SubSeq(sent', 1, Len(sent)) = SubSeq(sent, 1, Len(sent))
    <3>1. CASE Len(sent) = 0
      BY <3>1, SubSeqEmpty
    <3>2. CASE Len(sent) # 0
      <4>1. 1 \in 1..Len(sent) /\ Len(sent) \in 1..Len(sent)
        BY <2>1, <3>2
      <4> QED
        BY <1>1, <1>2, <1>3, <4>1, SubSeqOfConcat1
    <3> QED
      BY <3>1, <3>2
  <2> QED
    BY <1>4, <2>1, <2>2 DEF IsPrefix
<1> QED
  BY <1>3, <1>4, <1>5, <1>6 DEF w

\* sendInLoop(): the whole message goes to the kernel and the buffer, behind what
\* waits there, or it is dropped because the connection is broken.
LEMMA SendInLoopStep ==
  ASSUME TypeOK, Wired, state # "kConnecting",
         NEW m \in Msg, NEW queue \in Seq(Task), SendInLoop(m, queue)
  PROVE  /\ sent' \in Seq(Byte) /\ inflight' \in 0..SndBuf /\ output' \in Seq(Byte)
         /\ tasks' \in Seq(Task)
         /\ \E ev \in {<<>>, <<"writeComplete">>, <<"highWaterMark">>} :
              tasks' = queue \o ev
         /\ \/ output' = output /\ UNCHANGED channelVars
            \/ output' # <<>> /\ Open /\ Update(events \cup {"out"})
         /\ \/ UNCHANGED <<sent, output>> /\ Frozen
            \/ /\ ~Frozen /\ Open /\ IsPrefix(sent, sent')
               /\ sent' \o output' = sent \o output \o Bytes(m)
<1>1. /\ sent \in Seq(Byte) /\ output \in Seq(Byte) /\ inflight \in 0..SndBuf
      /\ Bytes(m) \in Seq(Byte) /\ Len(Bytes(m)) = Size /\ Size \in Nat /\ Size > 0
  BY BytesOfMessage, Sizes DEF TypeOK, Byte
<1>2. /\ queue \o <<>> = queue
      /\ \A ev \in {<<>>, <<"writeComplete">>, <<"highWaterMark">>} :
           queue \o ev \in Seq(Task)
  <2>1. /\ <<>> \in Seq(Task) /\ <<"writeComplete">> \in Seq(Task)
        /\ <<"highWaterMark">> \in Seq(Task)
    <3>1. "writeComplete" \in Task /\ "highWaterMark" \in Task
      BY DEF Task, TaskName
    <3> HIDE DEF Task
    <3> QED
      BY <3>1
  <2> QED
    BY <2>1, ConcatProperties, ConcatEmptySeq
<1>3. CASE state = "kDisconnected"
  BY <1>1, <1>2, <1>3 DEF SendInLoop, Frozen
<1>4. CASE state # "kDisconnected"
  <2>0. Open
    BY <1>4 DEF Open, TypeOK
  <2> DEFINE rest(n) == IF ~isWriting /\ Broken THEN <<>>
                        ELSE SubSeq(Bytes(m), n + 1, Size)
  <2>1. PICK n \in IF isWriting THEN {0} ELSE Writable(Size) :
          /\ Write(Bytes(m), n)
          /\ output' = output \o rest(n)
          /\ IF rest(n) = <<>> THEN UNCHANGED channelVars
                               ELSE Update(events \cup {"out"})
          /\ \E ev \in {<<>>, <<"writeComplete">>, <<"highWaterMark">>} :
               tasks' = queue \o ev
    BY <1>4, Zenon DEF SendInLoop
  <2>2. /\ n \in 0..Len(Bytes(m)) /\ inflight + n \in 0..SndBuf
        /\ ~isWriting /\ Broken => n = 0
        /\ isWriting => n = 0
    <3>1. CASE isWriting
      BY <1>1, <3>1, Sizes
    <3>2. CASE ~isWriting
      BY <1>1, <3>2, WritableBounds
    <3> QED
      BY <3>1, <3>2
  <2> DEFINE r == rest(n)
             w == SubSeq(Bytes(m), 1, n)
  <2>3. /\ sent' \in Seq(Byte) /\ inflight' \in 0..SndBuf
        /\ sent' = sent \o w /\ IsPrefix(sent, sent')
        /\ n = 0 => sent' = sent
    BY <1>1, <2>1, <2>2, WriteAppends
  <2>4. /\ r \in Seq(Byte) /\ w \in Seq(Byte)
        /\ ~(~isWriting /\ Broken) => w \o r = Bytes(m)
        /\ ~isWriting /\ Broken => r = <<>>
        /\ isWriting => w = <<>> /\ r = Bytes(m)
    <3>1. /\ w \in Seq(Byte) /\ SubSeq(Bytes(m), n + 1, Size) \in Seq(Byte)
          /\ w \o SubSeq(Bytes(m), n + 1, Size) = Bytes(m)
          /\ n = 0 => w = <<>> /\ SubSeq(Bytes(m), n + 1, Size) = Bytes(m)
      BY <1>1, <2>2, Cut
    <3>2. <<>> \in Seq(Byte)
      OBVIOUS
    <3> QED
      BY <2>2, <3>1, <3>2
  <2>5. output' = output \o r
    BY <2>1
  <2>6. r = <<>> => UNCHANGED channelVars
    BY <2>1
  <2>7. r # <<>> => Update(events \cup {"out"})
    BY <2>1
  <2> HIDE DEF r, w, rest
  <2>8. output' \in Seq(Byte) /\ (r = <<>> => output' = output)
        /\ (r # <<>> => output' # <<>>)
    BY <1>1, <2>4, <2>5, ConcatProperties, ConcatEmptySeq, ConcatEqualIffEmpty
  <2>9. ~(~isWriting /\ Broken) => sent' \o output' = sent \o output \o Bytes(m)
    <3>1. CASE isWriting
      <4>1. sent' = sent /\ output' = output \o Bytes(m)
        BY <2>2, <2>3, <2>4, <2>5, <3>1
      <4> QED
        BY <1>1, <4>1, Associative
    <3>2. CASE ~isWriting /\ ~Broken
      <4>1. output = <<>>
        BY <2>0, <3>2 DEF Wired, isWriting
      <4>2. output' = r /\ sent \o output = sent
        BY <1>1, <2>4, <2>5, <4>1, ConcatEmptySeq
      <4>3. (sent \o w) \o r = sent \o (w \o r)
        BY <1>1, <2>4, Associative
      <4> QED
        BY <2>3, <2>4, <3>2, <4>2, <4>3
    <3> QED
      BY <3>1, <3>2
  <2>10. ~isWriting /\ Broken => UNCHANGED <<sent, output>> /\ Frozen
    BY <2>0, <2>2, <2>3, <2>4, <2>8 DEF Frozen, Wired, isWriting
  <2>11. Frozen => ~isWriting /\ Broken
    BY <1>4, <2>0 DEF Frozen, Wired, isWriting
  <2> QED
    BY <1>2, <2>0, <2>1, <2>3, <2>6, <2>7, <2>8, <2>9, <2>10, <2>11
<1> QED
  BY <1>3, <1>4

\* handleWrite(): bytes go from the front of the buffer to the kernel, and the
\* write event is disarmed if that empties it.
LEMMA HandleWriteStep ==
  ASSUME TypeOK, HandleWrite
  PROVE  /\ sent' \in Seq(Byte) /\ inflight' \in 0..SndBuf /\ output' \in Seq(Byte)
         /\ writeShut' \in BOOLEAN
         /\ IsPrefix(sent, sent')
         /\ sent' \o output' = sent \o output
         /\ \/ /\ output' = <<>> /\ Update(events \ {"out"})
               /\ tasks' = Append(tasks, "writeComplete")
            \/ /\ UNCHANGED <<channelVars, tasks>>
               /\ output' = <<>> => output = <<>>
               /\ output = <<>> => output' = <<>>
<1>1. /\ sent \in Seq(Byte) /\ output \in Seq(Byte) /\ inflight \in 0..SndBuf
      /\ Len(output) \in Nat
  BY DEF TypeOK, Byte
<1>2. PICK n \in Writable(Len(output)) :
        /\ Write(output, n)
        /\ output' = SubSeq(output, n + 1, Len(output))
        /\ IF output' = <<>> /\ ~Broken
           THEN /\ Update(events \ {"out"})
                /\ IF state = "kDisconnecting" THEN ShutdownInLoop(FALSE)
                                               ELSE UNCHANGED writeShut
                /\ tasks' = Append(tasks, "writeComplete")
           ELSE UNCHANGED <<channelVars, writeShut, tasks>>
  BY DEF HandleWrite
<1>3. /\ n \in 0..Len(output) /\ inflight + n \in 0..SndBuf
      /\ Broken => n = 0
  BY <1>1, WritableBounds
<1> DEFINE w == SubSeq(output, 1, n)
<1>4. /\ sent' \in Seq(Byte) /\ inflight' \in 0..SndBuf
      /\ sent' = sent \o w /\ IsPrefix(sent, sent')
  BY <1>1, <1>2, <1>3, WriteAppends
<1> DEFINE r == SubSeq(output, n + 1, Len(output))
<1>5. /\ w \in Seq(Byte) /\ output' \in Seq(Byte) /\ w \o output' = output
      /\ n = 0 => output' = output
      /\ output' = <<>> <=> n = Len(output)
  <2>1. /\ w \in Seq(Byte) /\ r \in Seq(Byte) /\ w \o r = output
        /\ n = 0 => r = output
        /\ r = <<>> <=> n = Len(output)
    BY <1>1, <1>3, Cut
  <2>2. output' = r
    BY <1>2
  <2> HIDE DEF r, w
  <2> QED
    BY <2>1, <2>2
<1> HIDE DEF w
<1>6. sent' \o output' = sent \o output
  <2>1. (sent \o w) \o output' = sent \o (w \o output')
    BY <1>1, <1>5, Associative
  <2> QED
    BY <1>4, <1>5, <2>1
<1>7. writeShut' \in BOOLEAN
  BY <1>2 DEF ShutdownInLoop, ShutWr, TypeOK
<1>8. output = <<>> => output' = <<>>
  BY <1>1, <1>3, <1>5
<1> QED
  BY <1>2, <1>3, <1>4, <1>5, <1>6, <1>7, <1>8

-----------------------------------------------------------------------------
(* Types. *)

LEMMA InitInv == Init => ConnectionInv
<1> SUFFICES ASSUME Init PROVE ConnectionInv
  OBVIOUS
<1>1. TypeOK
  <2>1. /\ output \in Seq(Msg \X (1..Size)) /\ sent \in Seq(Msg \X (1..Size))
        /\ tasks \in Seq(Task)
    BY DEF Init
  <2>2. handed \in [Sender -> Seq(Msg)]
    BY DEF Init
  <2>3. caller \in [Thread -> CallerPC]
    BY DEF Init, CallerPC
  <2>4. inflight \in 0..SndBuf /\ closed \in 0..2
    BY Sizes DEF Init
  <2> QED
    BY <2>1, <2>2, <2>3, <2>4 DEF Init, TypeOK
<1>2. Fresh /\ Ending /\ Wired /\ Watched /\ Told
  BY DEF Init, Fresh, Ending, Wired, Watched, Told, Queued, Open
<1> QED
  BY <1>1, <1>2 DEF ConnectionInv

\* A send() on a task or a callback, as the proofs about one variable see it.
LEMMA SendStep ==
  ASSUME ConnectionInv, NEW m \in Msg, RunSend(m) \/ LoopSend(m)
  PROVE  /\ sent' \in Seq(Byte) /\ inflight' \in 0..SndBuf /\ output' \in Seq(Byte)
         /\ tasks' \in Seq(Task) /\ handed' \in [Sender -> Seq(Msg)]
         /\ \/ output' = output /\ UNCHANGED channelVars
            \/ output' # <<>> /\ Open /\ Update(events \cup {"out"})
         /\ \/ UNCHANGED <<sent, output>> /\ Frozen
            \/ /\ ~Frozen /\ Open /\ IsPrefix(sent, sent')
               /\ sent' \o output' = sent \o output \o Bytes(m)
         /\ \A task : Queued(task)' =>
              Queued(task) \/ task \in {"writeComplete", "highWaterMark"}
         /\ UNCHANGED <<use, state, revents, user, caller, promised, closed,
                        writeShut, input, peer, sockErr>>
         /\ state # "kConnecting"
<1>0. TypeOK /\ Fresh /\ Wired /\ tasks \in Seq(Task)
  BY DEF ConnectionInv, TypeOK
<1>1. /\ state # "kConnecting"
      /\ handed' \in [Sender -> Seq(Msg)]
      /\ UNCHANGED <<use, state, revents, user, caller, promised, closed,
                     writeShut, input, peer, sockErr>>
  <2>1. CASE RunSend(m)
    BY <1>0, <2>1 DEF RunSend, Takes, Fresh, TypeOK
  <2>2. CASE LoopSend(m)
    <3>1. handed \in [Sender -> Seq(Msg)]
      BY <1>0 DEF TypeOK
    <3>2. Append(handed[Loop], m) \in Seq(Msg)
      BY <3>1, AppendProperties DEF Sender
    <3> QED
      BY <2>2, <3>1, <3>2 DEF LoopSend
  <2> QED
    BY <2>1, <2>2
<1>2. PICK queue \in Seq(Task) :
        /\ SendInLoop(m, queue)
        /\ \A task : (\E i \in DOMAIN queue : queue[i] = task) => Queued(task)
  <2>1. CASE RunSend(m)
    <3>1. tasks # <<>> /\ SendInLoop(m, Tail(tasks))
      BY <2>1 DEF RunSend, Takes
    <3>2. /\ Tail(tasks) \in Seq(Task) /\ Len(Tail(tasks)) = Len(tasks) - 1
          /\ \A i \in 1..Len(Tail(tasks)) : Tail(tasks)[i] = tasks[i + 1]
      BY <1>0, <3>1, HeadTailProperties
    <3>3. \A i \in DOMAIN Tail(tasks) : i + 1 \in DOMAIN tasks /\ Tail(tasks)[i] = tasks[i + 1]
      BY <1>0, <3>2
    <3> QED
      BY <3>1, <3>2, <3>3 DEF Queued
  <2>2. CASE LoopSend(m)
    BY <1>0, <2>2 DEF LoopSend, Queued
  <2> QED
    BY <2>1, <2>2
<1>3. /\ sent' \in Seq(Byte) /\ inflight' \in 0..SndBuf /\ output' \in Seq(Byte)
      /\ tasks' \in Seq(Task)
      /\ \E ev \in {<<>>, <<"writeComplete">>, <<"highWaterMark">>} :
           tasks' = queue \o ev
      /\ \/ output' = output /\ UNCHANGED channelVars
         \/ output' # <<>> /\ Open /\ Update(events \cup {"out"})
      /\ \/ UNCHANGED <<sent, output>> /\ Frozen
         \/ /\ ~Frozen /\ Open /\ IsPrefix(sent, sent')
            /\ sent' \o output' = sent \o output \o Bytes(m)
  BY <1>0, <1>1, <1>2, SendInLoopStep
<1>4. ASSUME NEW task, Queued(task)', task \notin {"writeComplete", "highWaterMark"}
      PROVE  Queued(task)
  <2>1. PICK ev \in {<<>>, <<"writeComplete">>, <<"highWaterMark">>} :
          tasks' = queue \o ev
    BY <1>3
  <2>2. PICK i \in DOMAIN tasks' : tasks'[i] = task
    BY <1>4 DEF Queued
  <2>3. ev \in Seq(Task)
    <3>1. "writeComplete" \in Task /\ "highWaterMark" \in Task
      BY DEF Task, TaskName
    <3>2. <<>> \in Seq(Task) /\ <<"writeComplete">> \in Seq(Task)
            /\ <<"highWaterMark">> \in Seq(Task)
      <4> HIDE DEF Task
      <4> QED
        BY <3>1
    <3> QED
      BY <2>1, <3>2
  <2>4. /\ Len(tasks') = Len(queue) + Len(ev)
        /\ \A j \in 1..(Len(queue) + Len(ev)) :
             tasks'[j] = IF j <= Len(queue) THEN queue[j] ELSE ev[j - Len(queue)]
    BY <1>2, <2>1, <2>3, ConcatProperties
  <2>5. \A j \in 1..Len(ev) : ev[j] \in {"writeComplete", "highWaterMark"}
    BY <2>1
  <2>6. i \in 1..(Len(queue) + Len(ev)) /\ Len(queue) \in Nat /\ Len(ev) \in Nat
    BY <1>2, <1>3, <2>2, <2>3, <2>4
  <2>7. i \in 1..Len(queue)
    <3>1. ~(i <= Len(queue)) => i - Len(queue) \in 1..Len(ev)
      BY <2>6
    <3> QED
      BY <1>4, <2>2, <2>4, <2>5, <2>6, <3>1
  <2> QED
    BY <1>2, <2>2, <2>4, <2>6, <2>7
<1> QED
  BY <1>1, <1>3, <1>4

\* What any step does to the tasks.
LEMMA TasksStep ==
  ASSUME ConnectionInv, [Next]_vars
  PROVE  /\ tasks' \in Seq(Task)
         /\ \A task : Queued(task)' =>
              \/ Queued(task)
              \/ task \in {"writeComplete", "highWaterMark"}
              \/ task = "forceClose" /\ LoopForceClose
              \/ \E p \in Thread : ThreadQueues(p) /\ task = caller[p]
<1>0. TypeOK /\ tasks \in Seq(Task)
  BY DEF ConnectionInv, TypeOK
<1>1. CASE UNCHANGED tasks
  BY <1>0, <1>1 DEF Queued
<1>2. ASSUME tasks # <<>>, tasks' = Tail(tasks)
      PROVE  tasks' \in Seq(Task) /\ \A task : Queued(task)' => Queued(task)
  <2>1. /\ tasks' \in Seq(Task) /\ Len(tasks') = Len(tasks) - 1
        /\ \A i \in 1..Len(tasks') : tasks'[i] = tasks[i + 1]
    BY <1>0, <1>2, HeadTailProperties
  <2>2. \A i \in DOMAIN tasks' : i + 1 \in DOMAIN tasks /\ tasks'[i] = tasks[i + 1]
    BY <1>0, <2>1
  <2> QED
    BY <2>1, <2>2 DEF Queued
<1>3. ASSUME NEW added \in Task, tasks' = Append(tasks, added)
      PROVE  /\ tasks' \in Seq(Task)
             /\ \A task : Queued(task)' => Queued(task) \/ task = added
  <2>1. /\ tasks' \in Seq(Task) /\ Len(tasks') = Len(tasks) + 1
        /\ \A i \in 1..Len(tasks) : tasks'[i] = tasks[i]
        /\ tasks'[Len(tasks) + 1] = added
    BY <1>0, <1>3, AppendProperties
  <2>2. \A i \in DOMAIN tasks' :
          \/ i \in DOMAIN tasks /\ tasks'[i] = tasks[i]
          \/ tasks'[i] = added
    BY <1>0, <2>1
  <2> QED
    BY <2>1, <2>2 DEF Queued
<1>4. ASSUME NEW m \in Msg, RunSend(m) \/ LoopSend(m)
      PROVE  /\ tasks' \in Seq(Task)
             /\ \A task : Queued(task)' =>
                  Queued(task) \/ task \in {"writeComplete", "highWaterMark"}
  BY <1>4, SendStep
<1>5. CASE HandleWrite
  <2>1. UNCHANGED tasks \/ tasks' = Append(tasks, "writeComplete")
    BY <1>0, <1>5, HandleWriteStep
  <2>2. "writeComplete" \in Task
    BY DEF Task, TaskName
  <2> QED
    BY <1>1, <1>3, <2>1, <2>2
<1>6. CASE RunShutdown \/ RunForceClose \/ RunReading \/ RunCallback
  BY <1>2, <1>6 DEF RunShutdown, RunForceClose, RunReading, RunCallback, Takes
<1>7. CASE LoopForceClose
  <2>1. "forceClose" \in Task /\ tasks' = Append(tasks, "forceClose")
    BY <1>7 DEF Task, TaskName, LoopForceClose
  <2> QED
    BY <1>3, <1>7, <2>1
<1>8. ASSUME NEW p \in Thread, ThreadQueues(p)
      PROVE  /\ tasks' \in Seq(Task)
             /\ \A task : Queued(task)' => Queued(task) \/ task = caller[p]
  BY <1>3, <1>8 DEF ThreadQueues
<1>9. CASE \/ ConnectEstablished \/ Poll \/ HandleHup \/ HandleError \/ HandleRead
           \/ HandleWriteClosed \/ LoopShutdown \/ LoopStopRead \/ LoopStartRead
           \/ RunTimer \/ UserReturns \/ PeerSends \/ PeerReads
  BY <1>1, <1>9
  DEF ConnectEstablished, Poll, HandleHup, HandleError, HandleRead,
      HandleWriteClosed, LoopShutdown, LoopStopRead, LoopStartRead, RunTimer,
      UserReturns, PeerSends, PeerReads
<1>10. ASSUME NEW p \in Thread,
              \/ \E m \in Msg : ThreadSend(p, m)
              \/ ThreadShutdown(p) \/ ThreadForceClose(p) \/ ThreadExchange(p)
              \/ \E op \in {"stopRead", "startRead"} : ThreadReading(p, op)
       PROVE  UNCHANGED tasks
  BY <1>10
  DEF ThreadSend, ThreadShutdown, ThreadForceClose, ThreadExchange, ThreadReading
<1>11. ASSUME NEW how \in {"fin", "reset"}, PeerEnds(how)
       PROVE  UNCHANGED tasks
  BY <1>11 DEF PeerEnds
<1>12. CASE UNCHANGED vars
  BY <1>1, <1>12 DEF vars
<1> QED
  BY <1>1, <1>4, <1>5, <1>6, <1>7, <1>8, <1>9, <1>10, <1>11, <1>12
  DEF Next, Handlers, RunTask, UserCalls, ThreadBegins, ThreadEnds

\* What any step does to a foreign thread.
LEMMA CallerStep ==
  ASSUME ConnectionInv, [Next]_vars
  PROVE  /\ use' = use /\ caller' \in [Thread -> CallerPC]
         /\ \A p \in Thread :
              /\ caller[p] = "done" => caller'[p] = "done"
              /\ caller'[p] \in {"checked", "forceClose"} =>
                   \/ caller[p] \in {"checked", "forceClose"}
                   \/ "forceClose" \in use.thread[p]
              /\ caller'[p] = "startRead" =>
                   caller[p] = "startRead" \/ "startRead" \in use.thread[p]
              /\ state = "kConnecting" /\ caller[p] = "idle" => caller'[p] = "idle"
              /\ ThreadQueues(p) /\ caller[p] = "forceClose" => caller'[p] = "done"
<1>0. TypeOK /\ caller \in [Thread -> CallerPC] /\ use \in Uses
  BY DEF ConnectionInv, TypeOK
<1> DEFINE Goal ==
      /\ use' = use /\ caller' \in [Thread -> CallerPC]
      /\ \A q \in Thread :
           /\ caller[q] = "done" => caller'[q] = "done"
           /\ caller'[q] \in {"checked", "forceClose"} =>
                \/ caller[q] \in {"checked", "forceClose"}
                \/ "forceClose" \in use.thread[q]
           /\ caller'[q] = "startRead" =>
                caller[q] = "startRead" \/ "startRead" \in use.thread[q]
           /\ state = "kConnecting" /\ caller[q] = "idle" => caller'[q] = "idle"
           /\ ThreadQueues(q) /\ caller[q] = "forceClose" => caller'[q] = "done"
<1>1. ASSUME UNCHANGED <<use, caller>> PROVE Goal
  <2>1. ASSUME NEW p \in Thread, ThreadQueues(p), caller[p] = "forceClose"
        PROVE  FALSE
    BY <1>0, <1>1, <2>1 DEF ThreadQueues
  <2> QED
    BY <1>0, <1>1, <2>1
<1>2. ASSUME NEW p \in Thread, NEW m \in Msg, ThreadSend(p, m)
      PROVE  /\ use' = use /\ caller' = [caller EXCEPT ![p] = m]
             /\ state # "kConnecting" /\ caller[p] = "idle" /\ m \in CallerPC
             /\ m \notin {"checked", "forceClose", "startRead", "done"}
  BY <1>2, Names DEF ThreadSend, May, CallerPC, Task, TaskName
<1>3. ASSUME NEW p \in Thread,
             \/ ThreadShutdown(p) \/ ThreadForceClose(p)
             \/ \E op \in {"stopRead", "startRead"} : ThreadReading(p, op)
      PROVE  \/ UNCHANGED <<use, caller>>
             \/ \E c \in {"shutdown", "checked", "done", "stopRead", "startRead"} :
                  /\ use' = use /\ caller' = [caller EXCEPT ![p] = c]
                  /\ state # "kConnecting" /\ caller[p] = "idle" /\ c \in CallerPC
                  /\ c = "checked" => "forceClose" \in use.thread[p]
                  /\ c = "startRead" => "startRead" \in use.thread[p]
  BY <1>3
  DEF ThreadShutdown, ThreadForceClose, ThreadReading, May, CallerPC, Task, TaskName
<1>4. ASSUME NEW p \in Thread, ThreadExchange(p)
      PROVE  \E c \in {"forceClose", "done"} :
               /\ use' = use /\ caller' = [caller EXCEPT ![p] = c]
               /\ caller[p] = "checked" /\ c \in CallerPC
  BY <1>4 DEF ThreadExchange, CallerPC, Task, TaskName
<1>5. ASSUME NEW p \in Thread, ThreadQueues(p)
      PROVE  \E c \in {"idle", "done"} :
               /\ use' = use /\ caller' = [caller EXCEPT ![p] = c]
               /\ caller[p] \in Task /\ c \in CallerPC
               /\ caller[p] = "forceClose" => c = "done"
  BY <1>5 DEF ThreadQueues, CallerPC
<1>6. ASSUME NEW p \in Thread, NEW c \in CallerPC,
             use' = use, caller' = [caller EXCEPT ![p] = c],
             caller[p] # "done", caller[p] = "forceClose" => c = "done",
             c \in {"checked", "forceClose"} =>
               caller[p] \in {"checked", "forceClose"} \/ "forceClose" \in use.thread[p],
             c = "startRead" => "startRead" \in use.thread[p],
             caller[p] = "idle" => state # "kConnecting"
      PROVE  Goal
  <2>1. caller' \in [Thread -> CallerPC]
    BY <1>0, <1>6
  <2>2. \A q \in Thread : caller'[q] = IF q = p THEN c ELSE caller[q]
    BY <1>0, <1>6
  <2>3. ASSUME NEW q \in Thread, ThreadQueues(q), caller[q] = "forceClose"
        PROVE  caller'[q] = "done"
    BY <1>0, <2>3 DEF ThreadQueues
  <2> QED
    BY <1>6, <2>1, <2>2, <2>3
<1>7. CASE \/ Handlers \/ RunTask \/ RunTimer \/ UserCalls \/ UserReturns
           \/ PeerSends \/ PeerReads
  BY <1>1, <1>7
  DEF Handlers, RunTask, UserCalls, ConnectEstablished, Poll, HandleHup,
      HandleError, HandleRead, HandleWriteClosed, HandleWrite, RunSend,
      RunShutdown, RunForceClose, RunReading, RunCallback, RunTimer, LoopSend,
      LoopShutdown, LoopForceClose, LoopStopRead, LoopStartRead, UserReturns,
      PeerSends, PeerReads
<1>8. ASSUME NEW how \in {"fin", "reset"}, PeerEnds(how)
      PROVE  UNCHANGED <<use, caller>>
  BY <1>8 DEF PeerEnds
<1>9. CASE UNCHANGED vars
  BY <1>1, <1>9 DEF vars
<1>10. ASSUME NEW p \in Thread, NEW m \in Msg, ThreadSend(p, m)
       PROVE  \E c \in CallerPC :
                /\ use' = use /\ caller' = [caller EXCEPT ![p] = c]
                /\ caller[p] = "idle" /\ state # "kConnecting"
                /\ c \notin {"checked", "forceClose", "startRead"}
  BY <1>2, <1>10
<1>11. ASSUME NEW p \in Thread, ThreadBegins(p) PROVE Goal
  <2>1. CASE \E m \in Msg : ThreadSend(p, m)
    BY <1>6, <1>10, <2>1
  <2>2. CASE ~ \E m \in Msg : ThreadSend(p, m)
    BY <1>1, <1>3, <1>6, <1>11, <2>2 DEF ThreadBegins
  <2> QED
    BY <2>1, <2>2
<1>12. ASSUME NEW p \in Thread, ThreadEnds(p) PROVE Goal
  <2>1. CASE ThreadExchange(p)
    BY <1>4, <1>6, <2>1
  <2>2. CASE ThreadQueues(p)
    BY <1>5, <1>6, <2>2, Names
  <2> QED
    BY <1>12, <2>1, <2>2 DEF ThreadEnds
<1> QED
  BY <1>1, <1>7, <1>8, <1>9, <1>11, <1>12 DEF Next

\* Once closed by a foreign thread's task, the connection is not opened again by
\* another exchange.
LEMMA ClosersAreDone ==
  ASSUME ConnectionInv, LoneCloser(use), state = "kDisconnected", NEW p \in Thread
  PROVE  /\ caller[p] # "checked"
         /\ ~ThreadShutdown(p)
<1>1. /\ use \in Uses /\ Ending
  BY DEF ConnectionInv, TypeOK
<1>2. CASE Closers(use) = {}
  BY <1>1, <1>2 DEF Closers, Ending, ThreadShutdown, May
<1>3. CASE Closers(use) # {}
  <2>1. PICK q \in Thread : "forceClose" \in use.thread[q] /\ caller[q] = "done"
    BY <1>1, <1>3 DEF Ending
  <2>2. q \in Closers(use)
    BY <2>1 DEF Closers
  <2>3. p \in Closers(use) => p = q
    BY <1>1, <1>3, <2>1, <2>2 DEF LoneCloser
  <2> QED
    BY <1>1, <2>1, <2>3 DEF Closers, Ending, ThreadShutdown, May
<1> QED
  BY <1>2, <1>3

LEMMA ClosedStaysClosed ==
  ASSUME ConnectionInv, LoneCloser(use), [Next]_vars, state = "kDisconnected"
  PROVE  state' = "kDisconnected"
<1>1. ASSUME NEW p \in Thread, ThreadBegins(p) \/ ThreadEnds(p)
      PROVE  state' = state
  BY <1>1, ClosersAreDone
  DEF ThreadBegins, ThreadEnds, ThreadSend, ThreadForceClose, ThreadExchange,
      ThreadReading, ThreadQueues
<1>2. CASE Handlers \/ RunTask
  BY <1>2
  DEF Handlers, RunTask, ConnectEstablished, Poll, HandleHup, HandleError,
      HandleRead, HandleWriteClosed, HandleWrite, HandleClose, RunSend,
      RunShutdown, RunForceClose, RunReading, RunCallback
<1>3. CASE RunTimer \/ UserCalls \/ UserReturns \/ PeerSends \/ PeerReads
  BY <1>3
  DEF RunTimer, UserCalls, LoopSend, LoopShutdown, LoopForceClose, LoopStopRead,
      LoopStartRead, UserReturns, PeerSends, PeerReads
<1>4. ASSUME NEW how \in {"fin", "reset"}, PeerEnds(how)
      PROVE  state' = state
  BY <1>4 DEF PeerEnds
<1>5. CASE UNCHANGED vars
  BY <1>5 DEF vars
<1> QED
  BY <1>1, <1>2, <1>3, <1>4, <1>5 DEF Next

LEMMA EndingStep ==
  ASSUME ConnectionInv, LoneCloser(use), [Next]_vars
  PROVE  Ending'
<1>0. TypeOK /\ Ending /\ use' = use
  BY CallerStep DEF ConnectionInv
<1>1. \A p \in Thread : caller'[p] \in {"checked", "forceClose"} =>
        "forceClose" \in use.thread[p]
  BY <1>0, CallerStep DEF Ending
<1> SUFFICES ASSUME Closers(use) # {}
             PROVE  /\ peer' = "open" /\ ~sockErr'
                    /\ "hup" \notin revents' /\ "err" \notin revents'
                    /\ "in" \in revents' => input'
                    /\ Queued("forceClose")' \/ state' = "kDisconnected" =>
                         \E p \in Thread : /\ "forceClose" \in use.thread[p]
                                           /\ caller'[p] = "done"
  BY <1>0, <1>1 DEF Ending, Closers
<1>2. /\ use.peer = {} /\ "forceClose" \notin use.loop
      /\ peer = "open" /\ ~sockErr
      /\ "hup" \notin revents /\ "err" \notin revents
      /\ "in" \in revents => input
  BY <1>0 DEF TypeOK, LoneCloser, Ending
<1> DEFINE Quiet == /\ peer' = "open" /\ ~sockErr'
                    /\ "hup" \notin revents' /\ "err" \notin revents'
                    /\ "in" \in revents' => input'
                    /\ state' = "kDisconnected" =>
                         state = "kDisconnected" \/ Queued("forceClose")
<1>3. Quiet
  <2>1. CASE Poll
    BY <1>2, <2>1 DEF Poll, Reported, kernelVars
  <2>2. CASE HandleHup \/ HandleError
    BY <1>2, <2>2 DEF HandleHup, HandleError, Turn
  <2>3. CASE HandleRead
    BY <1>2, <2>3 DEF HandleRead, Turn, HandleClose
  <2>4. CASE ConnectEstablished \/ HandleWriteClosed \/ HandleWrite
    <3>1. CASE ConnectEstablished
      BY <1>2, <3>1 DEF ConnectEstablished, kernelVars
    <3>2. CASE HandleWriteClosed
      BY <1>2, <3>2 DEF HandleWriteClosed, Turn, kernelVars
    <3>3. CASE HandleWrite
      <4>1. /\ revents' = revents \ {"out"}
            /\ UNCHANGED <<state, input, peer, sockErr>>
        BY <3>3 DEF HandleWrite, Turn
      <4> QED
        BY <1>2, <4>1
    <3> QED
      BY <2>4, <3>1, <3>2, <3>3
  <2>5. CASE RunForceClose
    <3>1. Queued("forceClose")
      BY <1>0, <2>5 DEF RunForceClose, Takes, Queued, TypeOK
    <3> QED
      BY <1>2, <2>5, <3>1 DEF RunForceClose, kernelVars
  <2>6. ASSUME NEW m \in Msg, RunSend(m) \/ LoopSend(m)
        PROVE  Quiet
    BY <1>2, <2>6 DEF RunSend, LoopSend
  <2>7. CASE RunShutdown \/ RunReading \/ RunCallback
    BY <1>2, <2>7 DEF RunShutdown, RunReading, RunCallback, kernelVars
  <2>8. CASE \/ LoopShutdown \/ LoopForceClose \/ LoopStopRead \/ LoopStartRead
             \/ RunTimer \/ UserReturns \/ PeerSends \/ PeerReads
    BY <1>2, <2>8
    DEF LoopShutdown, LoopForceClose, LoopStopRead, LoopStartRead, RunTimer,
        UserReturns, PeerSends, PeerReads, kernelVars
  <2>9. ASSUME NEW p \in Thread, ThreadBegins(p) \/ ThreadEnds(p)
        PROVE  Quiet
    BY <1>2, <2>9
    DEF ThreadBegins, ThreadEnds, ThreadSend, ThreadShutdown, ThreadForceClose,
        ThreadExchange, ThreadReading, ThreadQueues, kernelVars
  <2>10. ~PeerEnds("fin") /\ ~PeerEnds("reset")
    BY <1>2 DEF PeerEnds
  <2>11. CASE UNCHANGED vars
    BY <1>2, <2>11 DEF vars, kernelVars
  <2> QED
    BY <2>1, <2>2, <2>3, <2>4, <2>5, <2>6, <2>7, <2>8, <2>9, <2>10, <2>11
    DEF Next, Handlers, RunTask, UserCalls
<1>4. ASSUME Queued("forceClose")' \/ state' = "kDisconnected"
      PROVE  \E p \in Thread : /\ "forceClose" \in use.thread[p]
                               /\ caller'[p] = "done"
  <2>1. CASE Queued("forceClose") \/ state = "kDisconnected"
    BY <1>0, <2>1, CallerStep DEF Ending
  <2>2. CASE Queued("forceClose")' /\ ~Queued("forceClose")
    <3>1. ~LoopForceClose
      BY <1>2 DEF LoopForceClose
    <3>2. PICK p \in Thread : ThreadQueues(p) /\ caller[p] = "forceClose"
      BY <2>2, <3>1, TasksStep
    <3> QED
      BY <1>0, <3>2, CallerStep DEF Ending
  <2> QED
    BY <1>3, <1>4, <2>1, <2>2
<1> QED
  BY <1>3, <1>4

LEMMA FreshStep ==
  ASSUME Fresh, [Next]_vars
  PROVE  Fresh'
<1> SUFFICES ASSUME state' = "kConnecting" PROVE Fresh'
  BY DEF Fresh
<1>2. CASE UNCHANGED vars
  BY <1>2 DEF Fresh, vars, channelVars
<1>3. CASE state = "kConnecting" /\ Next
  <2>1. /\ events = {} /\ polling = FALSE /\ revents = {} /\ user = "none"
        /\ output = <<>> /\ tasks = <<>> /\ closed = 0
        /\ \A p \in Thread : caller[p] = "idle"
    BY <1>3 DEF Fresh
  <2>2. ~Handlers
    BY <1>3, <2>1
    DEF Handlers, ConnectEstablished, Poll, HandleHup, HandleError, HandleRead,
        HandleWriteClosed, HandleWrite, Turn
  <2>3. ~RunTask /\ ~RunTimer /\ ~UserCalls /\ ~UserReturns
    BY <1>3, <2>1
    DEF RunTask, RunSend, RunShutdown, RunForceClose, RunReading, RunCallback,
        RunTimer, Takes, UserCalls, LoopSend, LoopShutdown, LoopForceClose, LoopStopRead,
        LoopStartRead, InCallback, UserReturns
  <2>4. \A p \in Thread : ~ThreadBegins(p) /\ ~ThreadEnds(p)
    BY <1>3, <2>1, Names
    DEF ThreadBegins, ThreadSend, ThreadShutdown, ThreadForceClose, ThreadReading,
        May, ThreadEnds, ThreadExchange, ThreadQueues
  <2>5. UNCHANGED <<channelVars, revents, user, output, tasks, closed, caller>>
    BY <1>3, <2>2, <2>3, <2>4 DEF Next, PeerSends, PeerReads, PeerEnds
  <2> QED
    BY <2>1, <2>5 DEF Fresh, channelVars
<1>4. ASSUME state # "kConnecting", Next
      PROVE  FALSE
  <2>1. ASSUME Handlers \/ RunTask PROVE FALSE
    BY <1>4, <2>1
    DEF Handlers, RunTask, ConnectEstablished, Poll, HandleHup, HandleError,
        HandleRead, HandleWriteClosed, HandleWrite, HandleClose, RunSend,
        RunShutdown, RunForceClose, RunReading, RunCallback
  <2>2. ASSUME RunTimer \/ UserCalls \/ UserReturns \/ PeerSends \/ PeerReads
        PROVE  FALSE
    BY <1>4, <2>2
    DEF RunTimer, UserCalls, LoopSend, LoopShutdown, LoopForceClose, LoopStopRead,
        LoopStartRead, UserReturns, PeerSends, PeerReads
  <2>3. ASSUME NEW p \in Thread, ThreadBegins(p) \/ ThreadEnds(p) PROVE FALSE
    BY <1>4, <2>3
    DEF ThreadBegins, ThreadEnds, ThreadSend, ThreadShutdown, ThreadForceClose,
        ThreadExchange, ThreadReading, ThreadQueues
  <2>4. ASSUME NEW how \in {"fin", "reset"}, PeerEnds(how) PROVE FALSE
    BY <1>4, <2>4 DEF PeerEnds
  <2> QED
    BY <1>4, <2>1, <2>2, <2>3, <2>4 DEF Next
<1> QED
  BY <1>2, <1>3, <1>4

\* Whoever acts, the connection is established.
LEMMA NobodyActsBefore ==
  ASSUME Fresh, state = "kConnecting"
  PROVE  /\ \A e \in {"hup", "err", "in", "out"} : ~Turn(e)
         /\ \A task : ~Takes(task)
         /\ ~InCallback /\ ~Poll /\ ~RunTimer
         /\ \A p \in Thread : ~ThreadBegins(p) /\ ~ThreadEnds(p)
<1>1. /\ ~polling /\ revents = {} /\ user = "none" /\ tasks = <<>>
      /\ \A p \in Thread : caller[p] = "idle"
  BY DEF Fresh
<1> QED
  BY <1>1, Names
  DEF Turn, Takes, InCallback, Poll, RunTimer, ThreadBegins, ThreadSend,
      ThreadShutdown, ThreadForceClose, ThreadReading, May, ThreadEnds,
      ThreadExchange, ThreadQueues

LEMMA ActsOnceEstablished ==
  ASSUME ConnectionInv, state = "kConnecting"
  PROVE  /\ \A e \in {"hup", "err", "in", "out"} : ~Turn(e)
         /\ \A task : ~Takes(task)
         /\ ~InCallback /\ ~Poll /\ ~RunTimer
         /\ \A p \in Thread : ~ThreadBegins(p) /\ ~ThreadEnds(p)
  BY NobodyActsBefore DEF ConnectionInv

\* Until connectEstablished(), nothing but the peer moves.
LEMMA StaysConnecting ==
  ASSUME Fresh, [Next]_vars, state = "kConnecting", ~ConnectEstablished
  PROVE  state' = "kConnecting" /\ closed' = closed
  BY NobodyActsBefore
  DEF Next, Handlers, RunTask, UserCalls, HandleHup, HandleError, HandleRead,
      HandleWriteClosed, HandleWrite, RunSend, RunShutdown, RunForceClose,
      RunReading, RunCallback, LoopSend, LoopShutdown, LoopForceClose,
      LoopStopRead, LoopStartRead, UserReturns, InCallback, PeerSends,
      PeerReads, PeerEnds, vars

LEMMA WiredStep ==
  ASSUME ConnectionInv, LoneCloser(use), [Next]_vars
  PROVE  Wired'
<1>0. TypeOK /\ Fresh /\ Wired
  BY DEF ConnectionInv
<1> SUFFICES ASSUME Open'
             PROVE  "pri" \in events' /\ ("out" \in events' <=> output' # <<>>)
  BY DEF Wired
<1>1. state # "kDisconnected" /\ state' # "kDisconnected"
  BY ClosedStaysClosed DEF Open
<1>2. CASE ConnectEstablished
  BY <1>0, <1>2 DEF ConnectEstablished, Update, Fresh
<1>3. CASE state # "kConnecting"
  <2>0. "pri" \in events /\ ("out" \in events <=> output # <<>>)
    BY <1>0, <1>1, <1>3 DEF TypeOK, Wired, Open
  <2>1. ASSUME NEW m \in Msg, RunSend(m) \/ LoopSend(m)
        PROVE  "pri" \in events' /\ ("out" \in events' <=> output' # <<>>)
    BY <2>0, <2>1, SendStep DEF Update, channelVars
  <2>2. CASE HandleWrite
    BY <1>0, <2>0, <2>2, HandleWriteStep DEF Update, channelVars
  <2>3. CASE HandleHup \/ HandleRead
    BY <1>1, <2>0, <2>3 DEF HandleHup, HandleRead, HandleClose, channelVars
  <2>4. CASE Poll \/ HandleError \/ HandleWriteClosed \/ RunShutdown \/ RunCallback
    BY <2>0, <2>4
    DEF Poll, HandleError, HandleWriteClosed, RunShutdown, RunCallback, channelVars
  <2>5. CASE RunForceClose
    BY <1>1, <2>0, <2>5 DEF RunForceClose, HandleClose, channelVars
  <2>6. CASE RunReading \/ LoopStopRead \/ LoopStartRead
    BY <2>0, <2>6
    DEF RunReading, LoopStopRead, LoopStartRead, Update, channelVars
  <2>7. CASE \/ LoopShutdown \/ LoopForceClose \/ RunTimer \/ UserReturns
             \/ PeerSends \/ PeerReads
    BY <2>0, <2>7
    DEF LoopShutdown, LoopForceClose, RunTimer, UserReturns, PeerSends, PeerReads,
        channelVars
  <2>8. ASSUME NEW p \in Thread, ThreadBegins(p) \/ ThreadEnds(p)
        PROVE  UNCHANGED <<events, output>>
    BY <2>8
    DEF ThreadBegins, ThreadEnds, ThreadSend, ThreadShutdown, ThreadForceClose,
        ThreadExchange, ThreadReading, ThreadQueues, channelVars
  <2>9. ASSUME NEW how \in {"fin", "reset"}, PeerEnds(how)
        PROVE  UNCHANGED <<events, output>>
    BY <2>9 DEF PeerEnds, channelVars
  <2>10. CASE UNCHANGED vars
    BY <2>0, <2>10 DEF vars, channelVars
  <2> QED
    BY <1>2, <2>0, <2>1, <2>2, <2>3, <2>4, <2>5, <2>6, <2>7, <2>8, <2>9, <2>10
    DEF Next, Handlers, RunTask, UserCalls
<1>4. CASE state = "kConnecting" /\ ~ConnectEstablished
  <2>1. state' = "kConnecting"
    BY <1>0, <1>4, StaysConnecting
  <2> QED
    BY <2>1 DEF Open
<1> QED
  BY <1>2, <1>3, <1>4

LEMMA ClosedCount ==
  ASSUME closed \in 0..2
  PROVE  /\ Min({closed + 1, 2}) \in 0..2
         /\ Min({closed + 1, 2}) > 0
         /\ closed = 0 => Min({closed + 1, 2}) = 1
<1>1. Min({closed + 1, 2}) = IF closed + 1 <= 2 THEN closed + 1 ELSE 2
  BY DEF Min
<1> QED
  BY <1>1

\* Only handleClose() closes.
LEMMA OnlyHandleClose ==
  ASSUME [Next]_vars, ~HandleClose
  PROVE  closed' = closed /\ (state' = "kDisconnected" => state = "kDisconnected")
<1>1. CASE Handlers \/ RunTask
  BY <1>1
  DEF Handlers, RunTask, ConnectEstablished, Poll, HandleHup, HandleError,
      HandleRead, HandleWriteClosed, HandleWrite, RunSend, RunShutdown,
      RunForceClose, RunReading, RunCallback
<1>2. CASE RunTimer \/ UserCalls \/ UserReturns \/ PeerSends \/ PeerReads
  BY <1>2
  DEF RunTimer, UserCalls, LoopSend, LoopShutdown, LoopForceClose, LoopStopRead,
      LoopStartRead, UserReturns, PeerSends, PeerReads
<1>3. ASSUME NEW p \in Thread, ThreadBegins(p) \/ ThreadEnds(p)
      PROVE  closed' = closed /\ (state' = "kDisconnected" => state = "kDisconnected")
  BY <1>3
  DEF ThreadBegins, ThreadEnds, ThreadSend, ThreadShutdown, ThreadForceClose,
      ThreadExchange, ThreadReading, ThreadQueues
<1>4. ASSUME NEW how \in {"fin", "reset"}, PeerEnds(how)
      PROVE  UNCHANGED <<closed, state>>
  BY <1>4 DEF PeerEnds
<1>5. CASE UNCHANGED vars
  BY <1>5 DEF vars
<1> QED
  BY <1>1, <1>2, <1>3, <1>4, <1>5 DEF Next

LEMMA ToldStep ==
  ASSUME ConnectionInv, LoneCloser(use), [Next]_vars
  PROVE  Told'
<1>1. closed \in 0..2 /\ (closed > 0 <=> state = "kDisconnected")
  BY DEF ConnectionInv, TypeOK, Told
<1>2. CASE HandleClose
  BY <1>1, <1>2, ClosedCount DEF HandleClose, Told
<1>3. CASE ~HandleClose
  BY <1>1, <1>3, OnlyHandleClose, ClosedStaysClosed DEF Told
<1> QED
  BY <1>2, <1>3

\* What is open and was not closed stays open and in the epoll set until handleClose().
LEMMA OpenUntilClosed ==
  ASSUME Open, "pri" \in events, polling = TRUE, Next, ~HandleClose
  PROVE  Open' /\ "pri" \in events' /\ polling' = TRUE
<1> DEFINE Goal == Open' /\ "pri" \in events' /\ polling' = TRUE
<1>1. ASSUME \/ UNCHANGED channelVars
             \/ \E ev : "pri" \in ev /\ Update(ev)
      PROVE  "pri" \in events' /\ polling' = TRUE
  BY <1>1 DEF channelVars, Update
<1>2. ASSUME NEW m \in Msg, NEW queue, SendInLoop(m, queue)
      PROVE  UNCHANGED channelVars \/ Update(events \cup {"out"})
  BY <1>2 DEF SendInLoop
<1>3. ASSUME NEW m \in Msg, RunSend(m) \/ LoopSend(m) PROVE Goal
  BY <1>1, <1>2, <1>3 DEF RunSend, LoopSend, Open
<1>4. CASE HandleHup \/ HandleRead \/ RunForceClose
  BY <1>1, <1>4 DEF HandleHup, HandleRead, RunForceClose, Open
<1>5. CASE \/ Poll \/ HandleError \/ HandleWriteClosed \/ RunShutdown
           \/ RunCallback \/ RunTimer \/ UserReturns \/ PeerSends \/ PeerReads
  BY <1>1, <1>5
  DEF Poll, HandleError, HandleWriteClosed, RunShutdown, RunCallback, RunTimer,
      UserReturns, PeerSends, PeerReads, Open
<1>6. CASE HandleWrite
  <2>1. UNCHANGED channelVars \/ Update(events \ {"out"})
    BY <1>6 DEF HandleWrite
  <2>2. state' = state
    BY <1>6 DEF HandleWrite
  <2> QED
    BY <1>1, <2>1, <2>2 DEF Open
<1>7. CASE RunReading \/ LoopStopRead \/ LoopStartRead
  BY <1>1, <1>7 DEF RunReading, LoopStopRead, LoopStartRead, Open
<1>8. CASE LoopShutdown \/ LoopForceClose
  BY <1>1, <1>8 DEF LoopShutdown, LoopForceClose, Open
<1>9. ASSUME NEW p \in Thread, ThreadBegins(p) \/ ThreadEnds(p) PROVE Goal
  BY <1>1, <1>9
  DEF ThreadBegins, ThreadEnds, ThreadSend, ThreadShutdown, ThreadForceClose,
      ThreadExchange, ThreadReading, ThreadQueues, Open
<1>10. ASSUME NEW how \in {"fin", "reset"}, PeerEnds(how) PROVE Goal
  BY <1>1, <1>10 DEF PeerEnds, Open
<1>11. ~ConnectEstablished
  BY DEF ConnectEstablished, Open
<1> QED
  BY <1>3, <1>4, <1>5, <1>6, <1>7, <1>8, <1>9, <1>10, <1>11
  DEF Next, Handlers, RunTask, UserCalls

LEMMA UnclosedStep ==
  ASSUME Fresh, Unclosed, [Next]_vars
  PROVE  Unclosed'
<1>1. CASE HandleClose
  BY <1>1, ClosedCount DEF HandleClose, Unclosed
<1>2. CASE UNCHANGED vars
  BY <1>2 DEF vars, channelVars, Unclosed, Open
<1>3. CASE ~HandleClose /\ Next
  <2>1. closed' = closed
    BY <1>3, OnlyHandleClose
  <2> SUFFICES ASSUME closed = 0
               PROVE  /\ state' \in {"kConnecting", "kConnected", "kDisconnecting"}
                      /\ polling' \in BOOLEAN /\ (polling' <=> Open')
                      /\ Open' => "pri" \in events'
    BY <2>1 DEF Unclosed
  <2>2. /\ state \in {"kConnecting", "kConnected", "kDisconnecting"}
        /\ polling \in BOOLEAN /\ (polling <=> Open)
        /\ Open => "pri" \in events
    BY DEF Unclosed
  <2>3. CASE ConnectEstablished
    BY <2>3 DEF ConnectEstablished, Update, Open
  <2>4. CASE state = "kConnecting" /\ ~ConnectEstablished
    <3>1. state' = "kConnecting" /\ Fresh'
      BY <1>3, <2>4, StaysConnecting, FreshStep
    <3>2. polling' = FALSE /\ ~Open'
      BY <3>1 DEF Fresh, Open
    <3> QED
      BY <3>1, <3>2
  <2>5. CASE Open
    BY <1>3, <2>2, <2>5, OpenUntilClosed DEF Open
  <2> QED
    BY <2>2, <2>3, <2>4, <2>5 DEF Open
<1> QED
  BY <1>1, <1>2, <1>3

\* An open connection closes once, and no event that closes is left.
LEMMA ClosingStep ==
  ASSUME ConnectionInv, Careful, Next, state' = "kDisconnected",
         state # "kDisconnected"
  PROVE  /\ Open /\ Update({}) /\ closed' = Min({closed + 1, 2})
         /\ "hup" \notin revents' /\ "in" \notin revents'
<1>1. CASE HandleHup
  BY <1>1, ActsOnceEstablished DEF HandleHup, Turn, HandleClose, Open, ConnectionInv, TypeOK
<1>2. CASE HandleRead
  <2>1. "hup" \notin revents
    <3>1. Order[1] = "hup" /\ Order[3] = "in" /\ 1 \in 1..4 /\ 3 \in 1..4 /\ 1 < 3
      BY DEF Order
    <3> QED
      BY <1>2, <3>1 DEF HandleRead, Turn
  <2> QED
    BY <1>2, <2>1, ActsOnceEstablished
    DEF HandleRead, Turn, HandleClose, Open, ConnectionInv, TypeOK
<1>3. CASE RunForceClose
  BY <1>3, ActsOnceEstablished
  DEF RunForceClose, Takes, Idle, HandleClose, Open, ConnectionInv, TypeOK
<1>4. ASSUME \/ ConnectEstablished \/ Poll \/ HandleError \/ HandleWriteClosed
             \/ HandleWrite \/ RunShutdown \/ RunReading \/ RunCallback
      PROVE  FALSE
  BY <1>4
  DEF ConnectEstablished, Poll, HandleError, HandleWriteClosed, HandleWrite,
      RunShutdown, RunReading, RunCallback
<1>5. ASSUME \/ \E m \in Msg : RunSend(m)
             \/ RunTimer \/ UserCalls \/ UserReturns \/ PeerSends \/ PeerReads
      PROVE  FALSE
  BY <1>5
  DEF RunSend, RunTimer, UserCalls, LoopSend, LoopShutdown, LoopForceClose, LoopStopRead,
      LoopStartRead, UserReturns, PeerSends, PeerReads
<1>6. ASSUME NEW p \in Thread, ThreadBegins(p) \/ ThreadEnds(p) PROVE FALSE
  BY <1>6
  DEF ThreadBegins, ThreadEnds, ThreadSend, ThreadShutdown, ThreadForceClose,
      ThreadExchange, ThreadReading, ThreadQueues
<1>7. ASSUME NEW how \in {"fin", "reset"}, PeerEnds(how) PROVE FALSE
  BY <1>7 DEF PeerEnds
<1> QED
  BY <1>1, <1>2, <1>3, <1>4, <1>5, <1>6, <1>7 DEF Next, Handlers, RunTask

\* What is open stays in the epoll set, what is closed stays out of it.
LEMMA OpenStep ==
  ASSUME ConnectionInv, LoneCloser(use), Careful, [Next]_vars,
         state' = "kDisconnected" => state = "kDisconnected"
  PROVE  /\ closed' = closed
         /\ polling' <=> Open'
         /\ state' = "kDisconnected" => events' = {}
         /\ "hup" \in revents' \/ "in" \in revents' => Open'
<1> DEFINE Goal == /\ closed' = closed
                   /\ polling' <=> Open'
                   /\ state' = "kDisconnected" => events' = {}
                   /\ "hup" \in revents' \/ "in" \in revents' => Open'
<1>0. /\ TypeOK /\ Wired /\ polling \in BOOLEAN
      /\ polling <=> Open
      /\ state = "kDisconnected" => events = {}
      /\ "hup" \in revents \/ "in" \in revents => Open
      /\ ~Queued("startRead")
  BY DEF ConnectionInv, TypeOK, Watched
<1>1. ASSUME UNCHANGED <<state, closed>>, revents' \subseteq revents,
             \/ UNCHANGED channelVars
             \/ \E ev : Open /\ "pri" \in ev /\ Update(ev)
      PROVE  Goal
  BY <1>0, <1>1 DEF channelVars, Update, Open
<1>2. ASSUME UNCHANGED <<channelVars, closed, revents>>,
             state # "kConnecting", state # "kDisconnected",
             state' = "kDisconnecting"
      PROVE  Goal
  BY <1>0, <1>2 DEF channelVars, Open, TypeOK
<1>3. state # "kConnecting" /\ state # "kDisconnected" => Open /\ "pri" \in events
  BY <1>0 DEF Open, TypeOK, Wired
<1>4. CASE ConnectEstablished
  BY <1>0, <1>4 DEF ConnectEstablished, Update, Open
<1>5. CASE Poll
  BY <1>0, <1>5 DEF Poll, channelVars, Open
<1>6. CASE HandleHup \/ HandleError \/ HandleRead \/ HandleWriteClosed
  <2>1. UNCHANGED <<state, closed, channelVars>> /\ revents' \subseteq revents
    <3>1. CASE HandleHup
      BY <1>0, <3>1 DEF HandleHup, Turn, HandleClose, Open
    <3>2. CASE HandleRead
      BY <1>0, <3>2 DEF HandleRead, Turn, HandleClose, Open
    <3>3. CASE HandleError
      BY <3>3 DEF HandleError, Turn, channelVars
    <3>4. CASE HandleWriteClosed
      BY <3>4 DEF HandleWriteClosed, Turn, channelVars
    <3> QED
      BY <1>6, <3>1, <3>2, <3>3, <3>4
  <2> QED
    BY <1>1, <2>1
<1>7. CASE HandleWrite
  <2>1. state # "kConnecting" /\ state # "kDisconnected"
    BY <1>7, ActsOnceEstablished DEF HandleWrite
  <2>2. UNCHANGED <<state, closed>> /\ revents' \subseteq revents
    BY <1>7 DEF HandleWrite, Turn
  <2>3. Update(events \ {"out"}) \/ UNCHANGED channelVars
    BY <1>0, <1>7, HandleWriteStep
  <2>4. Open /\ "pri" \in events \ {"out"}
    BY <1>3, <2>1
  <2> QED
    BY <1>1, <2>2, <2>3, <2>4
<1>8. ASSUME NEW m \in Msg, RunSend(m) \/ LoopSend(m) PROVE Goal
  <2>1. UNCHANGED <<state, closed, revents>>
    BY <1>8, SendStep
  <2>2. \/ UNCHANGED channelVars
        \/ Open /\ Update(events \cup {"out"})
    BY <1>8, SendStep
  <2>3. Open => "pri" \in events \cup {"out"}
    BY <1>3 DEF Open
  <2> QED
    BY <1>1, <2>1, <2>2, <2>3
<1>9. CASE RunShutdown \/ RunForceClose \/ RunCallback
  <2>1. UNCHANGED <<state, closed, channelVars, revents>>
    BY <1>0, <1>9
    DEF RunShutdown, RunForceClose, RunCallback, HandleClose
  <2> QED
    BY <1>1, <2>1
<1>10. CASE RunReading
  <2>1. UNCHANGED <<state, closed, revents>> /\ state # "kConnecting"
    BY <1>10, ActsOnceEstablished DEF RunReading
  <2>2. ~Takes("startRead")
    BY <1>0 DEF Takes, Queued, TypeOK
  <2>3. IF isReading THEN Update(events \ {"in"}) ELSE UNCHANGED channelVars
    BY <1>10, <2>2 DEF RunReading
  <2>4. isReading => Open /\ "pri" \in events \ {"in"}
    BY <1>0, <1>3, <2>1 DEF isReading
  <2> QED
    BY <1>1, <2>1, <2>3, <2>4
<1>11. CASE LoopShutdown \/ LoopForceClose
  BY <1>2, <1>11, ActsOnceEstablished DEF LoopShutdown, LoopForceClose, channelVars
<1>12. CASE LoopStopRead \/ LoopStartRead
  <2>1. /\ UNCHANGED <<state, closed, revents>>
        /\ state # "kConnecting" /\ state # "kDisconnected"
    BY <1>0, <1>12, ActsOnceEstablished
    DEF LoopStopRead, LoopStartRead, InCallback, isReading, Careful
  <2>2. Update(events \ {"in"}) \/ Update(events \cup {"in", "pri"})
    BY <1>12 DEF LoopStopRead, LoopStartRead
  <2>3. "pri" \in events \ {"in"} /\ "pri" \in events \cup {"in", "pri"}
    BY <1>3, <2>1
  <2> QED
    BY <1>1, <1>3, <2>1, <2>2, <2>3
<1>13. ASSUME NEW p \in Thread, ThreadBegins(p) \/ ThreadEnds(p) PROVE Goal
  <2>1. /\ state # "kConnecting"
        /\ state = "kDisconnected" => ~ThreadShutdown(p) /\ ~ThreadExchange(p)
    BY <1>13, ActsOnceEstablished, ClosersAreDone DEF ThreadExchange
  <2>2. CASE ThreadShutdown(p) \/ ThreadExchange(p)
    BY <1>2, <2>1, <2>2 DEF ThreadShutdown, ThreadExchange
  <2>3. CASE ~(ThreadShutdown(p) \/ ThreadExchange(p))
    BY <1>1, <1>13, <2>3
    DEF ThreadBegins, ThreadEnds, ThreadSend, ThreadForceClose, ThreadReading,
        ThreadQueues
  <2> QED
    BY <2>2, <2>3
<1>14. CASE RunTimer \/ UserReturns \/ PeerSends \/ PeerReads
  BY <1>1, <1>14 DEF RunTimer, UserReturns, PeerSends, PeerReads
<1>15. ASSUME NEW how \in {"fin", "reset"}, PeerEnds(how) PROVE Goal
  BY <1>1, <1>15 DEF PeerEnds
<1>16. CASE UNCHANGED vars
  BY <1>1, <1>16 DEF vars, channelVars
<1> QED
  BY <1>4, <1>5, <1>6, <1>7, <1>8, <1>9, <1>10, <1>11, <1>12, <1>13, <1>14,
     <1>15, <1>16
  DEF Next, Handlers, RunTask, UserCalls

LEMMA WatchedStep ==
  ASSUME ConnectionInv, LoneCloser(use), [Next]_vars
  PROVE  Watched'
<1> SUFFICES ASSUME Careful'
             PROVE  /\ closed' = IF state' = "kDisconnected" THEN 1 ELSE 0
                    /\ polling' <=> Open'
                    /\ state' = "kDisconnected" => events' = {}
                    /\ "hup" \in revents' \/ "in" \in revents' => Open'
                    /\ ~Queued("startRead")'
                    /\ \A p \in Thread : caller'[p] # "startRead"
  BY DEF Watched
<1>1. TypeOK /\ Watched /\ use' = use
  BY CallerStep DEF ConnectionInv
<1>2. Careful
  BY <1>1 DEF Careful
<1>3. \A p \in Thread : caller[p] # "startRead" /\ caller'[p] # "startRead"
  BY <1>1, <1>2, CallerStep DEF Watched, Careful
<1>4. ~Queued("startRead")'
  BY <1>1, <1>2, <1>3, TasksStep DEF Watched
<1>5. CASE state' = "kDisconnected" /\ state # "kDisconnected"
  <2>1. Next
    BY <1>5 DEF vars
  <2>2. /\ Open /\ Update({}) /\ closed' = Min({closed + 1, 2})
        /\ "hup" \notin revents' /\ "in" \notin revents'
    BY <1>2, <1>5, <2>1, ClosingStep
  <2>3. closed = 0 /\ polling /\ closed \in 0..2
    BY <1>1, <1>2, <1>5, <2>2 DEF Watched, TypeOK
  <2>4. closed' = 1
    BY <2>2, <2>3, ClosedCount
  <2> QED
    BY <1>3, <1>4, <1>5, <2>2, <2>3, <2>4 DEF Update, Open
<1>6. CASE ~(state' = "kDisconnected" /\ state # "kDisconnected")
  <2>1. state' = "kDisconnected" <=> state = "kDisconnected"
    BY <1>6, ClosedStaysClosed
  <2> QED
    BY <1>1, <1>2, <1>3, <1>4, <2>1, OpenStep DEF Watched
<1> QED
  BY <1>5, <1>6

LEMMA BytesType ==
  ASSUME ConnectionInv, [Next]_vars
  PROVE  /\ sent' \in Seq(Byte) /\ output' \in Seq(Byte)
         /\ inflight' \in 0..SndBuf /\ handed' \in [Sender -> Seq(Msg)]
<1>0. /\ TypeOK /\ sent \in Seq(Byte) /\ output \in Seq(Byte)
      /\ inflight \in 0..SndBuf /\ handed \in [Sender -> Seq(Msg)] /\ SndBuf \in Nat
  BY Sizes DEF ConnectionInv, TypeOK, Byte
<1>1. ASSUME NEW m \in Msg, RunSend(m) \/ LoopSend(m)
      PROVE  /\ sent' \in Seq(Byte) /\ output' \in Seq(Byte)
             /\ inflight' \in 0..SndBuf /\ handed' \in [Sender -> Seq(Msg)]
  BY <1>1, SendStep
<1>2. CASE HandleWrite
  BY <1>0, <1>2, HandleWriteStep DEF HandleWrite
<1>3. CASE PeerReads
  <2>1. inflight' = inflight - 1 /\ inflight > 0
    BY <1>3 DEF PeerReads
  <2>2. inflight' \in 0..SndBuf
    BY <1>0, <2>1
  <2> QED
    BY <1>0, <1>3, <2>2 DEF PeerReads
<1>4. ASSUME NEW p \in Thread, NEW m \in Msg, ThreadSend(p, m)
      PROVE  /\ UNCHANGED <<sent, output, inflight>>
             /\ handed' \in [Sender -> Seq(Msg)]
  <2>1. Append(handed[p], m) \in Seq(Msg)
    BY <1>0, AppendProperties DEF Sender
  <2>2. handed' = [handed EXCEPT ![p] = Append(handed[p], m)]
    BY <1>4 DEF ThreadSend
  <2>3. handed' \in [Sender -> Seq(Msg)]
    BY <1>0, <2>1, <2>2
  <2> QED
    BY <1>4, <2>3 DEF ThreadSend, kernelVars
<1>5. CASE \/ ConnectEstablished \/ Poll \/ HandleHup \/ HandleError \/ HandleRead
           \/ HandleWriteClosed \/ RunShutdown \/ RunForceClose \/ RunReading
           \/ RunCallback
  BY <1>0, <1>5
  DEF ConnectEstablished, Poll, HandleHup, HandleError, HandleRead,
      HandleWriteClosed, RunShutdown, RunForceClose, RunReading, RunCallback,
      kernelVars
<1>6. CASE \/ LoopShutdown \/ LoopForceClose \/ LoopStopRead \/ LoopStartRead
           \/ RunTimer \/ UserReturns \/ PeerSends
  BY <1>0, <1>6
  DEF LoopShutdown, LoopForceClose, LoopStopRead, LoopStartRead, RunTimer,
      UserReturns, PeerSends, kernelVars
<1>7. ASSUME NEW p \in Thread,
             \/ ThreadShutdown(p) \/ ThreadForceClose(p) \/ ThreadEnds(p)
             \/ \E op \in {"stopRead", "startRead"} : ThreadReading(p, op)
      PROVE  UNCHANGED <<sent, output, inflight, handed>>
  BY <1>7
  DEF ThreadShutdown, ThreadForceClose, ThreadEnds, ThreadExchange, ThreadQueues,
      ThreadReading, kernelVars
<1>8. ASSUME NEW how \in {"fin", "reset"}, PeerEnds(how)
      PROVE  UNCHANGED <<sent, output, inflight, handed>>
  BY <1>8 DEF PeerEnds
<1>9. CASE UNCHANGED vars
  BY <1>0, <1>9 DEF vars, kernelVars
<1> QED
  BY <1>0, <1>1, <1>2, <1>3, <1>4, <1>5, <1>6, <1>7, <1>8, <1>9
  DEF Next, Handlers, RunTask, UserCalls, ThreadBegins

LEMMA TypeStep ==
  ASSUME ConnectionInv, [Next]_vars
  PROVE  TypeOK'
<1> DEFINE Small ==
      /\ state \in {"kConnecting", "kConnected", "kDisconnecting", "kDisconnected"}
      /\ events \subseteq {"in", "pri", "out"}
      /\ polling \in BOOLEAN
      /\ revents \subseteq {"hup", "err", "in", "out"}
      /\ user \in {"none", "writeComplete", "other"}
      /\ promised \subseteq Msg
      /\ closed \in 0..2
      /\ writeShut \in BOOLEAN /\ input \in BOOLEAN /\ sockErr \in BOOLEAN
      /\ peer \in {"open", "fin", "reset"}
<1>0. TypeOK
  BY DEF ConnectionInv
<1>1. Small
  BY <1>0 DEF TypeOK
<1> SUFFICES Small'
  BY <1>0, TasksStep, CallerStep, BytesType DEF TypeOK, Byte
<1>2. \A s \in Sender : Range(handed[s]) \subseteq Msg
  BY <1>0 DEF TypeOK, Range
<1>3. Min({closed + 1, 2}) \in 0..2
  BY <1>1, ClosedCount
<1>4. ASSUME NEW m \in Msg, RunSend(m) \/ LoopSend(m) PROVE Small'
  <2>1. UNCHANGED <<state, revents, user, promised, closed, writeShut, input,
                    peer, sockErr>>
    BY <1>4, SendStep
  <2>2. UNCHANGED channelVars \/ Update(events \cup {"out"})
    BY <1>4, SendStep
  <2> QED
    BY <1>1, <2>1, <2>2 DEF channelVars, Update
<1>5. CASE HandleWrite
  <2>1. /\ UNCHANGED <<state, user, promised, closed, input, peer, sockErr>>
        /\ revents' \subseteq revents
    BY <1>5 DEF HandleWrite, Turn
  <2>2. /\ writeShut' \in BOOLEAN
        /\ UNCHANGED channelVars \/ Update(events \ {"out"})
    BY <1>0, <1>5, HandleWriteStep
  <2> QED
    BY <1>1, <2>1, <2>2 DEF channelVars, Update
<1>6. CASE ConnectEstablished \/ Poll
  BY <1>1, <1>6
  DEF ConnectEstablished, Poll, Update, Reported, channelVars, kernelVars
<1>7. CASE HandleHup \/ HandleError \/ HandleRead \/ HandleWriteClosed
  <2>1. HandleClose => state' = "kDisconnected" /\ user' = "other" /\ closed' \in 0..2
                       /\ events' = {} /\ polling' \in BOOLEAN
    BY <1>3 DEF HandleClose, Update
  <2>2. CASE HandleHup
    BY <1>1, <2>1, <2>2 DEF HandleHup, Turn, channelVars, kernelVars
  <2>3. CASE HandleError
    BY <1>1, <2>3 DEF HandleError, Turn, channelVars
  <2>4. CASE HandleRead
    BY <1>1, <2>1, <2>4 DEF HandleRead, Turn, channelVars
  <2>5. CASE HandleWriteClosed
    BY <1>1, <2>5 DEF HandleWriteClosed, Turn, channelVars, kernelVars
  <2> QED
    BY <1>7, <2>2, <2>3, <2>4, <2>5
<1>8. CASE RunShutdown \/ RunForceClose \/ RunReading \/ RunCallback
  <2>1. CASE RunShutdown
    BY <1>1, <2>1 DEF RunShutdown, ShutdownInLoop, ShutWr, channelVars
  <2>2. CASE RunForceClose
    BY <1>1, <1>3, <2>2
    DEF RunForceClose, HandleClose, Update, channelVars, kernelVars
  <2>3. CASE RunReading
    BY <1>1, <2>3 DEF RunReading, Update, channelVars, kernelVars
  <2>4. CASE RunCallback
    BY <1>1, <2>4 DEF RunCallback, channelVars, kernelVars
  <2> QED
    BY <1>8, <2>1, <2>2, <2>3, <2>4
<1>9. CASE LoopShutdown \/ LoopForceClose
  <2>1. CASE LoopShutdown
    <3>1. promised' \subseteq Msg
      BY <1>2, <2>1 DEF LoopShutdown, Sender
    <3> QED
      BY <1>1, <2>1, <3>1 DEF LoopShutdown, ShutdownInLoop, ShutWr, channelVars
  <2>2. CASE LoopForceClose
    BY <1>1, <2>2 DEF LoopForceClose, channelVars, kernelVars
  <2> QED
    BY <1>9, <2>1, <2>2
<1>10. CASE \/ LoopStopRead \/ LoopStartRead \/ RunTimer \/ UserReturns
            \/ PeerSends \/ PeerReads
  <2>1. CASE LoopStopRead \/ LoopStartRead
    BY <1>1, <2>1 DEF LoopStopRead, LoopStartRead, Update, channelVars, kernelVars
  <2>2. CASE RunTimer \/ UserReturns
    BY <1>1, <2>2 DEF RunTimer, UserReturns, channelVars, kernelVars
  <2>3. CASE PeerSends \/ PeerReads
    BY <1>1, <2>3 DEF PeerSends, PeerReads, channelVars
  <2> QED
    BY <1>10, <2>1, <2>2, <2>3
<1>11. ASSUME NEW p \in Thread, ThreadBegins(p) \/ ThreadEnds(p) PROVE Small'
  <2>1. CASE ThreadShutdown(p)
    <3>1. promised' \subseteq Msg
      BY <1>1, <1>2, <2>1 DEF ThreadShutdown, Sender
    <3> QED
      BY <1>1, <2>1, <3>1 DEF ThreadShutdown, channelVars, kernelVars
  <2>2. CASE ThreadExchange(p)
    BY <1>1, <2>2 DEF ThreadExchange, channelVars, kernelVars
  <2>3. CASE ~(ThreadShutdown(p) \/ ThreadExchange(p))
    <3>1. UNCHANGED <<state, events, polling, revents, user, promised, closed,
                      writeShut, input, sockErr, peer>>
      BY <1>11, <2>3
      DEF ThreadBegins, ThreadEnds, ThreadSend, ThreadForceClose, ThreadReading,
          ThreadQueues, channelVars, kernelVars
    <3> QED
      BY <1>1, <3>1
  <2> QED
    BY <2>1, <2>2, <2>3
<1>12. ASSUME NEW how \in {"fin", "reset"}, PeerEnds(how) PROVE Small'
  BY <1>1, <1>12 DEF PeerEnds, channelVars
<1>13. CASE UNCHANGED vars
  BY <1>1, <1>13 DEF vars, channelVars, kernelVars
<1> QED
  BY <1>4, <1>5, <1>6, <1>7, <1>8, <1>9, <1>10, <1>11, <1>12, <1>13
  DEF Next, Handlers, RunTask, UserCalls

-----------------------------------------------------------------------------
(* The theorems. *)

LEMMA StepInv ==
  ASSUME ConnectionInv, LoneCloser(use), [Next]_vars
  PROVE  ConnectionInv'
  BY TypeStep, FreshStep, EndingStep, WiredStep, WatchedStep, ToldStep
  DEF ConnectionInv

LEMMA Alone ==
  ASSUME OneCloser, ConnectionInv
  PROVE  LoneCloser(use)
  BY DEF ConnectionInv, TypeOK, OneCloser

LEMMA Invariance ==
  ASSUME OneCloser
  PROVE  Spec => []ConnectionInv
<1>1. ConnectionInv /\ [Next]_vars => ConnectionInv'
  BY Alone, StepInv
<1> QED
  BY <1>1, InitInv, PTL DEF Spec

\* The program stays the same.
LEMMA SameProgram ==
  ASSUME [Next]_vars
  PROVE  use' = use
<1>1. CASE Handlers \/ RunTask
  BY <1>1
  DEF Handlers, RunTask, ConnectEstablished, Poll, HandleHup, HandleError,
      HandleRead, HandleWriteClosed, HandleWrite, RunSend, RunShutdown,
      RunForceClose, RunReading, RunCallback
<1>2. CASE RunTimer \/ UserCalls \/ UserReturns \/ PeerSends \/ PeerReads
  BY <1>2
  DEF RunTimer, UserCalls, LoopSend, LoopShutdown, LoopForceClose, LoopStopRead,
      LoopStartRead, UserReturns, PeerSends, PeerReads
<1>3. ASSUME NEW p \in Thread, ThreadBegins(p) \/ ThreadEnds(p)
      PROVE  use' = use
  BY <1>3
  DEF ThreadBegins, ThreadEnds, ThreadSend, ThreadShutdown, ThreadForceClose,
      ThreadExchange, ThreadReading, ThreadQueues
<1>4. ASSUME NEW how \in {"fin", "reset"}, PeerEnds(how)
      PROVE  use' = use
  BY <1>4 DEF PeerEnds
<1>5. CASE UNCHANGED vars
  BY <1>5 DEF vars
<1> QED
  BY <1>1, <1>2, <1>3, <1>4, <1>5 DEF Next

\* Whatever programs there are, a program with a lone closer keeps the invariant.
LEMMA LoneInvariance == Spec => [](LoneCloser(use) => ConnectionInv)
<1>1. ASSUME LoneCloser(use) => ConnectionInv, [Next]_vars
      PROVE  (LoneCloser(use) => ConnectionInv)'
  <2>1. LoneCloser(use)' => LoneCloser(use)
    BY <1>1, SameProgram DEF LoneCloser, Closers
  <2> QED
    BY <1>1, <2>1, StepInv
<1> QED
  BY <1>1, InitInv, PTL DEF Spec

\* And any program keeps a connection as it is until it is closed.
LEMMA UnclosedInvariance == Spec => [](Fresh /\ Unclosed)
<1>1. Init => Fresh /\ Unclosed
  <2>1. 0 \in 0..2
    OBVIOUS
  <2> QED
    BY <2>1 DEF Init, Fresh, Unclosed, Open
<1>2. Fresh /\ Unclosed /\ [Next]_vars => Fresh' /\ Unclosed'
  BY FreshStep, UnclosedStep
<1> QED
  BY <1>1, <1>2, PTL DEF Spec

\* Every value of the connection is of the kind the code declares.
THEOREM TypeCorrect ==
  ASSUME OneCloser
  PROVE  Spec => []TypeOK
<1>1. ConnectionInv => TypeOK
  BY DEF ConnectionInv
<1> QED
  BY <1>1, Invariance, PTL

\* The write event is armed exactly while bytes wait in outputBuffer_, which
\* sendInLoop() and handleWrite() assert (TcpConnection.cc:123, 264, 265).
THEOREM WriteEventArmed ==
  ASSUME OneCloser
  PROVE  Spec => []OutputIffWriting
<1>1. ConnectionInv => OutputIffWriting
  BY DEF ConnectionInv, Wired, OutputIffWriting, isWriting
<1> QED
  BY <1>1, Invariance, PTL

\* In any program, threads and a peer that end the connection at the same time
\* included, a connection has its state and its place in the epoll set until it is
\* closed (TcpConnection.cc:70).  In a program with a lone closer it is then closed
\* for good, and, if startRead() is called with care, its closeCallback_ is called
\* once and its channel stays out of the epoll set.
THEOREM ClosesOnce == Spec => []ClosedForGood
<1>1. ASSUME LoneCloser(use) => ConnectionInv, Unclosed
      PROVE  ClosedForGood
  <2>1. closed = 0 => state # "kDisconnected" /\ (polling <=> Open)
    BY <1>1 DEF Unclosed
  <2>2. ASSUME closed > 0, LoneCloser(use)
        PROVE  state = "kDisconnected" /\ (Careful => closed = 1 /\ ~polling)
    BY <1>1, <2>2 DEF ConnectionInv, Told, Watched, Open
  <2> QED
    BY <2>1, <2>2 DEF ClosedForGood
<1> QED
  BY <1>1, LoneInvariance, UnclosedInvariance, PTL

\* A step takes up a message, passes bytes on, closes, or is none of the stream's.
LEMMA StreamStep ==
  ASSUME ConnectionInv, LoneCloser(use), [Next]_vars
  PROVE  [BS!Next]_(BS!vars)
<1> USE DEF BS!vars
<1>0. /\ TypeOK /\ sent \in Seq(Byte) /\ closed \in 0..2
      /\ closed = 0 <=> state # "kDisconnected"
  BY DEF ConnectionInv, TypeOK, Told, Byte
<1>1. ASSUME NEW m \in Msg, RunSend(m) \/ LoopSend(m)
      PROVE  BS!Take(m) \/ UNCHANGED <<sent, output, closed>>
  <2>1. /\ closed' = closed
        /\ \/ UNCHANGED <<sent, output>>
           \/ /\ Open /\ IsPrefix(sent, sent')
              /\ sent' \o output' = sent \o output \o Bytes(m)
    BY <1>1, SendStep
  <2>2. Open => closed = 0
    BY <1>0 DEF Open
  <2> QED
    BY <2>1, <2>2
    DEF BS!Take, BS!Grows, BS!Bytes, BS!IsPrefix, Bytes, IsPrefix
<1>2. CASE HandleWrite
  <2>1. /\ closed' = closed /\ closed = 0
        /\ IsPrefix(sent, sent') /\ sent' \o output' = sent \o output
    BY <1>0, <1>2, HandleWriteStep DEF HandleWrite
  <2> QED
    BY <2>1 DEF BS!Next, BS!Flush, BS!Grows, BS!IsPrefix, IsPrefix
<1>3. ASSUME UNCHANGED <<sent, output>>
      PROVE  [BS!Next]_(BS!vars)
  <2>1. CASE closed # 0
    <3>1. closed' # 0
      BY <1>0, <2>1, ClosedCount, OnlyHandleClose DEF HandleClose
    <3> QED
      BY <1>3, <2>1, <3>1
  <2>2. CASE closed = 0 /\ closed' # 0
    BY <1>3, <2>2 DEF BS!Next, BS!Close
  <2>3. CASE closed = 0 /\ closed' = 0
    BY <1>3, <2>3
  <2> QED
    BY <2>1, <2>2, <2>3
<1>4. CASE \/ ConnectEstablished \/ Poll \/ HandleHup \/ HandleError \/ HandleRead
           \/ HandleWriteClosed \/ RunShutdown \/ RunForceClose \/ RunReading
           \/ RunCallback
  <2>1. UNCHANGED <<sent, output>>
    BY <1>4
    DEF ConnectEstablished, Poll, HandleHup, HandleError, HandleRead,
        HandleWriteClosed, RunShutdown, RunForceClose, RunReading, RunCallback,
        kernelVars
  <2> QED
    BY <1>3, <2>1
<1>5. CASE \/ LoopShutdown \/ LoopForceClose \/ LoopStopRead \/ LoopStartRead
           \/ RunTimer \/ UserReturns \/ PeerSends \/ PeerReads
  <2>1. UNCHANGED <<sent, output>>
    BY <1>5
    DEF LoopShutdown, LoopForceClose, LoopStopRead, LoopStartRead, RunTimer,
        UserReturns, PeerSends, PeerReads, kernelVars
  <2> QED
    BY <1>3, <2>1
<1>6. ASSUME NEW p \in Thread, ThreadBegins(p) \/ ThreadEnds(p)
      PROVE  UNCHANGED <<sent, output>>
  BY <1>6
  DEF ThreadBegins, ThreadEnds, ThreadSend, ThreadShutdown, ThreadForceClose,
      ThreadExchange, ThreadReading, ThreadQueues, kernelVars
<1>7. ASSUME NEW how \in {"fin", "reset"}, PeerEnds(how)
      PROVE  UNCHANGED <<sent, output>>
  BY <1>7 DEF PeerEnds
<1>8. CASE UNCHANGED vars
  BY <1>8 DEF vars, kernelVars
<1>9. ASSUME NEW m \in Msg, BS!Take(m) PROVE BS!Next
  BY <1>9 DEF BS!Next
<1> QED
  BY <1>1, <1>2, <1>3, <1>4, <1>5, <1>6, <1>7, <1>8, <1>9
  DEF Next, Handlers, RunTask, UserCalls

\* What send() is given leaves as a stream of whole messages: in the order the loop
\* took them up, through partial writes, and nothing once the connection is closed.
THEOREM StreamImplemented ==
  ASSUME OneCloser
  PROVE  Spec => ImplementsByteStream
<1>1. Init => BS!Init
  BY DEF Init, BS!Init
<1>2. ConnectionInv /\ [Next]_vars => [BS!Next]_(BS!vars)
  BY Alone, StreamStep
<1> QED
  BY <1>1, <1>2, Invariance, PTL DEF Spec, ImplementsByteStream, BS!Spec

-----------------------------------------------------------------------------
(***************************************************************************)
(* The order of one sender's messages, from send() to the kernel, for any  *)
(* number of senders and messages.                                         *)
(***************************************************************************)

\* What was taken up: the bytes the kernel has and those that wait.
Stream == sent \o output

InStream(m) == \E k \in DOMAIN Stream : Stream[k][1] = m

-----------------------------------------------------------------------------
(* The invariant. *)

\* Each message is accepted once.
AcceptedOnce ==
  \A s, t \in Sender : \A i \in DOMAIN handed[s], j \in DOMAIN handed[t] :
    handed[s][i] = handed[t][j] => s = t /\ i = j

\* A message is on its way only after it was accepted.
NoneEarly ==
  \A m \in Msg : Unsent(m) =>
    ~InStream(m) /\ ~Queued(m) /\ \A p \in Thread : caller[p] # m

\* A thread about to queue a message queues the last that it was accepted.
LastIsCalled ==
  \A p \in Thread : caller[p] \in Msg =>
    handed[p] # <<>> /\ caller[p] = handed[p][Len(handed[p])]

\* An accepted message is taken up, queued or about to be, or nothing is taken up
\* any more.
NoneLost ==
  \A s \in Sender : \A i \in DOMAIN handed[s] :
    \/ InStream(handed[s][i]) \/ Frozen
    \/ s \in Thread /\ (Queued(handed[s][i]) \/ caller[s] = handed[s][i])

\* ... and is in one of these places, once.
OnePlace ==
  /\ \A m \in Msg : InStream(m) => ~Queued(m) /\ \A p \in Thread : caller[p] # m
  /\ \A m \in Msg : Queued(m) => \A p \in Thread : caller[p] # m
  /\ \A q, r \in DOMAIN tasks : tasks[q] = tasks[r] /\ tasks[q] \in Msg => q = r
  /\ \A k, l \in DOMAIN Stream : Stream[k] = Stream[l] => k = l

\* A message is taken up whole.
Whole ==
  \A k \in DOMAIN Stream :
    /\ Stream[k][2] > 1 =>
         k > 1 /\ Stream[k - 1] = <<Stream[k][1], Stream[k][2] - 1>>
    /\ \E l \in DOMAIN Stream : Stream[l] = <<Stream[k][1], Size>>

\* A sender's messages are taken up, and wait, in the order they were accepted.
TakenInOrder ==
  \A s \in Sender : \A i \in DOMAIN handed[s] : i > 1 =>
    \A k \in DOMAIN Stream : Stream[k] = <<handed[s][i], 1>> =>
      \E l \in 1..(k - 1) : Stream[l] = <<handed[s][i - 1], Size>>

QueuedInOrder ==
  \A s \in Sender : \A i \in DOMAIN handed[s] : i > 1 =>
    \A q \in DOMAIN tasks : tasks[q] = handed[s][i] =>
      \/ InStream(handed[s][i - 1]) \/ Frozen
      \/ \E r \in 1..(q - 1) : tasks[r] = handed[s][i - 1]

OrderInv ==
  /\ AcceptedOnce /\ NoneEarly /\ LastIsCalled /\ NoneLost
  /\ OnePlace /\ Whole /\ TakenInOrder /\ QueuedInOrder

\* What the sequences in the invariant are.
OrderTypes ==
  /\ handed \in [Sender -> Seq(Msg)]
  /\ caller \in [Thread -> CallerPC]
  /\ tasks \in Seq(Task)
  /\ Stream \in Seq(Byte)

LEMMA TypesOfOrder == TypeOK => OrderTypes
<1>1. TypeOK => sent \in Seq(Byte) /\ output \in Seq(Byte)
  BY DEF TypeOK, Byte
<1>2. ASSUME sent \in Seq(Byte), output \in Seq(Byte) PROVE Stream \in Seq(Byte)
  BY <1>2, ConcatProperties DEF Stream
<1> QED
  BY <1>1, <1>2 DEF OrderTypes, TypeOK

-----------------------------------------------------------------------------
(* The kinds of steps. *)

\* The messages among the tasks move d places to the front.
Shift(d) ==
  /\ \A q \in DOMAIN tasks' : tasks'[q] \in Msg =>
       q + d \in DOMAIN tasks /\ tasks'[q] = tasks[q + d]
  /\ \A q \in DOMAIN tasks : q > d =>
       q - d \in DOMAIN tasks' /\ tasks'[q - d] = tasks[q]

\* m is taken up, or dropped for good.
TakenUp(m) ==
  \/ Stream' = Stream /\ Frozen'
  \/ Stream' = Stream \o Bytes(m) /\ ~Frozen

QuietStep ==
  /\ handed' = handed /\ Stream' = Stream
  /\ \A p \in Thread : caller'[p] # caller[p] =>
                         caller[p] \notin Msg /\ caller'[p] \notin Msg
  /\ \E d \in {0, 1} : Shift(d) /\ (d = 1 => tasks[1] \notin Msg)

\* The loop takes a task of a send().
RunStep(m) ==
  /\ handed' = handed /\ caller' = caller
  /\ tasks # <<>> /\ tasks[1] = m /\ Shift(1)
  /\ TakenUp(m)

\* The loop itself sends.
LoopStep(m) ==
  /\ Unsent(m)
  /\ handed' = [handed EXCEPT ![Loop] = Append(handed[Loop], m)]
  /\ caller' = caller
  /\ Shift(0)
  /\ TakenUp(m)

\* A thread's message is accepted, and then queued.
GiveStep(p, m) ==
  /\ Unsent(m)
  /\ handed' = [handed EXCEPT ![p] = Append(handed[p], m)]
  /\ caller[p] \notin Msg /\ caller' = [caller EXCEPT ![p] = m]
  /\ tasks' = tasks /\ Stream' = Stream

QueueStep(p) ==
  /\ caller[p] \in Msg /\ caller' = [caller EXCEPT ![p] = "idle"]
  /\ tasks' = Append(tasks, caller[p])
  /\ handed' = handed /\ Stream' = Stream

-----------------------------------------------------------------------------
(* Each kind keeps the invariant. *)

LEMMA QuietKeepsOrder ==
  ASSUME OrderTypes, OrderTypes', OrderInv, Frozen => Frozen', QuietStep
  PROVE  OrderInv'
<1>0. /\ handed' = handed /\ Stream' = Stream
      /\ \A p \in Thread : caller'[p] # caller[p] =>
                             caller[p] \notin Msg /\ caller'[p] \notin Msg
  BY DEF QuietStep
<1>1. PICK d \in {0, 1} : Shift(d) /\ (d = 1 => tasks[1] \notin Msg)
  BY DEF QuietStep
<1>2. \A m : InStream(m)' <=> InStream(m)
  BY <1>0 DEF InStream
<1>3. /\ DOMAIN tasks \subseteq Nat \ {0} /\ DOMAIN tasks' \subseteq Nat \ {0}
      /\ \A q \in DOMAIN tasks : \A r \in 1..(q - 1) : r \in DOMAIN tasks
      /\ \A s \in Sender : \A i \in DOMAIN handed[s] : i > 1 => i - 1 \in DOMAIN handed[s]
  BY DEF OrderTypes
<1>4. \A q \in DOMAIN tasks : tasks[q] \in Msg =>
        q - d \in DOMAIN tasks' /\ tasks'[q - d] = tasks[q]
  BY <1>1, <1>3 DEF Shift
<1>5. \A q \in DOMAIN tasks' : tasks'[q] \in Msg =>
        q + d \in DOMAIN tasks /\ tasks'[q] = tasks[q + d]
  BY <1>1 DEF Shift
<1>6. \A m \in Msg : Queued(m)' <=> Queued(m)
  BY <1>4, <1>5 DEF Queued
<1>7. \A s \in Sender : \A i \in DOMAIN handed[s] : handed[s][i] \in Msg
  BY DEF OrderTypes
<1>8. \A p \in Thread, m \in Msg : caller'[p] = m <=> caller[p] = m
  BY <1>0
<1>9. AcceptedOnce' /\ NoneEarly' /\ LastIsCalled'
  BY <1>0, <1>2, <1>6, <1>8
  DEF OrderInv, AcceptedOnce, NoneEarly, LastIsCalled, Unsent
<1>10. NoneLost'
  BY <1>0, <1>2, <1>6, <1>7, <1>8 DEF OrderInv, NoneLost
<1>11. OnePlace'
  <2>1. \A q, r \in DOMAIN tasks' :
          tasks'[q] = tasks'[r] /\ tasks'[q] \in Msg => q = r
    BY <1>3, <1>5 DEF OrderInv, OnePlace
  <2> QED
    BY <1>0, <1>2, <1>6, <1>8, <2>1 DEF OrderInv, OnePlace
<1>12. Whole' /\ TakenInOrder'
  <2>1. Whole'
    BY <1>0 DEF OrderInv, Whole
  <2>2. TakenInOrder'
    BY <1>0 DEF OrderInv, TakenInOrder
  <2> QED
    BY <2>1, <2>2
<1>13. QueuedInOrder'
  <2> SUFFICES ASSUME NEW s \in Sender, NEW i \in DOMAIN handed[s], i > 1,
                      NEW q \in DOMAIN tasks', tasks'[q] = handed[s][i]
               PROVE  \/ InStream(handed[s][i - 1]) \/ Frozen'
                      \/ \E r \in 1..(q - 1) : tasks'[r] = handed[s][i - 1]
    BY <1>0, <1>2 DEF QueuedInOrder
  <2>1. PICK e \in DOMAIN tasks : e = q + d /\ tasks[e] = handed[s][i]
    BY <1>5, <1>7
  <2>2. CASE \E r \in 1..(e - 1) : tasks[r] = handed[s][i - 1]
    <3>1. PICK r \in 1..(e - 1) : tasks[r] = handed[s][i - 1]
      BY <2>2
    <3>2. r \in DOMAIN tasks /\ handed[s][i - 1] \in Msg
      BY <1>3, <1>7
    <3>3. r - d \in DOMAIN tasks' /\ tasks'[r - d] = handed[s][i - 1]
      BY <1>4, <3>1, <3>2
    <3>4. r - d \in 1..(q - 1)
      BY <1>3, <2>1, <3>1, <3>3
    <3> QED
      BY <3>3, <3>4
  <2>3. \/ InStream(handed[s][i - 1]) \/ Frozen
        \/ \E r \in 1..(e - 1) : tasks[r] = handed[s][i - 1]
    BY <2>1 DEF OrderInv, QueuedInOrder
  <2> QED
    BY <2>2, <2>3
<1> QED
  BY <1>9, <1>10, <1>11, <1>12, <1>13 DEF OrderInv

\* What the stream is when a message was taken up.
LEMMA Longer ==
  ASSUME OrderTypes, NEW m \in Msg, Stream' = Stream \o Bytes(m)
  PROVE  /\ Len(Stream) \in Nat /\ DOMAIN Stream = 1..Len(Stream)
         /\ \A k \in DOMAIN Stream : k \in DOMAIN Stream' /\ Stream'[k] = Stream[k]
         /\ \A k \in DOMAIN Stream' :
              \/ k \in DOMAIN Stream
              \/ \E c \in 1..Size : k = Len(Stream) + c /\ Stream'[k] = <<m, c>>
         /\ \A c \in 1..Size : /\ Len(Stream) + c \in DOMAIN Stream'
                               /\ Stream'[Len(Stream) + c] = <<m, c>>
<1>1. /\ Stream \in Seq(Byte) /\ Bytes(m) \in Seq(Byte) /\ Len(Bytes(m)) = Size
      /\ Size \in Nat
  BY BytesOfMessage, Sizes DEF OrderTypes
<1>2. \A c \in 1..Size : Bytes(m)[c] = <<m, c>>
  BY DEF Bytes
<1> DEFINE S == Stream
           B == Bytes(m)
<1> HIDE DEF S, B
<1>3. /\ S \in Seq(Byte) /\ B \in Seq(Byte) /\ Len(B) = Size
      /\ Len(S) \in Nat /\ DOMAIN S = 1..Len(S)
  BY <1>1 DEF S, B
<1> DEFINE N == Len(S)
<1>4. /\ S \o B \in Seq(Byte) /\ DOMAIN (S \o B) = 1..(N + Size)
      /\ \A k \in 1..(N + Size) :
           (S \o B)[k] = IF k <= N THEN S[k] ELSE B[k - N]
  <2>1. /\ S \o B \in Seq(Byte) /\ Len(S \o B) = N + Len(B)
        /\ \A k \in 1..(N + Len(B)) :
             (S \o B)[k] = IF k <= N THEN S[k] ELSE B[k - N]
    BY <1>3, ConcatProperties, Zenon
  <2>2. DOMAIN (S \o B) = 1..Len(S \o B)
    BY <2>1
  <2> QED
    BY <1>3, <2>1, <2>2
<1> HIDE DEF N
<1>5. N \in Nat /\ Size \in Nat /\ DOMAIN S = 1..N
  BY <1>1, <1>3 DEF N
<1>6. \A k \in 1..(N + Size) :
        k \in 1..N \/ k - N \in 1..Size
  BY <1>5
<1>7. \A k \in DOMAIN (S \o B) :
        \/ k \in DOMAIN S
        \/ \E c \in 1..Size : k = N + c /\ (S \o B)[k] = <<m, c>>
  <2> SUFFICES ASSUME NEW k \in 1..(N + Size), k \notin 1..N
               PROVE  \E c \in 1..Size : k = N + c /\ (S \o B)[k] = <<m, c>>
    BY <1>4, <1>5
  <2>1. PICK c \in 1..Size : c = k - N
    BY <1>6
  <2>2. ~(k <= N) /\ k = N + c
    BY <1>5, <2>1
  <2>3. (S \o B)[k] = B[c]
    BY <1>4, <2>1, <2>2
  <2>4. B[c] = <<m, c>>
    BY <1>2 DEF B
  <2> QED
    BY <2>2, <2>3, <2>4
<1>8. \A c \in 1..Size : /\ N + c \in DOMAIN (S \o B)
                         /\ (S \o B)[N + c] = <<m, c>>
  <2> TAKE c \in 1..Size
  <2>1. PICK k \in 1..(N + Size) : k = N + c
    BY <1>5
  <2>2. ~(k <= N) /\ k - N = c
    BY <1>5, <2>1
  <2>3. (S \o B)[k] = B[c] /\ k \in DOMAIN (S \o B)
    BY <1>4, <2>2
  <2>4. B[c] = <<m, c>>
    BY <1>2 DEF B
  <2> QED
    BY <2>1, <2>3, <2>4
<1>9. \A k \in DOMAIN S : k \in DOMAIN (S \o B) /\ (S \o B)[k] = S[k]
  BY <1>4, <1>5
<1> QED
  BY <1>3, <1>7, <1>8, <1>9 DEF N, S, B

\* Taking up a message whose predecessor was taken up keeps the stream in order.
LEMMA TakenUpKeepsStream ==
  ASSUME OrderTypes, OrderTypes', OrderInv, NEW m \in Msg, ~InStream(m), TakenUp(m),
         \A s \in Sender : \A i \in DOMAIN handed'[s] :
           \/ handed'[s][i] = m
           \/ i \in DOMAIN handed[s] /\ handed'[s][i] = handed[s][i],
         \A s \in Sender : \A i \in DOMAIN handed'[s] : i > 1 =>
           /\ i - 1 \in DOMAIN handed[s] /\ handed'[s][i - 1] = handed[s][i - 1]
           /\ handed'[s][i] = m => InStream(handed[s][i - 1]) \/ Frozen
  PROVE  /\ \A k, l \in DOMAIN Stream' : Stream'[k] = Stream'[l] => k = l
         /\ Whole' /\ TakenInOrder'
         /\ \A x : InStream(x)' => InStream(x) \/ x = m
         /\ \A x : InStream(x) => InStream(x)'
         /\ InStream(m)' \/ Frozen'
<1>1. /\ \A k, l \in DOMAIN Stream : Stream[k] = Stream[l] => k = l
      /\ Whole /\ TakenInOrder
  BY DEF OrderInv, OnePlace
<1>2. \A k \in DOMAIN Stream : Stream[k][1] # m
  BY DEF InStream
<1>3. ASSUME NEW s \in Sender, NEW i \in DOMAIN handed'[s], i > 1,
             NEW k \in DOMAIN Stream, Stream[k] = <<handed'[s][i], 1>>
      PROVE  \E l \in 1..(k - 1) : Stream[l] = <<handed'[s][i - 1], Size>>
  <2>1. Stream[k][1] = handed'[s][i]
    BY <1>3
  <2>2. i \in DOMAIN handed[s] /\ handed'[s][i] = handed[s][i]
    BY <1>2, <2>1
  <2>3. handed'[s][i - 1] = handed[s][i - 1]
    BY <1>3
  <2> QED
    BY <1>1, <1>3, <2>2, <2>3 DEF TakenInOrder
<1>4. CASE Stream' = Stream /\ Frozen'
  <2>1. TakenInOrder'
    BY <1>3, <1>4 DEF TakenInOrder
  <2> QED
    BY <1>1, <1>4, <2>1 DEF Whole, InStream
<1>5. CASE Stream' = Stream \o Bytes(m) /\ ~Frozen
  <2>0. Size \in Nat /\ Size > 0
    BY Sizes
  <2> DEFINE N == Len(Stream)
  <2>1. /\ N \in Nat /\ DOMAIN Stream = 1..N
        /\ \A k \in DOMAIN Stream : k \in DOMAIN Stream' /\ Stream'[k] = Stream[k]
        /\ \A k \in DOMAIN Stream' :
             \/ k \in DOMAIN Stream
             \/ \E c \in 1..Size : k = N + c /\ Stream'[k] = <<m, c>>
        /\ \A c \in 1..Size : /\ N + c \in DOMAIN Stream'
                              /\ Stream'[N + c] = <<m, c>>
    BY <1>5, Longer
  <2> HIDE DEF N
  <2>2. \A k, l \in DOMAIN Stream' : Stream'[k] = Stream'[l] => k = l
    <3> SUFFICES ASSUME NEW k \in DOMAIN Stream', NEW l \in DOMAIN Stream',
                        Stream'[k] = Stream'[l]
                 PROVE  k = l
      OBVIOUS
    <3>1. CASE k \in DOMAIN Stream /\ l \in DOMAIN Stream
      BY <1>1, <2>1, <3>1
    <3>2. CASE k \in DOMAIN Stream /\ l \notin DOMAIN Stream
      <4>1. Stream'[l][1] = m
        BY <2>1, <3>2
      <4>2. Stream'[k][1] # m
        BY <1>2, <2>1, <3>2
      <4> QED
        BY <4>1, <4>2
    <3>3. CASE k \notin DOMAIN Stream /\ l \in DOMAIN Stream
      <4>1. Stream'[k][1] = m
        BY <2>1, <3>3
      <4>2. Stream'[l][1] # m
        BY <1>2, <2>1, <3>3
      <4> QED
        BY <4>1, <4>2
    <3>4. CASE k \notin DOMAIN Stream /\ l \notin DOMAIN Stream
      <4>1. PICK c \in 1..Size : k = N + c /\ Stream'[k] = <<m, c>>
        BY <2>1, <3>4
      <4>2. PICK e \in 1..Size : l = N + e /\ Stream'[l] = <<m, e>>
        BY <2>1, <3>4
      <4> QED
        BY <4>1, <4>2
    <3> QED
      BY <3>1, <3>2, <3>3, <3>4
  <2>3. Whole'
    <3> SUFFICES ASSUME NEW k \in DOMAIN Stream'
                 PROVE  /\ Stream'[k][2] > 1 =>
                             k > 1 /\ Stream'[k - 1] = <<Stream'[k][1], Stream'[k][2] - 1>>
                        /\ \E l \in DOMAIN Stream' : Stream'[l] = <<Stream'[k][1], Size>>
      BY DEF Whole
    <3>1. CASE k \in DOMAIN Stream
      <4>1. Stream'[k] = Stream[k]
        BY <2>1, <3>1
      <4>2. Stream[k][2] > 1 =>
              k > 1 /\ Stream[k - 1] = <<Stream[k][1], Stream[k][2] - 1>>
        BY <1>1, <3>1 DEF Whole
      <4>3. k > 1 => k - 1 \in DOMAIN Stream
        BY <2>1, <3>1
      <4>4. PICK l \in DOMAIN Stream : Stream[l] = <<Stream[k][1], Size>>
        BY <1>1, <3>1 DEF Whole
      <4> QED
        BY <2>1, <4>1, <4>2, <4>3, <4>4
    <3>2. CASE k \notin DOMAIN Stream
      <4>1. PICK c \in 1..Size : k = N + c /\ Stream'[k] = <<m, c>>
        BY <2>1, <3>2
      <4>2. Size \in 1..Size /\ (c > 1 => c - 1 \in 1..Size)
        BY <2>0
      <4>3. N + Size \in DOMAIN Stream' /\ Stream'[N + Size] = <<m, Size>>
        BY <2>1, <4>2
      <4>4. c > 1 => k > 1 /\ Stream'[k - 1] = <<m, c - 1>>
        <5> HAVE c > 1
        <5>1. PICK e \in 1..Size : e = c - 1
          BY <4>2
        <5>2. Stream'[N + e] = <<m, e>>
          BY <2>1
        <5>3. N + e = k - 1 /\ k > 1
          BY <2>1, <4>1, <5>1
        <5> QED
          BY <5>1, <5>2, <5>3
      <4>5. Stream'[k][1] = m /\ Stream'[k][2] = c
        BY <4>1
      <4> QED
        BY <4>3, <4>4, <4>5
    <3> QED
      BY <3>1, <3>2
  <2>4. TakenInOrder'
    <3> SUFFICES ASSUME NEW s \in Sender, NEW i \in DOMAIN handed'[s], i > 1,
                        NEW k \in DOMAIN Stream', Stream'[k] = <<handed'[s][i], 1>>
                 PROVE  \E l \in 1..(k - 1) : Stream'[l] = <<handed'[s][i - 1], Size>>
      BY DEF TakenInOrder
    <3>1. CASE k \in DOMAIN Stream
      <4>0. Stream[k] = <<handed'[s][i], 1>>
        BY <2>1, <3>1
      <4>1. PICK l \in 1..(k - 1) : Stream[l] = <<handed'[s][i - 1], Size>>
        BY <1>3, <3>1, <4>0
      <4>2. l \in DOMAIN Stream
        BY <2>1, <3>1
      <4> QED
        BY <2>1, <4>1, <4>2
    <3>2. CASE k \notin DOMAIN Stream
      <4>1. PICK c \in 1..Size : k = N + c /\ Stream'[k] = <<m, c>>
        BY <2>1, <3>2
      <4>2. handed'[s][i] = m
        BY <4>1
      <4>3. InStream(handed[s][i - 1]) /\ handed'[s][i - 1] = handed[s][i - 1]
        BY <1>5, <4>2
      <4>4. PICK l \in DOMAIN Stream : Stream[l] = <<handed[s][i - 1], Size>>
        BY <1>1, <4>3 DEF Whole, InStream
      <4>5. l \in 1..(k - 1)
        BY <2>1, <4>1
      <4> QED
        BY <2>1, <4>3, <4>4, <4>5
    <3> QED
      BY <3>1, <3>2
  <2>5. \A x : InStream(x)' => InStream(x) \/ x = m
    BY <2>1 DEF InStream
  <2>6. \A x : InStream(x) => InStream(x)'
    BY <2>1 DEF InStream
  <2>7. InStream(m)'
    BY <2>0, <2>1 DEF InStream
  <2> QED
    BY <2>2, <2>3, <2>4, <2>5, <2>6, <2>7
<1> QED
  BY <1>4, <1>5 DEF TakenUp

LEMMA RunKeepsOrder ==
  ASSUME OrderTypes, OrderTypes', OrderInv, Frozen => Frozen',
         NEW m \in Msg, RunStep(m)
  PROVE  OrderInv'
<1>0. /\ handed' = handed /\ caller' = caller
      /\ tasks # <<>> /\ tasks[1] = m /\ Shift(1) /\ TakenUp(m)
  BY DEF RunStep
<1>1. /\ DOMAIN tasks \subseteq Nat \ {0} /\ DOMAIN tasks' \subseteq Nat \ {0}
      /\ 1 \in DOMAIN tasks
      /\ \A q \in DOMAIN tasks : \A r \in 1..(q - 1) : r \in DOMAIN tasks
  BY <1>0 DEF OrderTypes
<1>2. \A s \in Sender : /\ \A i \in DOMAIN handed[s] : handed[s][i] \in Msg
                        /\ \A i \in DOMAIN handed[s] : i > 1 => i - 1 \in DOMAIN handed[s]
  BY DEF OrderTypes
<1>3. Queued(m) /\ ~InStream(m)
  BY <1>0, <1>1 DEF Queued, OrderInv, OnePlace
<1>4. \A q \in DOMAIN tasks : tasks[q] # m => q - 1 \in DOMAIN tasks' /\ tasks'[q - 1] = tasks[q]
  BY <1>0, <1>1 DEF Shift
<1>5. \A q \in DOMAIN tasks' : tasks'[q] \in Msg =>
        q + 1 \in DOMAIN tasks /\ tasks'[q] = tasks[q + 1] /\ tasks'[q] # m
  <2> SUFFICES ASSUME NEW q \in DOMAIN tasks', tasks'[q] \in Msg
               PROVE  q + 1 \in DOMAIN tasks /\ tasks'[q] = tasks[q + 1] /\ tasks'[q] # m
    OBVIOUS
  <2>1. PICK e \in DOMAIN tasks : e = q + 1 /\ tasks'[q] = tasks[e]
    BY <1>0 DEF Shift
  <2>2. tasks[e] = m => e = 1
    BY <1>0, <1>1 DEF OrderInv, OnePlace
  <2>3. e # 1
    BY <1>1, <2>1
  <2> QED
    BY <2>1, <2>2, <2>3
<1>6. ~Queued(m)' /\ \A x \in Msg : x # m => (Queued(x)' <=> Queued(x))
  BY <1>4, <1>5 DEF Queued
<1>7. \A s \in Sender : \A i \in DOMAIN handed[s] : i > 1 /\ handed[s][i] = m =>
        InStream(handed[s][i - 1]) \/ Frozen
  <2> SUFFICES ASSUME NEW s \in Sender, NEW i \in DOMAIN handed[s], i > 1,
                      handed[s][i] = m
               PROVE  InStream(handed[s][i - 1]) \/ Frozen
    OBVIOUS
  <2>1. \A q \in DOMAIN tasks : tasks[q] = handed[s][i] =>
          \/ InStream(handed[s][i - 1]) \/ Frozen
          \/ \E r \in 1..(q - 1) : tasks[r] = handed[s][i - 1]
    BY DEF OrderInv, QueuedInOrder
  <2> QED
    BY <1>0, <1>1, <2>1
<1>8. /\ \A k, l \in DOMAIN Stream' : Stream'[k] = Stream'[l] => k = l
      /\ Whole' /\ TakenInOrder'
      /\ \A x : InStream(x)' => InStream(x) \/ x = m
      /\ \A x : InStream(x) => InStream(x)'
      /\ InStream(m)' \/ Frozen'
  BY <1>0, <1>2, <1>3, <1>7, TakenUpKeepsStream
<1>9. AcceptedOnce' /\ LastIsCalled'
  BY <1>0 DEF OrderInv, AcceptedOnce, LastIsCalled
<1>10. NoneEarly'
  BY <1>0, <1>3, <1>6, <1>8 DEF OrderInv, NoneEarly, Unsent
<1>11. NoneLost'
  BY <1>0, <1>2, <1>6, <1>8 DEF OrderInv, NoneLost
<1>12. OnePlace'
  <2>1. \A q, r \in DOMAIN tasks' :
          tasks'[q] = tasks'[r] /\ tasks'[q] \in Msg => q = r
    BY <1>1, <1>5 DEF OrderInv, OnePlace
  <2>2. \A x \in Msg : InStream(x)' => ~Queued(x)' /\ \A p \in Thread : caller'[p] # x
    BY <1>0, <1>3, <1>6, <1>8 DEF OrderInv, OnePlace
  <2>3. \A x \in Msg : Queued(x)' => \A p \in Thread : caller'[p] # x
    BY <1>0, <1>6 DEF OrderInv, OnePlace
  <2> QED
    BY <1>8, <2>1, <2>2, <2>3 DEF OnePlace
<1>13. QueuedInOrder'
  <2> SUFFICES ASSUME NEW s \in Sender, NEW i \in DOMAIN handed[s], i > 1,
                      NEW q \in DOMAIN tasks', tasks'[q] = handed[s][i]
               PROVE  \/ InStream(handed[s][i - 1])' \/ Frozen'
                      \/ \E r \in 1..(q - 1) : tasks'[r] = handed[s][i - 1]
    BY <1>0 DEF QueuedInOrder
  <2>1. PICK e \in DOMAIN tasks : e = q + 1 /\ tasks[e] = handed[s][i]
    BY <1>2, <1>5
  <2>2. CASE \E r \in 1..(e - 1) : tasks[r] = handed[s][i - 1]
    <3>1. PICK r \in 1..(e - 1) : tasks[r] = handed[s][i - 1]
      BY <2>2
    <3>2. r \in DOMAIN tasks
      BY <1>1
    <3>3. CASE tasks[r] = m
      BY <1>0, <1>8, <3>1, <3>3
    <3>4. CASE tasks[r] # m
      <4>1. r - 1 \in DOMAIN tasks' /\ tasks'[r - 1] = handed[s][i - 1]
        BY <1>4, <3>1, <3>2, <3>4
      <4>2. r - 1 \in 1..(q - 1)
        BY <1>1, <2>1, <3>1, <4>1
      <4> QED
        BY <4>1, <4>2
    <3> QED
      BY <3>3, <3>4
  <2>3. \/ InStream(handed[s][i - 1]) \/ Frozen
        \/ \E r \in 1..(e - 1) : tasks[r] = handed[s][i - 1]
    BY <2>1 DEF OrderInv, QueuedInOrder
  <2> QED
    BY <1>0, <1>8, <2>2, <2>3
<1> QED
  BY <1>8, <1>9, <1>10, <1>11, <1>12, <1>13 DEF OrderInv

\* What a sender's messages are when one more was accepted.
LEMMA Grown ==
  ASSUME OrderTypes, NEW m \in Msg, NEW by \in Sender,
         handed' = [handed EXCEPT ![by] = Append(handed[by], m)]
  PROVE  /\ \A s \in Sender : \A i \in DOMAIN handed[s] :
              /\ i \in DOMAIN handed'[s] /\ handed'[s][i] = handed[s][i]
              /\ handed[s][i] \in Msg
         /\ \A s \in Sender : \A i \in DOMAIN handed'[s] :
              \/ i \in DOMAIN handed[s] /\ handed'[s][i] = handed[s][i]
              \/ s = by /\ i = Len(handed[by]) + 1 /\ handed'[s][i] = m
         /\ \A s \in Sender : \A i \in DOMAIN handed'[s] : i > 1 =>
              i - 1 \in DOMAIN handed[s] /\ handed'[s][i - 1] = handed[s][i - 1]
         /\ \A x : Unsent(x)' => Unsent(x) /\ x # m
         /\ handed'[by] # <<>> /\ handed'[by][Len(handed'[by])] = m
<1>1. handed \in [Sender -> Seq(Msg)]
  BY DEF OrderTypes
<1> DEFINE old == handed[by]
           new == Append(old, m)
<1>2. /\ old \in Seq(Msg) /\ Len(old) \in Nat /\ DOMAIN old = 1..Len(old)
      /\ new \in Seq(Msg) /\ Len(new) = Len(old) + 1 /\ DOMAIN new = 1..(Len(old) + 1)
      /\ \A i \in 1..Len(old) : new[i] = old[i]
      /\ new[Len(old) + 1] = m
  BY <1>1, AppendProperties
<1> HIDE DEF new
<1>3. \A s \in Sender : handed'[s] = IF s = by THEN new ELSE handed[s]
  BY <1>1 DEF new
<1>4. \A s \in Sender : \A i : i \in DOMAIN handed[s] <=> i \in 1..Len(handed[s])
  BY <1>1
<1>5. \A s \in Sender : \A i \in DOMAIN handed[s] : handed[s][i] \in Msg
  BY <1>1
<1>6. \A s \in Sender : \A i \in DOMAIN handed[s] :
         /\ i \in DOMAIN handed'[s] /\ handed'[s][i] = handed[s][i]
         /\ handed[s][i] \in Msg
  <2> TAKE s \in Sender
  <2> TAKE i \in DOMAIN handed[s]
  <2>1. CASE s = by
    <3>1. i \in 1..Len(old)
      BY <1>4, <2>1
    <3>2. i \in DOMAIN new /\ new[i] = old[i]
      BY <1>2, <3>1
    <3> QED
      BY <1>3, <1>5, <2>1, <3>2
  <2>2. CASE s # by
    BY <1>3, <1>5, <2>2
  <2> QED
    BY <2>1, <2>2
<1>7. \A s \in Sender : \A i \in DOMAIN handed'[s] :
         \/ i \in DOMAIN handed[s] /\ handed'[s][i] = handed[s][i]
         \/ s = by /\ i = Len(handed[by]) + 1 /\ handed'[s][i] = m
  BY <1>2, <1>3
<1>8. \A s \in Sender : \A i \in DOMAIN handed'[s] : i > 1 => i - 1 \in DOMAIN handed[s]
  <2> TAKE s \in Sender
  <2> TAKE i \in DOMAIN handed'[s]
  <2> HAVE i > 1
  <2>1. CASE s = by
    <3>1. i \in 1..(Len(old) + 1)
      BY <1>2, <1>3, <2>1
    <3>2. i - 1 \in 1..Len(old)
      BY <1>2, <3>1
    <3> QED
      BY <1>4, <2>1, <3>2
  <2>2. CASE s # by
    <3>1. Len(handed[s]) \in Nat /\ handed'[s] = handed[s]
      BY <1>1, <1>3, <2>2
    <3>2. i \in 1..Len(handed[s])
      BY <1>4, <3>1
    <3>3. i - 1 \in 1..Len(handed[s])
      BY <3>1, <3>2
    <3> QED
      BY <1>4, <3>3
  <2> QED
    BY <2>1, <2>2
<1>9. Len(old) + 1 \in DOMAIN handed'[by] /\ handed'[by][Len(old) + 1] = m
  BY <1>2, <1>3
<1>10. \A x : Unsent(x)' => Unsent(x) /\ x # m
  <2> SUFFICES ASSUME NEW x, Unsent(x)' PROVE Unsent(x) /\ x # m
    OBVIOUS
  <2>1. \A s \in Sender : \A i \in DOMAIN handed'[s] : handed'[s][i] # x
    BY DEF Unsent, Range
  <2>2. \A s \in Sender : \A i \in DOMAIN handed[s] : handed[s][i] # x
    BY <1>6, <2>1
  <2> QED
    BY <1>9, <2>1, <2>2 DEF Unsent, Range
<1>11. handed'[by] # <<>> /\ handed'[by][Len(handed'[by])] = m
  BY <1>2, <1>3
<1> QED
  BY <1>6, <1>7, <1>8, <1>10, <1>11

LEMMA GrownOnce ==
  ASSUME OrderTypes, OrderInv, NEW m \in Msg, NEW by \in Sender, Unsent(m),
         handed' = [handed EXCEPT ![by] = Append(handed[by], m)]
  PROVE  AcceptedOnce'
<1>1. \A s \in Sender : \A i \in DOMAIN handed[s] : handed[s][i] # m
  BY DEF Unsent, Range
<1>2. \A s \in Sender : \A i \in DOMAIN handed'[s] :
        \/ i \in DOMAIN handed[s] /\ handed'[s][i] = handed[s][i]
        \/ s = by /\ i = Len(handed[by]) + 1 /\ handed'[s][i] = m
  BY Grown
<1> SUFFICES ASSUME NEW s \in Sender, NEW t \in Sender,
                    NEW i \in DOMAIN handed'[s], NEW j \in DOMAIN handed'[t],
                    handed'[s][i] = handed'[t][j]
             PROVE  s = t /\ i = j
  BY DEF AcceptedOnce
<1>3. CASE i \in DOMAIN handed[s] /\ handed'[s][i] = handed[s][i]
  <2>1. j \in DOMAIN handed[t] /\ handed'[t][j] = handed[t][j]
    BY <1>1, <1>2, <1>3
  <2> QED
    BY <1>3, <2>1 DEF OrderInv, AcceptedOnce
<1>4. CASE s = by /\ i = Len(handed[by]) + 1 /\ handed'[s][i] = m
  <2>1. t = by /\ j = Len(handed[by]) + 1
    BY <1>1, <1>2, <1>4
  <2> QED
    BY <1>4, <2>1
<1> QED
  BY <1>2, <1>3, <1>4

LEMMA LoopKeepsOrder ==
  ASSUME OrderTypes, OrderTypes', OrderInv, Frozen => Frozen',
         NEW m \in Msg, LoopStep(m)
  PROVE  OrderInv'
<1>0. /\ Unsent(m) /\ handed' = [handed EXCEPT ![Loop] = Append(handed[Loop], m)]
      /\ caller' = caller /\ Shift(0) /\ TakenUp(m)
      /\ Loop \in Sender /\ Loop \notin Thread
  BY Names DEF LoopStep, Sender
<1>1. /\ \A s \in Sender : \A i \in DOMAIN handed[s] :
           /\ i \in DOMAIN handed'[s] /\ handed'[s][i] = handed[s][i]
           /\ handed[s][i] \in Msg
      /\ \A s \in Sender : \A i \in DOMAIN handed'[s] :
           \/ i \in DOMAIN handed[s] /\ handed'[s][i] = handed[s][i]
           \/ s = Loop /\ i = Len(handed[Loop]) + 1 /\ handed'[s][i] = m
      /\ \A s \in Sender : \A i \in DOMAIN handed'[s] : i > 1 =>
           i - 1 \in DOMAIN handed[s] /\ handed'[s][i - 1] = handed[s][i - 1]
      /\ \A x : Unsent(x)' => Unsent(x) /\ x # m
  BY <1>0, Grown
<1>2. ~InStream(m) /\ ~Queued(m) /\ \A p \in Thread : caller[p] # m
  BY <1>0 DEF OrderInv, NoneEarly
<1>3. \A s \in Sender : \A i \in DOMAIN handed[s] : handed[s][i] # m
  BY <1>0 DEF Unsent, Range
<1>4. \A s \in Sender : \A i \in DOMAIN handed'[s] : i > 1 /\ handed'[s][i] = m =>
        InStream(handed[s][i - 1]) \/ Frozen
  <2> SUFFICES ASSUME NEW s \in Sender, NEW i \in DOMAIN handed'[s], i > 1,
                      handed'[s][i] = m
               PROVE  InStream(handed[s][i - 1]) \/ Frozen
    OBVIOUS
  <2>1. s = Loop /\ i - 1 \in DOMAIN handed[s]
    BY <1>1, <1>3
  <2> QED
    BY <1>0, <2>1 DEF OrderInv, NoneLost
<1>5. /\ \A k, l \in DOMAIN Stream' : Stream'[k] = Stream'[l] => k = l
      /\ Whole' /\ TakenInOrder'
      /\ \A x : InStream(x)' => InStream(x) \/ x = m
      /\ \A x : InStream(x) => InStream(x)'
      /\ InStream(m)' \/ Frozen'
  BY <1>0, <1>1, <1>2, <1>4, TakenUpKeepsStream
<1>6. DOMAIN tasks \subseteq Nat \ {0} /\ DOMAIN tasks' \subseteq Nat \ {0}
  BY DEF OrderTypes
<1>7. /\ \A q \in DOMAIN tasks : q \in DOMAIN tasks' /\ tasks'[q] = tasks[q]
      /\ \A q \in DOMAIN tasks' : tasks'[q] \in Msg =>
           q \in DOMAIN tasks /\ tasks'[q] = tasks[q]
  BY <1>0, <1>6 DEF Shift
<1>8. \A x \in Msg : Queued(x)' <=> Queued(x)
  BY <1>7 DEF Queued
<1>9. AcceptedOnce'
  BY <1>0, GrownOnce
<1>10. NoneEarly'
  BY <1>0, <1>1, <1>5, <1>8 DEF OrderInv, NoneEarly
<1>11. LastIsCalled'
  <2>1. \A p \in Thread : handed'[p] = handed[p]
    BY <1>0 DEF OrderTypes, Sender
  <2> QED
    BY <1>0, <2>1 DEF OrderInv, LastIsCalled
<1>12. NoneLost'
  <2> SUFFICES ASSUME NEW s \in Sender, NEW i \in DOMAIN handed'[s],
                      NEW x, x = handed'[s][i]
               PROVE  \/ InStream(x)' \/ Frozen'
                      \/ s \in Thread /\ (Queued(x)' \/ caller'[s] = x)
    BY DEF NoneLost, InStream, Queued
  <2>1. CASE x = m
    BY <1>5, <2>1
  <2>2. CASE x # m
    <3>1. i \in DOMAIN handed[s] /\ x = handed[s][i] /\ x \in Msg
      BY <1>1, <2>2
    <3> QED
      BY <1>0, <1>5, <1>8, <3>1 DEF OrderInv, NoneLost
  <2> QED
    BY <2>1, <2>2
<1>13. OnePlace'
  <2>1. \A q, r \in DOMAIN tasks' :
          tasks'[q] = tasks'[r] /\ tasks'[q] \in Msg => q = r
    BY <1>7 DEF OrderInv, OnePlace
  <2>2. \A x \in Msg : InStream(x)' => ~Queued(x)' /\ \A p \in Thread : caller'[p] # x
    BY <1>0, <1>2, <1>5, <1>8 DEF OrderInv, OnePlace
  <2>3. \A x \in Msg : Queued(x)' => \A p \in Thread : caller'[p] # x
    BY <1>0, <1>8 DEF OrderInv, OnePlace
  <2> QED
    BY <1>5, <2>1, <2>2, <2>3 DEF OnePlace
<1>14. QueuedInOrder'
  <2> SUFFICES ASSUME NEW s \in Sender, NEW i \in DOMAIN handed'[s], i > 1,
                      NEW q \in DOMAIN tasks', tasks'[q] = handed'[s][i],
                      NEW x, x = handed'[s][i - 1]
               PROVE  \/ InStream(x)' \/ Frozen'
                      \/ \E r \in 1..(q - 1) : tasks'[r] = x
    BY DEF QueuedInOrder, InStream
  <2>1. handed'[s][i] \in Msg
    BY <1>1
  <2>2. q \in DOMAIN tasks /\ tasks[q] = handed'[s][i]
    BY <1>7, <2>1
  <2>3. i \in DOMAIN handed[s] /\ tasks[q] = handed[s][i]
    BY <1>1, <1>2, <2>2 DEF Queued
  <2>4. \/ InStream(handed[s][i - 1]) \/ Frozen
        \/ \E r \in 1..(q - 1) : tasks[r] = handed[s][i - 1]
    BY <2>2, <2>3 DEF OrderInv, QueuedInOrder
  <2>5. \A r \in 1..(q - 1) : r \in DOMAIN tasks
    BY <1>6, <2>2 DEF OrderTypes
  <2>6. x = handed[s][i - 1]
    BY <1>1
  <2> QED
    BY <1>5, <1>7, <2>4, <2>5, <2>6
<1> QED
  BY <1>5, <1>9, <1>10, <1>11, <1>12, <1>13, <1>14 DEF OrderInv

LEMMA GiveKeepsOrder ==
  ASSUME OrderTypes, OrderTypes', OrderInv, Frozen => Frozen',
         NEW p \in Thread, NEW m \in Msg, GiveStep(p, m)
  PROVE  OrderInv'
<1>0. /\ Unsent(m) /\ handed' = [handed EXCEPT ![p] = Append(handed[p], m)]
      /\ caller[p] \notin Msg /\ tasks' = tasks /\ Stream' = Stream
      /\ p \in Sender
  BY DEF GiveStep, Sender
<1>1. \A t \in Thread : caller'[t] = IF t = p THEN m ELSE caller[t]
  BY DEF GiveStep, OrderTypes
<1>2. /\ \A s \in Sender : \A i \in DOMAIN handed[s] :
           /\ i \in DOMAIN handed'[s] /\ handed'[s][i] = handed[s][i]
           /\ handed[s][i] \in Msg
      /\ \A s \in Sender : \A i \in DOMAIN handed'[s] :
           \/ i \in DOMAIN handed[s] /\ handed'[s][i] = handed[s][i]
           \/ s = p /\ i = Len(handed[p]) + 1 /\ handed'[s][i] = m
      /\ \A s \in Sender : \A i \in DOMAIN handed'[s] : i > 1 =>
           i - 1 \in DOMAIN handed[s] /\ handed'[s][i - 1] = handed[s][i - 1]
      /\ \A x : Unsent(x)' => Unsent(x) /\ x # m
      /\ handed'[p] # <<>> /\ handed'[p][Len(handed'[p])] = m
  BY <1>0, Grown
<1>3. ~InStream(m) /\ ~Queued(m) /\ \A t \in Thread : caller[t] # m
  BY <1>0 DEF OrderInv, NoneEarly
<1>4. \A x : (InStream(x)' <=> InStream(x)) /\ (Queued(x)' <=> Queued(x))
  BY <1>0 DEF InStream, Queued
<1>5. AcceptedOnce'
  BY <1>0, GrownOnce
<1>6. NoneEarly'
  BY <1>1, <1>2, <1>4 DEF OrderInv, NoneEarly
<1>7. LastIsCalled'
  <2>1. \A t \in Thread : t # p => handed'[t] = handed[t]
    BY <1>0 DEF OrderTypes, Sender
  <2> QED
    BY <1>1, <1>2, <2>1 DEF OrderInv, LastIsCalled
<1>8. NoneLost'
  <2> SUFFICES ASSUME NEW s \in Sender, NEW i \in DOMAIN handed'[s],
                      NEW x, x = handed'[s][i]
               PROVE  \/ InStream(x)' \/ Frozen'
                      \/ s \in Thread /\ (Queued(x)' \/ caller'[s] = x)
    BY DEF NoneLost, InStream, Queued
  <2>1. CASE i \in DOMAIN handed[s] /\ handed'[s][i] = handed[s][i]
    <3>1. x \in Msg /\ x = handed[s][i]
      BY <1>2, <2>1
    <3>2. \/ InStream(x) \/ Frozen
          \/ s \in Thread /\ (Queued(x) \/ caller[s] = x)
      BY <2>1, <3>1 DEF OrderInv, NoneLost
    <3> QED
      BY <1>0, <1>1, <1>4, <3>1, <3>2
  <2>2. CASE s = p /\ handed'[s][i] = m
    BY <1>1, <2>2
  <2> QED
    BY <1>2, <2>1, <2>2
<1>9. OnePlace'
  BY <1>0, <1>1, <1>3, <1>4 DEF OrderInv, OnePlace
<1>10. Whole'
  BY <1>0 DEF OrderInv, Whole
<1>11. TakenInOrder'
  <2> SUFFICES ASSUME NEW s \in Sender, NEW i \in DOMAIN handed'[s], i > 1,
                      NEW k \in DOMAIN Stream', Stream'[k] = <<handed'[s][i], 1>>
               PROVE  \E l \in 1..(k - 1) : Stream'[l] = <<handed'[s][i - 1], Size>>
    BY DEF TakenInOrder
  <2>1. /\ k \in DOMAIN Stream /\ Stream[k] = <<handed'[s][i], 1>>
        /\ handed'[s][i] # m
    BY <1>0, <1>3 DEF InStream
  <2>2. i \in DOMAIN handed[s] /\ handed'[s][i] = handed[s][i]
    BY <1>2, <2>1
  <2>3. handed'[s][i - 1] = handed[s][i - 1]
    BY <1>2
  <2>4. PICK l \in 1..(k - 1) : Stream[l] = <<handed[s][i - 1], Size>>
    BY <2>1, <2>2 DEF OrderInv, TakenInOrder
  <2> QED
    BY <1>0, <2>3, <2>4
<1>12. QueuedInOrder'
  <2> SUFFICES ASSUME NEW s \in Sender, NEW i \in DOMAIN handed'[s], i > 1,
                      NEW q \in DOMAIN tasks', tasks'[q] = handed'[s][i],
                      NEW x, x = handed'[s][i - 1]
               PROVE  \/ InStream(x)' \/ Frozen'
                      \/ \E r \in 1..(q - 1) : tasks'[r] = x
    BY DEF QueuedInOrder, InStream
  <2>1. /\ i \in DOMAIN handed[s] /\ q \in DOMAIN tasks /\ tasks[q] = handed[s][i]
        /\ x = handed[s][i - 1]
    BY <1>0, <1>2, <1>3 DEF Queued
  <2>2. \/ InStream(handed[s][i - 1]) \/ Frozen
        \/ \E r \in 1..(q - 1) : tasks[r] = handed[s][i - 1]
    BY <2>1 DEF OrderInv, QueuedInOrder
  <2> QED
    BY <1>0, <1>4, <2>1, <2>2
<1> QED
  BY <1>5, <1>6, <1>7, <1>8, <1>9, <1>10, <1>11, <1>12 DEF OrderInv

LEMMA QueueKeepsOrder ==
  ASSUME OrderTypes, OrderTypes', OrderInv, Frozen => Frozen',
         NEW p \in Thread, QueueStep(p)
  PROVE  OrderInv'
<1> DEFINE m == caller[p]
<1>0. /\ m \in Msg /\ tasks' = Append(tasks, m)
      /\ handed' = handed /\ Stream' = Stream /\ p \in Sender
  BY DEF QueueStep, Sender
<1>1. \A t \in Thread : caller'[t] = IF t = p THEN "idle" ELSE caller[t]
  BY DEF QueueStep, OrderTypes
<1>2. "idle" \notin Msg
  BY Names
<1>3. /\ handed[p] # <<>> /\ m = handed[p][Len(handed[p])]
      /\ Len(handed[p]) \in DOMAIN handed[p]
  <2>1. handed[p] # <<>> /\ m = handed[p][Len(handed[p])]
    BY <1>0 DEF OrderInv, LastIsCalled
  <2>2. handed[p] \in Seq(Msg)
    BY <1>0 DEF OrderTypes
  <2> QED
    BY <2>1, <2>2
<1>4. /\ ~InStream(m) /\ ~Queued(m)
      /\ \A x \in Msg : x = m => \A t \in Thread : caller[t] = x => t = p
  <2>1. ~InStream(m) /\ ~Queued(m)
    BY <1>0 DEF OrderInv, OnePlace
  <2>2. ASSUME NEW t \in Thread, caller[t] = m PROVE t = p
    <3>1. /\ handed[t] # <<>> /\ m = handed[t][Len(handed[t])] /\ t \in Sender
      BY <1>0, <2>2 DEF OrderInv, LastIsCalled, Sender
    <3>2. Len(handed[t]) \in DOMAIN handed[t]
      <4>1. handed[t] \in Seq(Msg)
        BY <3>1 DEF OrderTypes
      <4> QED
        BY <3>1, <4>1
    <3>3. \A i \in DOMAIN handed[t], j \in DOMAIN handed[p] :
            handed[t][i] = handed[p][j] => t = p
      BY <1>0, <3>1 DEF OrderInv, AcceptedOnce
    <3> QED
      BY <1>3, <3>1, <3>2, <3>3
  <2> QED
    BY <2>1, <2>2
<1>5. /\ Len(tasks) \in Nat /\ DOMAIN tasks = 1..Len(tasks)
      /\ DOMAIN tasks' = 1..(Len(tasks) + 1)
      /\ \A q \in 1..Len(tasks) : tasks'[q] = tasks[q]
      /\ tasks'[Len(tasks) + 1] = m
  <2>1. tasks \in Seq(Task) /\ m \in Task
    BY <1>0 DEF OrderTypes, Task
  <2> HIDE DEF m
  <2> QED
    BY <1>0, <2>1, AppendProperties
<1> HIDE DEF m
<1>6. \A q \in DOMAIN tasks' :
        \/ q \in DOMAIN tasks /\ tasks'[q] = tasks[q]
        \/ q = Len(tasks) + 1 /\ tasks'[q] = m
  BY <1>5
<1>7. \A x : Queued(x)' <=> Queued(x) \/ x = m
  BY <1>5, <1>6 DEF Queued
<1>8. \A x : InStream(x)' <=> InStream(x)
  BY <1>0 DEF InStream
<1>9. AcceptedOnce' /\ Whole' /\ TakenInOrder'
  <2>1. AcceptedOnce'
    BY <1>0 DEF OrderInv, AcceptedOnce
  <2>2. Whole'
    BY <1>0 DEF OrderInv, Whole
  <2>3. TakenInOrder'
    BY <1>0 DEF OrderInv, TakenInOrder
  <2> QED
    BY <2>1, <2>2, <2>3
<1>10. ~Unsent(m)
  BY <1>0, <1>3 DEF Unsent, Range
<1>11. NoneEarly'
  BY <1>0, <1>1, <1>2, <1>7, <1>8, <1>10 DEF OrderInv, NoneEarly, Unsent
<1>12. LastIsCalled'
  BY <1>0, <1>1, <1>2 DEF OrderInv, LastIsCalled
<1>13. NoneLost'
  <2> SUFFICES ASSUME NEW s \in Sender, NEW i \in DOMAIN handed[s],
                      NEW x, x = handed[s][i]
               PROVE  \/ InStream(x)' \/ Frozen'
                      \/ s \in Thread /\ (Queued(x)' \/ caller'[s] = x)
    BY <1>0 DEF NoneLost, InStream, Queued
  <2>1. \/ InStream(x) \/ Frozen
        \/ s \in Thread /\ (Queued(x) \/ caller[s] = x)
    BY DEF OrderInv, NoneLost
  <2> QED
    BY <1>1, <1>7, <1>8, <2>1 DEF m
<1>14. OnePlace'
  <2>1. \A q, r \in DOMAIN tasks' :
          tasks'[q] = tasks'[r] /\ tasks'[q] \in Msg => q = r
    <3>1. \A q \in DOMAIN tasks : tasks[q] # m
      BY <1>4 DEF Queued
    <3> QED
      BY <1>6, <3>1 DEF OrderInv, OnePlace
  <2>2. \A x \in Msg : InStream(x)' => ~Queued(x)' /\ \A t \in Thread : caller'[t] # x
    BY <1>1, <1>2, <1>4, <1>7, <1>8 DEF OrderInv, OnePlace
  <2>3. \A x \in Msg : Queued(x)' => \A t \in Thread : caller'[t] # x
    BY <1>1, <1>2, <1>4, <1>7 DEF OrderInv, OnePlace
  <2> QED
    BY <1>0, <2>1, <2>2, <2>3 DEF OrderInv, OnePlace
<1>15. QueuedInOrder'
  <2> SUFFICES ASSUME NEW s \in Sender, NEW i \in DOMAIN handed[s], i > 1,
                      NEW q \in DOMAIN tasks', tasks'[q] = handed[s][i],
                      NEW x, x = handed[s][i - 1]
               PROVE  \/ InStream(x) \/ Frozen'
                      \/ \E r \in 1..(q - 1) : tasks'[r] = x
    BY <1>0 DEF QueuedInOrder, InStream
  <2>1. CASE q \in DOMAIN tasks /\ tasks'[q] = tasks[q]
    <3>1. \/ InStream(handed[s][i - 1]) \/ Frozen
          \/ \E r \in 1..(q - 1) : tasks[r] = handed[s][i - 1]
      BY <2>1 DEF OrderInv, QueuedInOrder
    <3>2. \A r \in 1..(q - 1) : tasks'[r] = tasks[r]
      BY <1>5, <2>1
    <3> QED
      BY <3>1, <3>2
  <2>2. CASE q = Len(tasks) + 1 /\ tasks'[q] = m
    <3>1. s = p /\ i = Len(handed[p])
      BY <1>0, <1>3, <2>2 DEF OrderInv, AcceptedOnce
    <3>2. i - 1 \in DOMAIN handed[s] /\ i - 1 # i
      <4>1. handed[s] \in Seq(Msg)
        BY DEF OrderTypes
      <4> QED
        BY <4>1
    <3>3. x # m
      BY <1>0, <1>3, <3>1, <3>2 DEF OrderInv, AcceptedOnce
    <3>4. InStream(x) \/ Frozen \/ Queued(x)
      BY <3>1, <3>2, <3>3 DEF OrderInv, NoneLost, m
    <3>5. Queued(x) => \E r \in 1..(q - 1) : tasks'[r] = x
      BY <1>5, <2>2 DEF Queued
    <3> QED
      BY <3>4, <3>5
  <2> QED
    BY <1>6, <2>1, <2>2
<1> QED
  BY <1>9, <1>11, <1>12, <1>13, <1>14, <1>15 DEF OrderInv

-----------------------------------------------------------------------------
(* Every step is of one of the kinds. *)

LEMMA AppendShift ==
  ASSUME OrderTypes, NEW task \in Task, task \notin Msg, tasks' = Append(tasks, task)
  PROVE  Shift(0)
<1>1. /\ tasks \in Seq(Task) /\ Len(tasks) \in Nat /\ DOMAIN tasks = 1..Len(tasks)
  BY DEF OrderTypes
<1>2. /\ DOMAIN tasks' = 1..(Len(tasks) + 1)
      /\ \A q \in 1..Len(tasks) : tasks'[q] = tasks[q]
      /\ tasks'[Len(tasks) + 1] = task
  <2> HIDE DEF Task
  <2> QED
    BY <1>1, AppendProperties
<1>3. \A q \in DOMAIN tasks' : q \in DOMAIN tasks \/ tasks'[q] = task
  BY <1>1, <1>2
<1>4. \A q \in DOMAIN tasks : q + 0 = q /\ q - 0 = q
  BY <1>1
<1> QED
  BY <1>1, <1>2, <1>3, <1>4 DEF Shift

LEMMA ConcatShift ==
  ASSUME OrderTypes, NEW d \in {0, 1}, d <= Len(tasks),
         NEW queue \in Seq(Task), Len(queue) = Len(tasks) - d,
         \A q \in 1..Len(queue) : queue[q] = tasks[q + d],
         NEW ev \in {<<>>, <<"writeComplete">>, <<"highWaterMark">>},
         tasks' = queue \o ev
  PROVE  Shift(d)
<1>1. /\ tasks \in Seq(Task) /\ Len(tasks) \in Nat /\ DOMAIN tasks = 1..Len(tasks)
      /\ Len(queue) \in Nat
  BY DEF OrderTypes
<1>2. "writeComplete" \in Task /\ "highWaterMark" \in Task
  BY DEF Task, TaskName
<1>3. "writeComplete" \notin Msg /\ "highWaterMark" \notin Msg
  BY Names DEF TaskName
<1>4. /\ ev \in Seq(Task) /\ Len(ev) \in Nat
      /\ \A j \in 1..Len(ev) : ev[j] \notin Msg
  <2>1. \A j \in 1..Len(ev) : ev[j] \notin Msg
    BY <1>3
  <2>2. ev \in Seq(Task) /\ Len(ev) \in Nat
    <3>1. /\ <<>> \in Seq(Task) /\ <<"writeComplete">> \in Seq(Task)
          /\ <<"highWaterMark">> \in Seq(Task)
      <4> HIDE DEF Task
      <4> QED
        BY <1>2
    <3> QED
      BY <3>1
  <2> QED
    BY <2>1, <2>2
<1> DEFINE N == Len(queue)
<1>5. /\ DOMAIN tasks' = 1..(N + Len(ev))
      /\ \A q \in 1..(N + Len(ev)) :
           tasks'[q] = IF q <= N THEN queue[q] ELSE ev[q - N]
  <2>1. /\ queue \o ev \in Seq(Task) /\ Len(queue \o ev) = N + Len(ev)
        /\ \A q \in 1..(N + Len(ev)) :
             (queue \o ev)[q] = IF q <= N THEN queue[q] ELSE ev[q - N]
    BY <1>4, ConcatProperties, Zenon
  <2> QED
    BY <2>1
<1>6. N \in Nat /\ N = Len(tasks) - d /\ Len(ev) \in Nat
  BY <1>1, <1>4
<1> HIDE DEF N
<1>7. ASSUME NEW q \in DOMAIN tasks', tasks'[q] \in Msg
      PROVE  q + d \in DOMAIN tasks /\ tasks'[q] = tasks[q + d]
  <2>1. q \in 1..(N + Len(ev))
    BY <1>5
  <2>2. CASE q <= N
    <3>1. q \in 1..Len(queue) /\ q + d \in 1..Len(tasks)
      BY <1>1, <1>6, <2>1, <2>2 DEF N
    <3> QED
      BY <1>1, <1>5, <2>1, <2>2, <3>1
  <2>3. CASE ~(q <= N)
    <3>1. q - N \in 1..Len(ev)
      BY <1>6, <2>1, <2>3
    <3> QED
      BY <1>4, <1>5, <1>7, <2>1, <2>3, <3>1
  <2> QED
    BY <2>2, <2>3
<1>8. ASSUME NEW q \in DOMAIN tasks, q > d
      PROVE  q - d \in DOMAIN tasks' /\ tasks'[q - d] = tasks[q]
  <2>1. PICK r \in 1..N : r = q - d
    BY <1>1, <1>6, <1>8
  <2>2. /\ r \in 1..(N + Len(ev)) /\ r <= N /\ r + d = q /\ r \in 1..Len(queue)
    BY <1>1, <1>6, <2>1 DEF N
  <2> QED
    BY <1>5, <2>1, <2>2
<1> QED
  BY <1>7, <1>8 DEF Shift

\* A send() that a task or a callback carries out.
LEMMA SendTakesUp ==
  ASSUME ConnectionInv, NEW m \in Msg, RunSend(m) \/ LoopSend(m)
  PROVE  TakenUp(m) /\ (Frozen => Frozen' /\ UNCHANGED <<sent, output>>)
<1>0. /\ TypeOK /\ sent \in Seq(Byte) /\ output \in Seq(Byte)
      /\ Bytes(m) \in Seq(Byte)
  BY BytesOfMessage DEF ConnectionInv, TypeOK, Byte
<1>1. /\ UNCHANGED <<state, writeShut, peer>>
      /\ \/ UNCHANGED <<sent, output>> /\ Frozen
         \/ ~Frozen /\ sent' \o output' = sent \o output \o Bytes(m)
  BY SendStep
<1>2. CASE UNCHANGED <<sent, output>> /\ Frozen
  BY <1>1, <1>2 DEF TakenUp, Stream, Frozen, Broken
<1>3. CASE ~Frozen /\ sent' \o output' = sent \o output \o Bytes(m)
  BY <1>3 DEF TakenUp, Stream
<1> QED
  BY <1>1, <1>2, <1>3

LEMMA FrozenStays ==
  ASSUME ConnectionInv, LoneCloser(use), [Next]_vars, Frozen
  PROVE  Frozen'
<1>0. TypeOK
  BY DEF ConnectionInv
<1>1. CASE state = "kDisconnected"
  BY <1>1, ClosedStaysClosed DEF Frozen
<1> SUFFICES ASSUME Broken, output = <<>>
             PROVE  Broken' /\ output' = <<>>
  BY <1>1 DEF Frozen
<1>2. ASSUME NEW m \in Msg, RunSend(m) \/ LoopSend(m)
      PROVE  Broken' /\ output' = <<>>
  <2>1. output' = output
    BY <1>2, SendTakesUp
  <2>2. UNCHANGED <<writeShut, peer>>
    BY <1>2, SendStep
  <2> QED
    BY <2>1, <2>2 DEF Broken
<1>3. CASE HandleWrite
  <2>1. output' = <<>>
    BY <1>0, <1>3, HandleWriteStep
  <2>2. peer' = peer /\ (writeShut => writeShut')
    BY <1>3 DEF HandleWrite, ShutdownInLoop, ShutWr
  <2> QED
    BY <2>1, <2>2 DEF Broken
<1>4. CASE RunShutdown \/ LoopShutdown
  <2>1. UNCHANGED <<output, peer>> /\ (writeShut => writeShut')
    BY <1>4 DEF RunShutdown, LoopShutdown, ShutdownInLoop, ShutWr
  <2> QED
    BY <2>1 DEF Broken
<1>5. CASE \/ ConnectEstablished \/ Poll \/ HandleHup \/ HandleError \/ HandleRead
           \/ HandleWriteClosed \/ RunForceClose \/ RunReading \/ RunCallback
  <2>1. UNCHANGED <<output, writeShut, peer>>
    BY <1>5
    DEF ConnectEstablished, Poll, HandleHup, HandleError, HandleRead,
        HandleWriteClosed, RunForceClose, RunReading, RunCallback, kernelVars
  <2> QED
    BY <2>1 DEF Broken
<1>6. CASE \/ LoopForceClose \/ LoopStopRead \/ LoopStartRead
           \/ RunTimer \/ UserReturns \/ PeerSends \/ PeerReads
  <2>1. UNCHANGED <<output, writeShut, peer>>
    BY <1>6
    DEF LoopForceClose, LoopStopRead, LoopStartRead, RunTimer, UserReturns,
        PeerSends, PeerReads, kernelVars
  <2> QED
    BY <2>1 DEF Broken
<1>7. ASSUME NEW p \in Thread, ThreadBegins(p) \/ ThreadEnds(p)
      PROVE  Broken' /\ output' = <<>>
  <2>1. UNCHANGED <<output, writeShut, peer>>
    BY <1>7
    DEF ThreadBegins, ThreadEnds, ThreadSend, ThreadShutdown, ThreadForceClose,
        ThreadExchange, ThreadReading, ThreadQueues, kernelVars
  <2> QED
    BY <2>1 DEF Broken
<1>8. ASSUME NEW how \in {"fin", "reset"}, PeerEnds(how)
      PROVE  Broken' /\ output' = <<>>
  <2>1. UNCHANGED <<output, writeShut>> /\ (peer = "reset" => peer' = "reset")
    BY <1>8 DEF PeerEnds
  <2> QED
    BY <2>1 DEF Broken
<1>9. CASE UNCHANGED vars
  BY <1>9 DEF vars, kernelVars, Broken
<1> QED
  BY <1>2, <1>3, <1>4, <1>5, <1>6, <1>7, <1>8, <1>9
  DEF Next, Handlers, RunTask, UserCalls

LEMMA StepKinds ==
  ASSUME ConnectionInv, LoneCloser(use), [Next]_vars
  PROVE  \/ QuietStep
         \/ \E m \in Msg : RunStep(m) \/ LoopStep(m)
         \/ \E p \in Thread : QueueStep(p) \/ \E m \in Msg : GiveStep(p, m)
<1>0. /\ TypeOK /\ OrderTypes /\ handed \in [Sender -> Seq(Msg)]
      /\ caller \in [Thread -> CallerPC] /\ tasks \in Seq(Task)
      /\ Len(tasks) \in Nat /\ DOMAIN tasks = 1..Len(tasks)
  BY TypesOfOrder DEF ConnectionInv, TypeOK
<1>1. tasks' = tasks => Shift(0)
  <2>1. \A q \in DOMAIN tasks : q + 0 = q /\ q - 0 = q
    BY <1>0
  <2> QED
    BY <2>1 DEF Shift
<1>2. ASSUME tasks # <<>>, tasks' = Tail(tasks) PROVE Shift(1)
  <2>1. /\ Tail(tasks) \in Seq(Task) /\ Len(Tail(tasks)) = Len(tasks) - 1
        /\ \A q \in 1..Len(Tail(tasks)) : Tail(tasks)[q] = tasks[q + 1]
    BY <1>0, <1>2, HeadTailProperties
  <2>2. 1 <= Len(tasks)
    BY <1>0, <1>2
  <2>3. Tail(tasks) \o <<>> = Tail(tasks)
    BY <2>1, ConcatEmptySeq
  <2> QED
    BY <1>0, <1>2, <2>1, <2>2, <2>3, ConcatShift
<1>3. ASSUME UNCHANGED <<handed, caller, tasks, sent, output>> PROVE QuietStep
  BY <1>1, <1>3 DEF QuietStep, Stream
<1>4. ASSUME NEW task \in TaskName, tasks' = Append(tasks, task),
             UNCHANGED <<handed, caller>>, Stream' = Stream
      PROVE  QuietStep
  <2>1. task \in Task /\ task \notin Msg
    BY Names DEF Task
  <2>2. Shift(0)
    BY <1>0, <1>4, <2>1, AppendShift
  <2> QED
    BY <1>4, <2>2 DEF QuietStep
<1>5. ASSUME NEW task \in TaskName, Takes(task), tasks' = Tail(tasks),
             UNCHANGED <<handed, caller, sent, output>>
      PROVE  QuietStep
  <2>1. tasks # <<>> /\ tasks[1] = task
    BY <1>0, <1>5 DEF Takes
  <2>2. task \notin Msg
    BY Names
  <2> QED
    BY <1>2, <1>5, <2>1, <2>2 DEF QuietStep, Stream
<1>6. CASE \/ RunShutdown \/ RunForceClose \/ RunReading \/ RunCallback
  <2>1. \E task \in TaskName : Takes(task)
    BY <1>6
    DEF RunShutdown, RunForceClose, RunReading, RunCallback, TaskName
  <2>2. tasks' = Tail(tasks) /\ UNCHANGED <<handed, caller, sent, output>>
    BY <1>6
    DEF RunShutdown, RunForceClose, RunReading, RunCallback, kernelVars
  <2> QED
    BY <1>5, <2>1, <2>2
<1>7. ASSUME NEW m \in Msg, RunSend(m) PROVE RunStep(m)
  <2>1. /\ tasks # <<>> /\ tasks[1] = m /\ UNCHANGED <<handed, caller>>
        /\ SendInLoop(m, Tail(tasks)) /\ state # "kConnecting"
    BY <1>0, <1>7, ActsOnceEstablished DEF RunSend, Takes
  <2>2. /\ Tail(tasks) \in Seq(Task) /\ Len(Tail(tasks)) = Len(tasks) - 1
        /\ \A q \in 1..Len(Tail(tasks)) : Tail(tasks)[q] = tasks[q + 1]
    BY <1>0, <2>1, HeadTailProperties
  <2>3. \E ev \in {<<>>, <<"writeComplete">>, <<"highWaterMark">>} :
          tasks' = Tail(tasks) \o ev
    BY <2>1, <2>2, SendInLoopStep DEF ConnectionInv
  <2>4. 1 <= Len(tasks)
    BY <1>0, <2>1
  <2>5. Shift(1)
    BY <1>0, <2>2, <2>3, <2>4, ConcatShift
  <2> QED
    BY <1>7, <2>1, <2>5, SendTakesUp DEF RunStep
<1>8. ASSUME NEW m \in Msg, LoopSend(m) PROVE LoopStep(m)
  <2>1. /\ Unsent(m) /\ handed' = [handed EXCEPT ![Loop] = Append(handed[Loop], m)]
        /\ caller' = caller /\ SendInLoop(m, tasks) /\ state # "kConnecting"
    BY <1>8 DEF LoopSend
  <2>2. \E ev \in {<<>>, <<"writeComplete">>, <<"highWaterMark">>} :
          tasks' = tasks \o ev
    BY <1>0, <2>1, SendInLoopStep DEF ConnectionInv
  <2>3. /\ 0 <= Len(tasks) /\ Len(tasks) = Len(tasks) - 0
        /\ \A q \in 1..Len(tasks) : tasks[q] = tasks[q + 0]
    BY <1>0
  <2>4. Shift(0)
    BY <1>0, <2>2, <2>3, ConcatShift
  <2> QED
    BY <1>8, <2>1, <2>4, SendTakesUp DEF LoopStep
<1>9. CASE HandleWrite
  <2>1. /\ sent' \o output' = sent \o output /\ UNCHANGED <<handed, caller>>
        /\ tasks' = tasks \/ tasks' = Append(tasks, "writeComplete")
    BY <1>0, <1>9, HandleWriteStep DEF HandleWrite
  <2>2. Stream' = Stream
    BY <2>1 DEF Stream
  <2>3. CASE tasks' = tasks
    BY <1>1, <2>1, <2>2, <2>3 DEF QuietStep
  <2>4. CASE tasks' = Append(tasks, "writeComplete")
    BY <1>4, <2>1, <2>2, <2>4 DEF TaskName
  <2> QED
    BY <2>1, <2>3, <2>4
<1>10. CASE LoopForceClose
  <2>1. /\ tasks' = Append(tasks, "forceClose") /\ UNCHANGED <<handed, caller>>
        /\ UNCHANGED <<sent, output>>
    BY <1>10 DEF LoopForceClose, kernelVars
  <2> QED
    BY <1>4, <2>1 DEF TaskName, Stream
<1>11. CASE \/ ConnectEstablished \/ Poll \/ HandleHup \/ HandleError \/ HandleRead
            \/ HandleWriteClosed \/ LoopShutdown \/ LoopStopRead \/ LoopStartRead
            \/ RunTimer \/ UserReturns \/ PeerSends \/ PeerReads
  <2>1. UNCHANGED <<handed, caller, tasks, sent, output>>
    BY <1>11
    DEF ConnectEstablished, Poll, HandleHup, HandleError, HandleRead,
        HandleWriteClosed, LoopShutdown, LoopStopRead, LoopStartRead, RunTimer,
        UserReturns, PeerSends, PeerReads, kernelVars
  <2> QED
    BY <1>3, <2>1
<1>12. ASSUME NEW how \in {"fin", "reset"}, PeerEnds(how)
       PROVE  UNCHANGED <<handed, caller, tasks, sent, output>>
  BY <1>12 DEF PeerEnds
<1>13. ASSUME NEW p \in Thread, NEW m \in Msg, ThreadSend(p, m) PROVE GiveStep(p, m)
  BY <1>13, Names DEF ThreadSend, May, GiveStep, Stream, kernelVars
<1>14. ASSUME NEW p \in Thread,
              \/ ThreadShutdown(p) \/ ThreadForceClose(p) \/ ThreadExchange(p)
              \/ \E op \in {"stopRead", "startRead"} : ThreadReading(p, op)
       PROVE  QuietStep
  <2>1. UNCHANGED <<handed, tasks, sent, output>>
    BY <1>14
    DEF ThreadShutdown, ThreadForceClose, ThreadExchange, ThreadReading, kernelVars
  <2>2. \/ caller' = caller
        \/ /\ caller[p] \in {"idle", "checked"}
           /\ \E c \in TaskName \cup {"checked", "done"} :
                caller' = [caller EXCEPT ![p] = c]
    BY <1>14
    DEF ThreadShutdown, ThreadForceClose, ThreadExchange, ThreadReading, May, TaskName
  <2>3. \A t \in Thread : caller'[t] # caller[t] =>
                            caller[t] \notin Msg /\ caller'[t] \notin Msg
    BY <1>0, <2>2, Names
  <2> QED
    BY <1>1, <2>1, <2>3 DEF QuietStep, Stream
<1>15. ASSUME NEW p \in Thread, ThreadQueues(p) PROVE QuietStep \/ QueueStep(p)
  <2>1. /\ caller[p] \in Task /\ tasks' = Append(tasks, caller[p])
        /\ UNCHANGED <<handed, sent, output>>
        /\ caller' = [caller EXCEPT ![p] = IF caller[p] = "forceClose" THEN "done"
                                                                       ELSE "idle"]
    BY <1>15 DEF ThreadQueues, kernelVars
  <2>2. CASE caller[p] \in Msg
    <3>1. caller[p] # "forceClose"
      BY <2>2, Names DEF TaskName
    <3> QED
      BY <2>1, <2>2, <3>1 DEF QueueStep, Stream
  <2>3. CASE caller[p] \notin Msg
    <3>1. Shift(0)
      BY <1>0, <2>1, <2>3, AppendShift
    <3>2. \A t \in Thread : caller'[t] # caller[t] =>
                              caller[t] \notin Msg /\ caller'[t] \notin Msg
      BY <1>0, <2>1, <2>3, Names
    <3> QED
      BY <2>1, <3>1, <3>2 DEF QuietStep, Stream
  <2> QED
    BY <2>2, <2>3
<1>16. CASE UNCHANGED vars
  BY <1>3, <1>16 DEF vars, kernelVars
<1> QED
  BY <1>3, <1>6, <1>7, <1>8, <1>9, <1>10, <1>11, <1>12, <1>13, <1>14, <1>15, <1>16
  DEF Next, Handlers, RunTask, UserCalls, ThreadBegins, ThreadEnds

LEMMA OrderInit == Init => OrderInv
<1> SUFFICES ASSUME Init PROVE OrderInv
  OBVIOUS
<1>1. /\ \A s \in Sender : handed[s] = <<>>
      /\ \A p \in Thread : caller[p] = "idle"
      /\ tasks = <<>> /\ Stream = <<>>
  <2>1. sent = <<>> /\ output = <<>>
    BY DEF Init
  <2>2. <<>> \o <<>> = <<>>
    OBVIOUS
  <2> QED
    BY <2>1, <2>2 DEF Init, Stream
<1>2. DOMAIN tasks = {} /\ DOMAIN Stream = {} /\ \A s \in Sender : DOMAIN handed[s] = {}
  BY <1>1
<1>3. \A m \in Msg : m # "idle"
  BY Names
<1> QED
  BY <1>1, <1>2, <1>3
  DEF OrderInv, AcceptedOnce, NoneEarly, LastIsCalled, NoneLost, OnePlace, Whole,
      TakenInOrder, QueuedInOrder, InStream, Queued

LEMMA OrderStep ==
  ASSUME ConnectionInv, LoneCloser(use), OrderInv, [Next]_vars
  PROVE  OrderInv'
<1>1. OrderTypes
  BY TypesOfOrder DEF ConnectionInv
<1>2. OrderTypes'
  <2>1. TypeOK'
    BY StepInv DEF ConnectionInv
  <2>2. sent' \in Seq(Byte) /\ output' \in Seq(Byte)
    BY <2>1 DEF TypeOK, Byte
  <2>3. ASSUME NEW q, NEW r, q \in Seq(Byte), r \in Seq(Byte) PROVE q \o r \in Seq(Byte)
    BY <2>3, ConcatProperties
  <2>4. Stream' \in Seq(Byte)
    BY <2>2, <2>3 DEF Stream
  <2> QED
    BY <2>1, <2>4 DEF OrderTypes, TypeOK
<1>3. Frozen => Frozen'
  BY FrozenStays
<1> QED
  BY <1>1, <1>2, <1>3, StepKinds, QuietKeepsOrder, RunKeepsOrder, LoopKeepsOrder,
     GiveKeepsOrder, QueueKeepsOrder

-----------------------------------------------------------------------------

\* What the kernel has is the front of what was taken up.
LEMMA OrderHolds ==
  ASSUME TypeOK, OrderInv
  PROVE  SenderOrder
<1>1. /\ sent \in Seq(Byte) /\ output \in Seq(Byte) /\ Size \in Nat
      /\ handed \in [Sender -> Seq(Msg)]
  BY Sizes DEF TypeOK, Byte
<1> DEFINE N == Len(sent)
<1>2. /\ N \in Nat /\ DOMAIN sent = 1..N
      /\ \A k \in 1..N : k \in DOMAIN Stream /\ Stream[k] = sent[k]
  <2>1. /\ Len(sent) \in Nat /\ Len(output) \in Nat /\ DOMAIN sent = 1..Len(sent)
    BY <1>1
  <2>2. /\ sent \o output \in Seq(Byte)
        /\ Len(sent \o output) = Len(sent) + Len(output)
        /\ \A k \in 1..(Len(sent) + Len(output)) :
             (sent \o output)[k] = IF k <= Len(sent) THEN sent[k]
                                   ELSE output[k - Len(sent)]
    BY <1>1, ConcatProperties, Zenon
  <2>3. DOMAIN (sent \o output) = 1..(Len(sent) + Len(output))
    BY <2>2
  <2> QED
    BY <2>1, <2>2, <2>3 DEF Stream
<1> HIDE DEF N
<1>3. \A k, l \in DOMAIN sent : sent[k] = sent[l] => k = l
  BY <1>2 DEF OrderInv, OnePlace
<1>4. \A k \in DOMAIN sent : ~Unsent(sent[k][1])
  <2> SUFFICES ASSUME NEW k \in DOMAIN sent PROVE ~Unsent(sent[k][1])
    OBVIOUS
  <2>1. sent[k][1] \in Msg
    BY <1>1 DEF Byte
  <2>2. InStream(sent[k][1])
    BY <1>2 DEF InStream
  <2> QED
    BY <2>1, <2>2 DEF OrderInv, NoneEarly
<1>5. ASSUME NEW s \in Sender, NEW i \in DOMAIN handed[s], NEW b \in 1..Size,
             NEW k \in DOMAIN sent, sent[k] = <<handed[s][i], b>>, i > 1 \/ b > 1
      PROVE  \E l \in 1..(k - 1) : sent[l] = ByteBefore(s, i, b)
  <2>1. k \in DOMAIN Stream /\ Stream[k] = <<handed[s][i], b>>
    BY <1>2, <1>5
  <2>2. \A l \in 1..(k - 1) : sent[l] = Stream[l]
    BY <1>2
  <2>3. CASE b > 1
    <3>1. k > 1 /\ Stream[k - 1] = <<handed[s][i], b - 1>>
      BY <2>1, <2>3 DEF OrderInv, Whole
    <3>2. k - 1 \in 1..(k - 1)
      BY <1>2, <3>1
    <3> QED
      BY <2>2, <2>3, <3>1, <3>2 DEF ByteBefore
  <2>4. CASE ~(b > 1)
    <3>1. b = 1 /\ i > 1
      BY <1>1, <1>5, <2>4
    <3>2. \E l \in 1..(k - 1) : Stream[l] = <<handed[s][i - 1], Size>>
      BY <2>1, <3>1 DEF OrderInv, TakenInOrder
    <3> QED
      BY <2>2, <2>4, <3>2 DEF ByteBefore
  <2> QED
    BY <2>3, <2>4
<1> QED
  BY <1>3, <1>4, <1>5 DEF SenderOrder

\* What the kernel is given of one sender's messages is what send() accepted from
\* it, whole, once and in its order, through the loop's tasks, partial writes and
\* any mixture with other senders (TcpConnection.cc:105, 122, 146).
THEOREM SenderOrderKept ==
  ASSUME OneCloser
  PROVE  Spec => []SenderOrder
<1>1. ConnectionInv /\ OrderInv /\ [Next]_vars => OrderInv'
  BY Alone, OrderStep
<1>2. ConnectionInv /\ OrderInv => SenderOrder
  BY OrderHolds DEF ConnectionInv
<1> QED
  BY <1>1, <1>2, OrderInit, Invariance, PTL DEF Spec

=============================================================================
