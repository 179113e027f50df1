--------------------------- MODULE Buffer_proofs ---------------------------
(***************************************************************************)
(* Proofs about Buffer, for every size of the vector, of the room in front *)
(* and of the arguments.  Each operation on a well-formed buffer is shown  *)
(* to give a well-formed buffer with the contents it should have; the      *)
(* invariants follow.                                                      *)
(***************************************************************************)
EXTENDS Buffer, SequenceTheorems, TLAPS

\* What Contents is of a well-formed buffer.
LEMMA ContentsLemma ==
  ASSUME NEW b, IsBuffer(b)
  PROVE  /\ Contents(b) \in Seq(Byte)
         /\ Len(Contents(b)) = b.writer - b.reader
         /\ \A i \in 1..(b.writer - b.reader) :
              Contents(b)[i] = b.mem[b.reader + i - 1]
<1>1. b.writer - b.reader \in Nat
  BY DEF IsBuffer
<1>2. \A i \in 1..(b.writer - b.reader) : b.mem[b.reader + i - 1] \in Byte
  BY DEF IsBuffer
<1> QED  BY <1>1, <1>2 DEF Contents, readableBytes

\* A sequence that agrees with the bytes between the indices is the contents.
LEMMA AreContents ==
  ASSUME NEW b, IsBuffer(b), NEW s \in Seq(Byte),
         Len(s) = b.writer - b.reader,
         \A i \in 1..Len(s) : s[i] = b.mem[b.reader + i - 1]
  PROVE  Contents(b) = s
BY ContentsLemma

\* Copying bytes to places within the vector changes those places only.
LEMMA CopiedLemma ==
  ASSUME NEW n \in Nat, NEW mem \in [0..(n - 1) -> Byte],
         NEW data \in Seq(Byte), NEW at \in Nat, at + Len(data) <= n
  PROVE  /\ Copied(mem, data, at) \in [0..(n - 1) -> Byte]
         /\ \A i \in 0..(n - 1) :
              Copied(mem, data, at)[i] = IF i \in at..(at + Len(data) - 1)
                                         THEN data[i - at + 1] ELSE mem[i]
BY DEF Copied

\* Writing into the room behind the contents adds to them.
LEMMA FillLemma ==
  ASSUME NEW b, IsBuffer(b), NEW data \in Seq(Byte),
         Len(data) <= writableBytes(b)
  PROVE  /\ IsBuffer(Fill(b, data))
         /\ Contents(Fill(b, data)) = Contents(b) \o data
<1> DEFINE c == Fill(b, data)
           m == Copied(b.mem, data, b.writer)
<1>1. /\ m \in [0..(b.size - 1) -> Byte]
      /\ \A i \in 0..(b.size - 1) :
           m[i] = IF i \in b.writer..(b.writer + Len(data) - 1)
                  THEN data[i - b.writer + 1] ELSE b.mem[i]
  <2>1. /\ b.size \in Nat /\ b.mem \in [0..(b.size - 1) -> Byte]
        /\ b.writer \in Nat /\ b.writer + Len(data) <= b.size
    BY DEF IsBuffer, writableBytes
  <2> QED  BY <2>1, CopiedLemma
<1>2. /\ c = Buf(c.size, c.reader, c.writer, c.mem)
      /\ c.size = b.size /\ c.reader = b.reader
      /\ c.writer = b.writer + Len(data) /\ c.mem = m
  BY DEF Fill, Buf
<1>3. IsBuffer(c)
  BY <1>1, <1>2 DEF IsBuffer, writableBytes
<1>4. Contents(c) = Contents(b) \o data
  <2> DEFINE s == Contents(b) \o data
  <2>1. /\ b.writer \in Nat /\ b.reader \in Nat /\ b.reader <= b.writer
        /\ b.writer + Len(data) <= b.size /\ b.size \in Nat
    BY DEF IsBuffer, writableBytes
  <2>2. /\ s \in Seq(Byte)
        /\ Len(s) = b.writer - b.reader + Len(data)
        /\ \A i \in 1..Len(s) :
             s[i] = IF i <= b.writer - b.reader THEN Contents(b)[i]
                                        ELSE data[i - (b.writer - b.reader)]
    <3>1. Contents(b) \in Seq(Byte) /\ Len(Contents(b)) = b.writer - b.reader
      BY ContentsLemma
    <3>2. /\ s \in Seq(Byte) /\ Len(s) = Len(Contents(b)) + Len(data)
          /\ \A i \in 1..(Len(Contents(b)) + Len(data)) :
               s[i] = IF i <= Len(Contents(b)) THEN Contents(b)[i]
                                               ELSE data[i - Len(Contents(b))]
      BY <3>1, ConcatProperties
    <3> HIDE DEF s
    <3> QED  BY <3>1, <3>2
  <2>3. ASSUME NEW i \in 1..Len(s)
        PROVE  s[i] = c.mem[c.reader + i - 1]
    <3> DEFINE p == b.reader + i - 1
    <3>1. p \in 0..(b.size - 1) /\ i \in Nat
      BY <2>1, <2>2
    <3>2. c.mem[c.reader + i - 1] = m[p]
      BY <1>2
    <3>3. CASE i <= b.writer - b.reader
      <4>1. i \in 1..(b.writer - b.reader) /\ p \notin b.writer..(b.writer + Len(data) - 1)
        BY <2>1, <3>3
      <4>2. m[p] = b.mem[p]
        BY <1>1, <3>1, <4>1
      <4>3. Contents(b)[i] = b.mem[p]
        BY <4>1, ContentsLemma
      <4> QED  BY <2>2, <3>2, <3>3, <4>2, <4>3
    <3>4. CASE ~(i <= b.writer - b.reader)
      <4>0. /\ i <= b.writer - b.reader + Len(data) /\ Len(data) \in Nat
            /\ i > b.writer - b.reader
        BY <2>1, <2>2, <3>1, <3>4
      <4>1. /\ p \in b.writer..(b.writer + Len(data) - 1)
            /\ p - b.writer + 1 = i - (b.writer - b.reader)
        BY <2>1, <3>1, <4>0
      <4>2. m[p] = data[p - b.writer + 1]
        BY <1>1, <3>1, <4>1
      <4> QED  BY <2>2, <3>2, <3>4, <4>1, <4>2
    <3> QED  BY <3>3, <3>4
  <2>4. Len(s) = c.writer - c.reader
    BY <1>2, <2>1, <2>2
  <2> HIDE DEF s, c, m
  <2> QED  BY <1>3, <2>2, <2>3, <2>4, AreContents DEF s
<1> QED  BY <1>3, <1>4

\* Growing the vector leaves the contents where they are.
LEMMA GrowLemma ==
  ASSUME NEW b, IsBuffer(b), NEW n \in Nat, b.size <= n
  PROVE  /\ IsBuffer(Grow(b, n))
         /\ Contents(Grow(b, n)) = Contents(b)
         /\ Grow(b, n).size = n /\ Grow(b, n).writer = b.writer
         /\ Grow(b, n).reader = b.reader
<1> DEFINE c == Grow(b, n)
           m == [i \in 0..(n - 1) |-> IF i < b.size THEN b.mem[i] ELSE Zero]
<1>1. /\ b.size \in Nat /\ b.reader \in Nat /\ b.writer \in Nat
      /\ b.mem \in [0..(b.size - 1) -> Byte]
      /\ b.reader <= b.writer /\ b.writer <= b.size /\ kCheapPrepend <= b.size
  BY DEF IsBuffer
<1>2. /\ c = Buf(c.size, c.reader, c.writer, c.mem)
      /\ c.size = n /\ c.reader = b.reader /\ c.writer = b.writer /\ c.mem = m
  BY DEF Grow, Buf
<1>3. /\ m \in [0..(n - 1) -> Byte]
      /\ \A i \in 0..(b.size - 1) : m[i] = b.mem[i]
  BY <1>1, BufferAssumption
<1>4. IsBuffer(c)
  <2> HIDE DEF c, m
  <2> QED  BY <1>1, <1>2, <1>3, BufferAssumption DEF IsBuffer
<1>5. ASSUME NEW i \in 1..(b.writer - b.reader)
      PROVE  Contents(b)[i] = c.mem[c.reader + i - 1]
  <2> HIDE DEF c, m
  <2>1. b.reader + i - 1 \in 0..(b.size - 1)
    BY <1>1
  <2>2. Contents(b)[i] = b.mem[b.reader + i - 1]
    BY ContentsLemma
  <2> QED  BY <1>2, <1>3, <2>1, <2>2
<1>6. Contents(c) = Contents(b)
  <2> HIDE DEF c, m
  <2> QED  BY <1>2, <1>4, <1>5, ContentsLemma, AreContents
<1> QED  BY <1>2, <1>4, <1>6

\* Moving the contents to kCheapPrepend, which must not be behind them, keeps them.
LEMMA CompactLemma ==
  ASSUME NEW b, IsBuffer(b), kCheapPrepend <= b.reader
  PROVE  /\ IsBuffer(Compact(b))
         /\ Contents(Compact(b)) = Contents(b)
         /\ Compact(b).size = b.size /\ Compact(b).reader = kCheapPrepend
         /\ Compact(b).writer = kCheapPrepend + (b.writer - b.reader)
<1> DEFINE c == Compact(b)
           m == Copied(b.mem, Contents(b), kCheapPrepend)
<1>1. /\ b.size \in Nat /\ b.reader \in Nat /\ b.writer \in Nat
      /\ b.mem \in [0..(b.size - 1) -> Byte] /\ kCheapPrepend \in Nat
      /\ b.reader <= b.writer /\ b.writer <= b.size
  BY BufferAssumption DEF IsBuffer
<1>2. /\ c = Buf(c.size, c.reader, c.writer, c.mem)
      /\ c.size = b.size /\ c.reader = kCheapPrepend /\ c.mem = m
      /\ c.writer = kCheapPrepend + (b.writer - b.reader)
  BY DEF Compact, Buf, readableBytes
<1>3. Contents(b) \in Seq(Byte) /\ Len(Contents(b)) = b.writer - b.reader
  BY ContentsLemma
<1>4. /\ m \in [0..(b.size - 1) -> Byte]
      /\ \A i \in 0..(b.size - 1) :
           m[i] = IF i \in kCheapPrepend..(kCheapPrepend + Len(Contents(b)) - 1)
                  THEN Contents(b)[i - kCheapPrepend + 1] ELSE b.mem[i]
  <2>1. kCheapPrepend + Len(Contents(b)) <= b.size
    BY <1>1, <1>3
  <2> QED  BY <1>1, <1>3, <2>1, CopiedLemma
<1>5. IsBuffer(c)
  <2> HIDE DEF c, m
  <2> QED  BY <1>1, <1>2, <1>4 DEF IsBuffer
<1>6. ASSUME NEW i \in 1..Len(Contents(b))
      PROVE  Contents(b)[i] = c.mem[c.reader + i - 1]
  <2> DEFINE p == kCheapPrepend + i - 1
  <2>1. /\ p \in 0..(b.size - 1)
        /\ p \in kCheapPrepend..(kCheapPrepend + Len(Contents(b)) - 1)
        /\ p - kCheapPrepend + 1 = i
    BY <1>1, <1>3
  <2> HIDE DEF p
  <2>2. m[p] = Contents(b)[i]
    BY <1>4, <2>1
  <2> QED  BY <1>2, <2>2 DEF p
<1>7. Contents(c) = Contents(b)
  <2>1. Len(Contents(b)) = c.writer - c.reader
    BY <1>1, <1>2, <1>3
  <2> HIDE DEF c, m
  <2> QED  BY <1>3, <1>5, <1>6, <2>1, AreContents
<1> QED  BY <1>2, <1>5, <1>7

\* makeSpace() compacts only when the contents move down: the room in front that
\* it counts on is more than kCheapPrepend (Buffer.h:300).
LEMMA CompactsDown ==
  ASSUME NEW b, IsBuffer(b), NEW len \in Nat,
         writableBytes(b) < len, ~MustGrow(b, len)
  PROVE  kCheapPrepend < b.reader
BY BufferAssumption DEF IsBuffer, MustGrow, writableBytes

\* ensureWritableBytes() makes the room it is asked for (Buffer.h:162), keeps the
\* contents, and leaves the reader where it was or at kCheapPrepend.
LEMMA EnsureLemma ==
  ASSUME NEW b, IsBuffer(b), NEW len \in Nat
  PROVE  LET c == ensureWritableBytes(b, len) IN
         /\ IsBuffer(c) /\ Contents(c) = Contents(b)
         /\ len <= writableBytes(c)
         /\ c.reader \in {b.reader, kCheapPrepend}
<1>1. /\ b.size \in Nat /\ b.reader \in Nat /\ b.writer \in Nat
      /\ b.reader <= b.writer /\ b.writer <= b.size /\ kCheapPrepend \in Nat
  BY BufferAssumption DEF IsBuffer
<1>2. CASE ~(writableBytes(b) < len)
  BY <1>1, <1>2 DEF ensureWritableBytes, writableBytes
<1>3. CASE writableBytes(b) < len /\ MustGrow(b, len)
  <2>1. ensureWritableBytes(b, len) = Grow(b, b.writer + len)
    BY <1>3 DEF ensureWritableBytes, makeSpace
  <2>2. b.writer + len \in Nat /\ b.size <= b.writer + len
    BY <1>1, <1>3 DEF writableBytes
  <2> QED  BY <1>1, <2>1, <2>2, GrowLemma DEF writableBytes
<1>4. CASE writableBytes(b) < len /\ ~MustGrow(b, len)
  <2>1. ensureWritableBytes(b, len) = Compact(b)
    BY <1>4 DEF ensureWritableBytes, makeSpace
  <2>2. kCheapPrepend < b.reader
    BY <1>4, CompactsDown
  <2>3. len <= b.size - (kCheapPrepend + (b.writer - b.reader))
    BY <1>1, <1>4 DEF MustGrow, writableBytes
  <2> QED  BY <1>1, <2>1, <2>2, <2>3, CompactLemma DEF writableBytes
<1> QED  BY <1>2, <1>3, <1>4

\* EmptyIsReset, of any buffer.
IsReset(b) == b.reader = b.writer => b.reader = kCheapPrepend

\* append() adds the data to the contents, whether it finds room, compacts or
\* grows the vector.
LEMMA AppendLemma ==
  ASSUME NEW b, IsBuffer(b), NEW data \in Seq(Byte)
  PROVE  /\ IsBuffer(append(b, data))
         /\ Contents(append(b, data)) = Contents(b) \o data
         /\ IsReset(b) => IsReset(append(b, data))
<1> DEFINE c == ensureWritableBytes(b, Len(data))
<1>1. Len(data) \in Nat
  OBVIOUS
<1>2. /\ IsBuffer(c) /\ Contents(c) = Contents(b)
      /\ Len(data) <= writableBytes(c) /\ c.reader \in {b.reader, kCheapPrepend}
  BY <1>1, EnsureLemma
<1> HIDE DEF c
<1>3. append(b, data) = Fill(c, data)
  BY DEF append, c
<1>4. /\ IsBuffer(append(b, data))
      /\ Contents(append(b, data)) = Contents(b) \o data
  BY <1>2, <1>3, FillLemma
<1>5. IsReset(b) => IsReset(append(b, data))
  <2>1. c.writer - c.reader = b.writer - b.reader
    BY <1>2, ContentsLemma
  <2>2. /\ c.writer \in Nat /\ c.reader \in Nat /\ c.reader <= c.writer
        /\ b.writer \in Nat /\ b.reader \in Nat
    BY <1>2 DEF IsBuffer
  <2>3. /\ append(b, data).reader = c.reader
        /\ append(b, data).writer = c.writer + Len(data)
    BY <1>3 DEF Fill, Buf
  <2>4. ASSUME IsReset(b), append(b, data).reader = append(b, data).writer
        PROVE  append(b, data).reader = kCheapPrepend
    <3>1. c.reader = c.writer + Len(data)
      BY <2>3, <2>4
    <3>2. c.reader = c.writer
      BY <1>1, <2>2, <3>1
    <3>3. b.reader = b.writer
      BY <2>1, <2>2, <3>2
    <3> QED  BY <1>2, <2>3, <2>4, <3>3 DEF IsReset
  <2> QED  BY <2>4 DEF IsReset
<1> QED  BY <1>4, <1>5

\* readFd() adds what was read to the contents, whether it fits or continues in
\* the extra block.
LEMMA ReadLemma ==
  ASSUME NEW b, IsBuffer(b), NEW data \in Seq(Byte)
  PROVE  /\ IsBuffer(readFd(b, data))
         /\ Contents(readFd(b, data)) = Contents(b) \o data
         /\ IsReset(b) => IsReset(readFd(b, data))
<1>1. Len(data) \in Nat /\ writableBytes(b) \in Nat
  BY DEF IsBuffer, writableBytes
<1>2. CASE Len(data) <= writableBytes(b)
  <2>1. readFd(b, data) = Fill(b, data)
    BY <1>2 DEF readFd
  <2>2. IsReset(b) => IsReset(Fill(b, data))
    <3>1. /\ Fill(b, data).reader = b.reader
          /\ Fill(b, data).writer = b.writer + Len(data)
      BY DEF Fill, Buf
    <3> QED  BY <1>1, <3>1 DEF IsReset, IsBuffer
  <2> QED  BY <1>2, <2>1, <2>2, FillLemma
<1>3. CASE ~(Len(data) <= writableBytes(b))
  <2> DEFINE n    == writableBytes(b)
             head == SubSeq(data, 1, n)
             tail == SubSeq(data, n + 1, Len(data))
             c    == Fill(b, head)
  <2>1. /\ head \in Seq(Byte) /\ Len(head) = n
        /\ tail \in Seq(Byte) /\ head \o tail = data
    <3>1. n \in 0..Len(data)
      BY <1>1, <1>3
    <3> HIDE DEF n
    <3>2. head \in Seq(Byte) /\ tail \in Seq(Byte) /\ Len(head) = n
      BY <3>1
    <3>3. head \o tail = data
      <4>1. SubSeq(data, 1, n) \o SubSeq(data, n + 1, Len(data))
              = SubSeq(data, 1, Len(data))
        <5>1. /\ 1 \in 1..(Len(data) + 1) /\ n \in (1 - 1)..Len(data)
              /\ Len(data) \in n..Len(data)
          BY <1>1, <3>1
        <5> QED  BY <5>1, ConcatAdjacentSubSeq, Zenon
      <4> QED  BY <4>1, SubSeqFull
    <3> QED  BY <3>2, <3>3
  <2>2. readFd(b, data) = append(c, tail)
    BY <1>3 DEF readFd
  <2> HIDE DEF head, tail
  <2>3. IsBuffer(c) /\ Contents(c) = Contents(b) \o head
    BY <1>1, <2>1, FillLemma
  <2>4. IsReset(b) => IsReset(c)
    <3>1. c.reader = b.reader /\ c.writer = b.writer + Len(head)
      BY DEF Fill, Buf
    <3> QED  BY <1>1, <2>1, <3>1 DEF IsReset, IsBuffer
  <2> HIDE DEF c
  <2>5. /\ IsBuffer(append(c, tail))
        /\ Contents(append(c, tail)) = Contents(c) \o tail
        /\ IsReset(c) => IsReset(append(c, tail))
    BY <2>1, <2>3, AppendLemma
  <2>6. (Contents(b) \o head) \o tail = Contents(b) \o data
    <3>1. Contents(b) \in Seq(Byte)
      BY ContentsLemma
    <3>2. (Contents(b) \o head) \o tail = Contents(b) \o (head \o tail)
      <4>1. \A x, y, z \in Seq(Byte) : (x \o y) \o z = x \o (y \o z)
        BY ConcatAssociative
      <4> QED  BY <2>1, <3>1, <4>1
    <3> QED  BY <2>1, <3>2
  <2> QED  BY <2>2, <2>3, <2>4, <2>5, <2>6
<1> QED  BY <1>2, <1>3

\* retrieve() takes that many bytes from the front, or all there are.
LEMMA RetrieveLemma ==
  ASSUME NEW b, IsBuffer(b), NEW len \in Nat
  PROVE  /\ IsBuffer(retrieve(b, len))
         /\ Contents(retrieve(b, len))
              = SubSeq(Contents(b), len + 1, Len(Contents(b)))
         /\ IsReset(b) => IsReset(retrieve(b, len))
<1> DEFINE c == retrieve(b, len)
           s == SubSeq(Contents(b), len + 1, Len(Contents(b)))
<1>1. /\ b.size \in Nat /\ b.reader \in Nat /\ b.writer \in Nat
      /\ b.mem \in [0..(b.size - 1) -> Byte]
      /\ b.reader <= b.writer /\ b.writer <= b.size
  BY DEF IsBuffer
<1>2. /\ Contents(b) \in Seq(Byte) /\ Len(Contents(b)) = b.writer - b.reader
      /\ \A i \in 1..(b.writer - b.reader) :
           Contents(b)[i] = b.mem[b.reader + i - 1]
  BY ContentsLemma
<1>3. CASE len < readableBytes(b)
  <2>1. c = Buf(b.size, b.reader + len, b.writer, b.mem)
    BY <1>3 DEF retrieve
  <2>2. /\ IsBuffer(c) /\ c.reader = b.reader + len /\ c.writer = b.writer
        /\ c.mem = b.mem
    BY <1>1, <1>3, <2>1 DEF IsBuffer, Buf, readableBytes
  <2>3. /\ s \in Seq(Byte)
        /\ Len(s) = b.writer - b.reader - len
        /\ \A i \in 1..Len(s) : s[i] = Contents(b)[len + i]
    BY <1>1, <1>2, <1>3 DEF readableBytes
  <2> HIDE DEF c, s
  <2>4. ASSUME NEW i \in 1..Len(s)
        PROVE  s[i] = c.mem[c.reader + i - 1]
    <3>1. len + i \in 1..(b.writer - b.reader)
      BY <1>1, <2>3
    <3>2. Contents(b)[len + i] = b.mem[b.reader + (len + i) - 1]
      BY <1>2, <3>1
    <3>3. b.reader + (len + i) - 1 = c.reader + i - 1
      BY <1>1, <2>2, <3>1
    <3> QED  BY <2>2, <2>3, <3>2, <3>3
  <2>5. Len(s) = c.writer - c.reader
    BY <1>1, <2>2, <2>3
  <2>6. Contents(c) = s
    BY <2>2, <2>3, <2>4, <2>5, AreContents
  <2>7. IsReset(c)
    BY <1>1, <1>3, <2>2 DEF IsReset, readableBytes
  <2> QED  BY <2>2, <2>6, <2>7 DEF c, s
<1>4. CASE ~(len < readableBytes(b))
  <2>1. c = Buf(b.size, kCheapPrepend, kCheapPrepend, b.mem)
    BY <1>4 DEF retrieve, retrieveAll
  <2>2. /\ IsBuffer(c)
        /\ c.reader = kCheapPrepend /\ c.writer = kCheapPrepend
    BY <1>1, <2>1, BufferAssumption DEF IsBuffer, Buf
  <2>3. s = <<>> /\ <<>> \in Seq(Byte) /\ Len(<<>>) = 0
    <3>1. Len(Contents(b)) < len + 1
      BY <1>1, <1>2, <1>4 DEF readableBytes
    <3> QED  BY <1>1, <1>2, <3>1, SubSeqEmpty
  <2> HIDE DEF c, s
  <2>4. Contents(c) = s
    <3>1. Len(<<>>) = c.writer - c.reader
      BY <2>2, <2>3, BufferAssumption
    <3>2. \A i \in 1..Len(<<>>) : <<>>[i] = c.mem[c.reader + i - 1]
      BY <2>3
    <3> QED  BY <2>2, <2>3, <3>1, <3>2, AreContents
  <2> QED  BY <2>2, <2>4 DEF c, s, IsReset
<1> QED  BY <1>3, <1>4

\* findCRLF() and findEOL() find the first end of a line of what is to be read,
\* wherever it lies in the vector and whatever lies behind it.
LEMMA LineLemma ==
  ASSUME NEW b, IsBuffer(b), NEW eol \in Seq(Byte), NEW start \in Nat,
         NEW n \in LineEnds(b, eol, start),
         \A m \in LineEnds(b, eol, start) : n <= m
  PROVE  /\ n \in Nat
         /\ AfterLine(Contents(b), eol, start)
              = SubSeq(Contents(b), n + 1, Len(Contents(b)))
<1> DEFINE s == Contents(b)
<1>1. /\ b.reader \in Nat /\ b.writer \in Nat /\ Len(eol) \in Nat
      /\ readableBytes(b) = b.writer - b.reader
  BY DEF IsBuffer, readableBytes
<1>2. /\ Len(s) = b.writer - b.reader
      /\ \A i \in 1..(b.writer - b.reader) : s[i] = b.mem[b.reader + i - 1]
  BY ContentsLemma
<1> HIDE DEF s
<1>3. ASSUME NEW k \in (start + Len(eol))..Len(s), NEW i \in 1..Len(eol)
      PROVE  s[k - Len(eol) + i] = b.mem[b.reader + k - Len(eol) + i - 1]
  <2>1. k - Len(eol) + i \in 1..(b.writer - b.reader)
    BY <1>1, <1>2
  <2>2. b.reader + (k - Len(eol) + i) - 1 = b.reader + k - Len(eol) + i - 1
    BY <1>1, <1>2
  <2> QED  BY <1>2, <2>1, <2>2
<1>4. EndsIn(s, eol, start) = LineEnds(b, eol, start)
  <2>1. Len(s) = readableBytes(b)
    BY <1>1, <1>2
  <2>2. ASSUME NEW k \in (start + Len(eol))..Len(s)
        PROVE  (\A i \in 1..Len(eol) : s[k - Len(eol) + i] = eol[i])
               <=> (\A i \in 1..Len(eol) :
                      b.mem[b.reader + k - Len(eol) + i - 1] = eol[i])
    BY <1>3
  <2> QED  BY <2>1, <2>2 DEF EndsIn, LineEnds
<1>5. LineEnds(b, eol, start) \subseteq Nat
  BY <1>1 DEF LineEnds
<1>6. n = CHOOSE k \in EndsIn(s, eol, start) : \A m \in EndsIn(s, eol, start) : k <= m
  BY <1>4, <1>5
<1>7. AfterLine(s, eol, start) = SubSeq(s, n + 1, Len(s))
  BY <1>4, <1>6 DEF AfterLine
<1> QED  BY <1>5, <1>7 DEF s

\* prepend() puts the data in front of the contents.
LEMMA PrependLemma ==
  ASSUME NEW b, IsBuffer(b), NEW data \in Seq(Byte), Len(data) <= b.reader
  PROVE  /\ IsBuffer(prepend(b, data))
         /\ Contents(prepend(b, data)) = data \o Contents(b)
         /\ IsReset(b) => IsReset(prepend(b, data))
<1> DEFINE c == prepend(b, data)
           at == b.reader - Len(data)
           m == Copied(b.mem, data, at)
           s == data \o Contents(b)
<1>1. /\ b.size \in Nat /\ b.reader \in Nat /\ b.writer \in Nat
      /\ b.mem \in [0..(b.size - 1) -> Byte] /\ Len(data) \in Nat
      /\ b.reader <= b.writer /\ b.writer <= b.size
  BY DEF IsBuffer
<1>2. c = Buf(b.size, at, b.writer, m)
  BY DEF prepend
<1>3. at \in Nat /\ at + Len(data) <= b.size /\ at + Len(data) = b.reader
  BY <1>1
<1>4. /\ m \in [0..(b.size - 1) -> Byte]
      /\ \A i \in 0..(b.size - 1) :
           m[i] = IF i \in at..(at + Len(data) - 1)
                  THEN data[i - at + 1] ELSE b.mem[i]
  <2> HIDE DEF at
  <2> QED  BY <1>1, <1>3, CopiedLemma
<1> HIDE DEF m, at
<1>5. c.reader = at /\ c.writer = b.writer /\ c.mem = m /\ c.size = b.size
  BY <1>2 DEF Buf
<1>6. IsBuffer(c)
  BY <1>1, <1>2, <1>3, <1>4, <1>5 DEF IsBuffer
<1>7. /\ Contents(b) \in Seq(Byte) /\ Len(Contents(b)) = b.writer - b.reader
      /\ \A i \in 1..(b.writer - b.reader) :
           Contents(b)[i] = b.mem[b.reader + i - 1]
  BY ContentsLemma
<1>8. /\ s \in Seq(Byte)
      /\ Len(s) = Len(data) + Len(Contents(b))
      /\ \A i \in 1..(Len(data) + Len(Contents(b))) :
           s[i] = IF i <= Len(data) THEN data[i] ELSE Contents(b)[i - Len(data)]
  BY <1>7, ConcatProperties
<1> HIDE DEF c, s
<1>9. ASSUME NEW i \in 1..Len(s)
      PROVE  s[i] = c.mem[c.reader + i - 1]
  <2> DEFINE p == at + i - 1
  <2>1. i \in Nat /\ p \in 0..(b.size - 1)
    BY <1>1, <1>3, <1>7, <1>8
  <2>2. CASE i <= Len(data)
    <3>1. p \in at..(at + Len(data) - 1) /\ p - at + 1 = i
      BY <1>1, <1>3, <2>1, <2>2
    <3> HIDE DEF p
    <3>2. m[p] = data[i]
      BY <1>4, <2>1, <3>1
    <3> QED  BY <1>5, <1>8, <2>2, <3>2 DEF p
  <2>3. CASE ~(i <= Len(data))
    <3>1. /\ p \notin at..(at + Len(data) - 1)
          /\ i - Len(data) \in 1..(b.writer - b.reader)
          /\ p = b.reader + (i - Len(data)) - 1
      <4>1. i > Len(data) /\ i <= Len(data) + (b.writer - b.reader)
        BY <1>1, <1>7, <1>8, <2>1, <2>3
      <4> QED  BY <1>1, <1>3, <2>1, <4>1
    <3>2. m[p] = b.mem[p]
      BY <1>4, <2>1, <3>1
    <3>3. Contents(b)[i - Len(data)] = b.mem[p]
      BY <1>7, <3>1
    <3> QED  BY <1>5, <1>8, <2>3, <3>2, <3>3
  <2> QED  BY <2>2, <2>3
<1>10. Contents(c) = s
  <2>1. Len(s) = c.writer - c.reader
    BY <1>1, <1>3, <1>5, <1>7, <1>8
  <2> QED  BY <1>6, <1>8, <1>9, <2>1, AreContents
<1>11. IsReset(b) => IsReset(c)
  BY <1>1, <1>3, <1>5 DEF IsReset
<1> QED  BY <1>6, <1>10, <1>11 DEF c, s

-----------------------------------------------------------------------------
\* The inductive invariant: the three invariants of the runs that the steps need.
BufferInv == TypeOK /\ HoldsContents /\ EmptyIsReset

\* A new buffer is well-formed and empty.
LEMMA InitEstablishes == Init => BufferInv
<1> SUFFICES ASSUME Init PROVE BufferInv
  OBVIOUS
<1>1. /\ buffer.size = kCheapPrepend + initialSize
      /\ buffer.reader = kCheapPrepend /\ buffer.writer = kCheapPrepend
      /\ buffer.mem = [i \in 0..(kCheapPrepend + initialSize - 1) |-> Zero]
      /\ buffer = Buf(buffer.size, buffer.reader, buffer.writer, buffer.mem)
  BY DEF Init, New, Buf
<1>2. IsBuffer(buffer)
  BY <1>1, BufferAssumption DEF IsBuffer
<1>3. contents = <<>> /\ contents \in Seq(Byte)
  BY DEF Init
<1>4. Contents(buffer) = contents
  <2>1. Len(contents) = buffer.writer - buffer.reader
    BY <1>1, <1>3, BufferAssumption
  <2>2. \A i \in 1..Len(contents) :
          contents[i] = buffer.mem[buffer.reader + i - 1]
    BY <1>3
  <2> QED  BY <1>2, <1>3, <2>1, <2>2, AreContents
<1> QED  BY <1>1, <1>2, <1>3, <1>4
     DEF BufferInv, TypeOK, HoldsContents, EmptyIsReset

\* Every operation keeps the invariant.
LEMMA NextPreserves == BufferInv /\ [Next]_vars => BufferInv'
<1> SUFFICES ASSUME BufferInv, [Next]_vars
             PROVE  BufferInv'
  OBVIOUS
<1>1. /\ IsBuffer(buffer) /\ Contents(buffer) = contents
      /\ contents \in Seq(Byte) /\ IsReset(buffer)
  BY DEF BufferInv, TypeOK, HoldsContents, EmptyIsReset, IsReset
<1>2. SUFFICES /\ IsBuffer(buffer') /\ Contents(buffer') = contents'
               /\ contents' \in Seq(Byte) /\ IsReset(buffer')
  BY DEF BufferInv, TypeOK, HoldsContents, EmptyIsReset, IsReset, IsBuffer,
         Contents, readableBytes
<1>3. \A data \in Data : data \in Seq(Byte)
  BY DEF Data
<1>4. ASSUME NEW data \in Data, AppendBytes(data)
      PROVE  /\ IsBuffer(buffer') /\ Contents(buffer') = contents'
             /\ contents' \in Seq(Byte) /\ IsReset(buffer')
  <2>1. /\ buffer' = append(buffer, data) /\ contents' = contents \o data
    BY <1>4 DEF AppendBytes
  <2>2. data \in Seq(Byte) /\ contents \o data \in Seq(Byte)
    BY <1>1, <1>3
  <2>3. /\ IsBuffer(append(buffer, data)) /\ IsReset(append(buffer, data))
        /\ Contents(append(buffer, data)) = Contents(buffer) \o data
    BY <1>1, <2>1, <2>2, AppendLemma
  <2> QED  BY <1>1, <2>1, <2>2, <2>3
<1>5. ASSUME NEW data \in Data, PrependBytes(data)
      PROVE  /\ IsBuffer(buffer') /\ Contents(buffer') = contents'
             /\ contents' \in Seq(Byte) /\ IsReset(buffer')
  <2>1. /\ buffer' = prepend(buffer, data) /\ contents' = data \o contents
        /\ Len(data) <= buffer.reader
    BY <1>5 DEF PrependBytes
  <2>2. data \in Seq(Byte) /\ data \o contents \in Seq(Byte)
    BY <1>1, <1>3
  <2>3. /\ IsBuffer(prepend(buffer, data)) /\ IsReset(prepend(buffer, data))
        /\ Contents(prepend(buffer, data)) = data \o Contents(buffer)
    BY <1>1, <2>1, <2>2, PrependLemma
  <2> QED  BY <1>1, <2>1, <2>2, <2>3
<1>6. ASSUME NEW data \in Data, ReadBytes(data)
      PROVE  /\ IsBuffer(buffer') /\ Contents(buffer') = contents'
             /\ contents' \in Seq(Byte) /\ IsReset(buffer')
  <2>1. /\ buffer' = readFd(buffer, data) /\ contents' = contents \o data
    BY <1>6 DEF ReadBytes
  <2>2. data \in Seq(Byte) /\ contents \o data \in Seq(Byte)
    BY <1>1, <1>3
  <2>3. /\ IsBuffer(readFd(buffer, data)) /\ IsReset(readFd(buffer, data))
        /\ Contents(readFd(buffer, data)) = Contents(buffer) \o data
    BY <1>1, <2>1, <2>2, ReadLemma
  <2> QED  BY <1>1, <2>1, <2>2, <2>3
<1>7. ASSUME NEW len \in 0..MaxLen, RetrieveBytes(len)
      PROVE  /\ IsBuffer(buffer') /\ Contents(buffer') = contents'
             /\ contents' \in Seq(Byte) /\ IsReset(buffer')
  <2>1. len \in Nat
    BY BufferAssumption
  <2>2. /\ IsBuffer(buffer')
        /\ Contents(buffer') = SubSeq(contents, len + 1, Len(contents))
        /\ IsReset(buffer')
    BY <1>1, <1>7, <2>1, RetrieveLemma DEF RetrieveBytes
  <2>3. contents' = Contents(buffer')
    BY <1>7, <2>2 DEF RetrieveBytes
  <2> QED  BY <2>2, <2>3, ContentsLemma
<1>8. ASSUME NEW eol \in {<<CR, LF>>, <<LF>>}, NEW start \in 0..MaxLen,
             RetrieveLine(eol, start)
      PROVE  /\ IsBuffer(buffer') /\ Contents(buffer') = contents'
             /\ contents' \in Seq(Byte) /\ IsReset(buffer')
  <2>1. eol \in Seq(Byte)
    <3>1. CR \in Byte /\ LF \in Byte
      BY BufferAssumption
    <3>2. <<CR, LF>> \in Seq(Byte) /\ <<LF>> \in Seq(Byte)
      BY <3>1
    <3> QED  BY <3>2
  <2>2. PICK n \in LineEnds(buffer, eol, start) :
          /\ \A m \in LineEnds(buffer, eol, start) : n <= m
          /\ buffer' = retrieve(buffer, n)
          /\ contents' = AfterLine(contents, eol, start)
    BY <1>8 DEF RetrieveLine
  <2>3. /\ n \in Nat
        /\ AfterLine(contents, eol, start) = SubSeq(contents, n + 1, Len(contents))
    BY <1>1, <2>1, <2>2, BufferAssumption, LineLemma
  <2>4. /\ IsBuffer(buffer') /\ IsReset(buffer')
        /\ Contents(buffer') = SubSeq(contents, n + 1, Len(contents))
    BY <1>1, <2>2, <2>3, RetrieveLemma
  <2> QED  BY <2>2, <2>3, <2>4, ContentsLemma
<1>9. CASE UNCHANGED vars
  BY <1>1, <1>9 DEF vars
<1> QED  BY <1>4, <1>5, <1>6, <1>7, <1>8, <1>9 DEF Next

\* The inductive invariant holds in every reachable state.
LEMMA BufferInvariant == Spec => []BufferInv
BY InitEstablishes, NextPreserves, PTL DEF Spec

\* The buffer stays well-formed: the indices are ordered and within the vector.
THEOREM TypeCorrect == Spec => []TypeOK
<1>1. BufferInv => TypeOK
  BY DEF BufferInv
<1> QED  BY <1>1, BufferInvariant, PTL

\* The buffer holds what a queue of bytes would hold: no operation loses,
\* overwrites or misplaces a byte.
THEOREM ContentsAreKept == Spec => []HoldsContents
<1>1. BufferInv => HoldsContents
  BY DEF BufferInv
<1> QED  BY <1>1, BufferInvariant, PTL

\* The assertion of makeSpace() (Buffer.h:300): bytes move down only.
THEOREM BytesMoveDown == Spec => []MovesDown
<1>1. BufferInv => MovesDown
  <2> SUFFICES ASSUME BufferInv, NEW len \in 0..MaxLen,
                      writableBytes(buffer) < len, ~MustGrow(buffer, len)
               PROVE  kCheapPrepend < buffer.reader
    BY DEF MovesDown
  <2>1. len \in Nat /\ IsBuffer(buffer)
    BY BufferAssumption DEF BufferInv, TypeOK
  <2> QED  BY <2>1, CompactsDown
<1> QED  BY <1>1, BufferInvariant, PTL

\* An empty buffer has room for a header.
THEOREM HeaderFits == Spec => []EmptyIsReset
<1>1. BufferInv => EmptyIsReset
  BY DEF BufferInv
<1> QED  BY <1>1, BufferInvariant, PTL
=============================================================================
