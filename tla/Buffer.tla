------------------------------- MODULE Buffer -------------------------------
(***************************************************************************)
(* The byte buffer (tinyev/Buffer.h, Buffer.cc): a vector and two indices. *)
(* What is to be read lies between readerIndex_ and writerIndex_; room in  *)
(* front of it takes headers (prepend), room behind it takes what follows. *)
(* When that is short, makeSpace() moves the bytes to the front or grows   *)
(* the vector; readFd() reads into the vector and an extra block at once.  *)
(*                                                                         *)
(* A Buffer is a record; its operations are operators on records.  The     *)
(* integers are unbounded: lengths stay far from 2^64.  The integer        *)
(* variants of append, prepend and retrieve are those of their sizes.      *)
(*                                                                         *)
(* A definition whose name ends in _Fault is the definition before which   *)
(* it stands with a plausible mistake; no specification uses it.           *)
(***************************************************************************)
EXTENDS Integers, Sequences

CONSTANTS
  Byte,
  Zero,            \* the byte a vector is filled with
  CR, LF,          \* '\r' and '\n'
  kCheapPrepend,
  initialSize,
  extraSize,       \* sizeof extrabuf in readFd()
  MaxLen,          \* the longest argument of an operation
  MaxSize          \* no operation grows the vector beyond

ASSUME BufferAssumption ==
  /\ {Zero, CR, LF} \subseteq Byte
  /\ kCheapPrepend \in Nat /\ initialSize \in Nat /\ extraSize \in Nat
  /\ MaxLen \in Nat /\ MaxSize \in Nat

Buf(size, reader, writer, mem) ==
  [size |-> size, reader |-> reader, writer |-> writer, mem |-> mem]

IsBuffer(b) ==
  /\ b = Buf(b.size, b.reader, b.writer, b.mem)
  /\ b.size \in Nat /\ b.reader \in Nat /\ b.writer \in Nat
  /\ b.mem \in [0..(b.size - 1) -> Byte]
  /\ b.reader <= b.writer /\ b.writer <= b.size /\ kCheapPrepend <= b.size

readableBytes(b) == b.writer - b.reader
writableBytes(b) == b.size - b.writer

\* The bytes from peek() to beginWrite().
Contents(b) == [i \in 1..readableBytes(b) |-> b.mem[b.reader + i - 1]]

New ==
  Buf(kCheapPrepend + initialSize, kCheapPrepend, kCheapPrepend,
      [i \in 0..(kCheapPrepend + initialSize - 1) |-> Zero])

\* The memory once data is copied to position `at`.
Copied(mem, data, at) ==
  [i \in DOMAIN mem |-> IF i \in at..(at + Len(data) - 1)
                        THEN data[i - at + 1] ELSE mem[i]]

Grow(b, n) ==
  Buf(n, b.reader, b.writer,
      [i \in 0..(n - 1) |-> IF i < b.size THEN b.mem[i] ELSE Zero])

\* The bytes move to kCheapPrepend, the first one first: what std::copy does as
\* long as they move down.
Compact(b) ==
  Buf(b.size, kCheapPrepend, kCheapPrepend + readableBytes(b),
      Copied(b.mem, Contents(b), kCheapPrepend))

\* The room kept for a header is counted as room for data.
MustGrow_Fault(b, len) == writableBytes(b) + b.reader < len

MustGrow(b, len) == writableBytes(b) + b.reader < len + kCheapPrepend

makeSpace(b, len) ==
  IF MustGrow(b, len) THEN Grow(b, b.writer + len) ELSE Compact(b)

ensureWritableBytes(b, len) ==
  IF writableBytes(b) < len THEN makeSpace(b, len) ELSE b

\* Data is written where there is room for it.
Fill(b, data) ==
  Buf(b.size, b.reader, b.writer + Len(data), Copied(b.mem, data, b.writer))

append(b, data) == Fill(ensureWritableBytes(b, Len(data)), data)

retrieveAll(b) == Buf(b.size, kCheapPrepend, kCheapPrepend, b.mem)

retrieve(b, len) ==
  IF len < readableBytes(b) THEN Buf(b.size, b.reader + len, b.writer, b.mem)
                            ELSE retrieveAll(b)

\* How many readable bytes there are up to each end of a line that begins at
\* `start` or later: what std::search() looks for with kCRLF, memchr() with '\n'.
LineEnds(b, eol, start) ==
  {n \in (start + Len(eol))..readableBytes(b) :
     \A i \in 1..Len(eol) : b.mem[b.reader + n - Len(eol) + i - 1] = eol[i]}

prepend(b, data) ==
  LET reader == b.reader - Len(data) IN
  Buf(b.size, reader, b.writer, Copied(b.mem, data, reader))

\* The bytes that went into the vector are left out of the count.
readFd_Fault(b, data) ==
  LET writable == writableBytes(b) IN
  IF Len(data) <= writable
  THEN Fill(b, data)
  ELSE append(b, SubSeq(data, writable + 1, Len(data)))

\* readFd() of the data that readv() put into the vector and extrabuf.
readFd(b, data) ==
  LET writable == writableBytes(b) IN
  IF Len(data) <= writable
  THEN Fill(b, data)
  ELSE append(Fill(b, SubSeq(data, 1, writable)),
              SubSeq(data, writable + 1, Len(data)))

\* What readv() may return: extrabuf is not offered when the vector has as much.
Receivable(b) ==
  IF writableBytes(b) < extraSize THEN writableBytes(b) + extraSize
                                  ELSE writableBytes(b)

-----------------------------------------------------------------------------
(* A buffer and what should be in it. *)

VARIABLES buffer,
          contents    \* what a queue of bytes would hold after the same calls

vars == <<buffer, contents>>

Data == UNION {[1..n -> Byte] : n \in 0..MaxLen}

\* A queue of bytes after its first line that ends behind `start`.
EndsIn(seq, eol, start) ==
  {n \in (start + Len(eol))..Len(seq) :
     \A i \in 1..Len(eol) : seq[n - Len(eol) + i] = eol[i]}
AfterLine(seq, eol, start) ==
  LET ends == EndsIn(seq, eol, start)
      n == CHOOSE n \in ends : \A m \in ends : n <= m
  IN IF ends = {} THEN seq ELSE SubSeq(seq, n + 1, Len(seq))

Init ==
  /\ buffer = New
  /\ contents = <<>>

AppendBytes(data) ==
  /\ append(buffer, data).size <= MaxSize
  /\ buffer' = append(buffer, data)
  /\ contents' = contents \o data

\* retrieve(), with more than there is too (the code asserts that it is not
\* asked to, and empties the buffer).
RetrieveBytes(len) ==
  /\ buffer' = retrieve(buffer, len)
  /\ contents' = SubSeq(contents, len + 1, Len(contents))

\* findCRLF() or findEOL(), from peek() or from behind what was searched before,
\* and retrieveUntil() the end of the line: a codec's loop does so for each.
RetrieveLine(eol, start) ==
  /\ start <= readableBytes(buffer)
  /\ \E n \in LineEnds(buffer, eol, start) :
       /\ \A m \in LineEnds(buffer, eol, start) : n <= m
       /\ buffer' = retrieve(buffer, n)
       /\ contents' = AfterLine(contents, eol, start)

\* prepend(), of no more than there is room for.
PrependBytes(data) ==
  /\ Len(data) <= buffer.reader
  /\ buffer' = prepend(buffer, data)
  /\ contents' = data \o contents

ReadBytes(data) ==
  /\ Len(data) <= Receivable(buffer)
  /\ readFd(buffer, data).size <= MaxSize
  /\ buffer' = readFd(buffer, data)
  /\ contents' = contents \o data

Next ==
  \/ \E data \in Data :
       AppendBytes(data) \/ PrependBytes(data) \/ ReadBytes(data)
  \/ \E len \in 0..MaxLen : RetrieveBytes(len)
  \/ \E eol \in {<<CR, LF>>, <<LF>>}, start \in 0..MaxLen :
       RetrieveLine(eol, start)

Spec == Init /\ [][Next]_vars

-----------------------------------------------------------------------------
(* Properties. *)

\* The indices stay ordered and within the vector.
TypeOK == IsBuffer(buffer) /\ contents \in Seq(Byte)

\* The buffer holds what a queue of bytes would hold after the same calls:
\* nothing is lost, overwritten, moved to the wrong place or put beside the
\* vector when it compacts, grows or reads into both blocks.
HoldsContents == IsBuffer(buffer) /\ Contents(buffer) = contents

\* When makeSpace() moves the bytes it moves them down (Buffer.h:300 asserts it;
\* std::copy would destroy bytes that move up), also when a header has been put
\* in front of kCheapPrepend.
MovesDown ==
  \A len \in 0..MaxLen :
    writableBytes(buffer) < len /\ ~MustGrow(buffer, len) =>
      kCheapPrepend < buffer.reader

\* An empty buffer has kCheapPrepend bytes of room for a header, whatever was
\* prepended, partly read and moved before: a codec may append a message and
\* then prepend its length.
EmptyIsReset ==
  buffer.reader = buffer.writer => buffer.reader = kCheapPrepend
=============================================================================
