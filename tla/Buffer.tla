------------------------------- MODULE Buffer -------------------------------
(***************************************************************************)
(* Buffer as operators on a record: the vector buffer_ (cells) and the     *)
(* offsets readIndex_ and writeIndex_, which count from 0 as in the code.  *)
(***************************************************************************)
EXTENDS Naturals, Sequences

CONSTANTS kCheapPrepend,    \* bytes kept free in front
          kInitialSize,     \* initial size behind them
          kExtraSize        \* sizeof extrabuf in readFd()

ASSUME SizesAssumption == {kCheapPrepend, kInitialSize, kExtraSize} \subseteq Nat

Blank == 0

Blanks(k) == [i \in 1..k |-> Blank]

Buf(cells, read, write) == [cells |-> cells, read |-> read, write |-> write]

NewBuffer == Buf(Blanks(kCheapPrepend + kInitialSize), kCheapPrepend, kCheapPrepend)

ReadableBytes(b) == b.write - b.read
WriteableBytes(b) == Len(b.cells) - b.write
PrependableBytes(b) == b.read

\* The bytes from peek() on.
Readable(b) == SubSeq(b.cells, b.read + 1, b.write)

\* std::copy of data to offset k, where there are bytes to overwrite.
Put(cells, k, data) ==
  SubSeq(cells, 1, k) \o data \o SubSeq(cells, k + Len(data) + 1, Len(cells))

RetrieveAll(b) == Buf(b.cells, kCheapPrepend, kCheapPrepend)

\* retrive()
Retrive(b, len) ==
  IF len < ReadableBytes(b) THEN Buf(b.cells, b.read + len, b.write) ELSE RetrieveAll(b)

Grow(b, len) ==
  Buf(b.cells \o Blanks(b.write + len - Len(b.cells)), b.read, b.write)

MoveToFront(b) ==
  Buf(Put(b.cells, kCheapPrepend, Readable(b)), kCheapPrepend,
      kCheapPrepend + ReadableBytes(b))

MustGrow(b, len) == WriteableBytes(b) + PrependableBytes(b) < len + kCheapPrepend

\* makeSpace()
MakeSpace(b, len) == IF MustGrow(b, len) THEN Grow(b, len) ELSE MoveToFront(b)

\* ensureWriteableBytes()
EnsureWriteable(b, len) == IF WriteableBytes(b) < len THEN MakeSpace(b, len) ELSE b

\* What is written behind writeIndex_, which moves on.
Write(b, data) == Buf(Put(b.cells, b.write, data), b.read, b.write + Len(data))

\* append()
AppendBytes(b, data) == Write(EnsureWriteable(b, Len(data)), data)

\* prepend(), which leaves it to its caller that there is room.
Prepend(b, data) ==
  Buf(Put(b.cells, b.read - Len(data), data), b.read - Len(data), b.write)

\* How many bytes readv() may return to readFd().
MaxRead(b) == WriteableBytes(b) + IF WriteableBytes(b) < kExtraSize THEN kExtraSize ELSE 0

\* Mutant of ReadFd: forgets what went to the second array.
ReadFdCut(b, data) ==
  Write(b, SubSeq(data, 1, IF Len(data) <= WriteableBytes(b) THEN Len(data) ELSE WriteableBytes(b)))

\* Mutant of ReadFd: moves writeIndex_ by all that was read.
ReadFdOverrun(b, data) ==
  Buf(ReadFdCut(b, data).cells, b.read, b.write + Len(data))

\* readFd(), when readv() returns data: what does not fit behind writeIndex_ goes
\* to a second array and is appended.
ReadFd(b, data) ==
  IF Len(data) <= WriteableBytes(b)
  THEN Write(b, data)
  ELSE LET full == Write(b, SubSeq(data, 1, WriteableBytes(b)))
       IN AppendBytes(full, SubSeq(data, WriteableBytes(b) + 1, Len(data)))

\* writeFd(), when write() takes n bytes.
WriteFd(b, n) == Retrive(b, n)
=============================================================================
