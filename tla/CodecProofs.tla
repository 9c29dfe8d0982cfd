---------------------------- MODULE CodecProofs ----------------------------
(***************************************************************************)
(* Proofs about Buffer and Codec for any sizes, messages and cuts of the   *)
(* stream: a buffer is a queue of bytes whatever it does with its vector,  *)
(* both buffers of a connection stay within theirs, a length is read as it *)
(* was written, and what is delivered is what was sent.                    *)
(***************************************************************************)
EXTENDS Codec, SequenceTheorems, WellFoundedInduction, TLAPS

-----------------------------------------------------------------------------
(* Induction over numbers, and functions defined by recursion.              *)

\* A set of numbers that holds lo, and with a number below hi the next one, holds all
\* from lo to hi: induction, from the library's fact that < is well-founded.
LEMMA FromLoToHi ==
  ASSUME NEW T, NEW lo \in Nat, NEW hi \in Nat, lo \in T,
         \A i \in lo..(hi - 1) : i \in T => i + 1 \in T
  PROVE  \A i \in lo..hi : i \in T
<1> DEFINE F == {i \in lo..hi : i \notin T}
<1> SUFFICES ASSUME F # {}
             PROVE  FALSE
  OBVIOUS
<1>1. PICK R : R = {p \in Nat \X Nat : p[1] < p[2]}
  OBVIOUS
<1>2. \A x, y \in Nat : y < x => <<y, x>> \in R
  BY <1>1
<1>3. IsWellFoundedOn(R, Nat)
  BY <1>1, NatLessThanWellFounded DEF OpToRel
<1>4. F \subseteq Nat
  OBVIOUS
<1> HIDE DEF F
<1>5. PICK x \in F : \A y \in F : ~(<<y, x>> \in R)
  BY <1>3, <1>4, WFMin
<1>6. x \in Nat /\ x \in lo..hi /\ x \notin T
  BY <1>5 DEF F
<1>7. x - 1 \in Nat /\ x - 1 \in lo..(hi - 1) /\ x - 1 \in lo..hi /\ x - 1 < x /\ (x - 1) + 1 = x
  BY <1>6
<1>8. x - 1 \notin T
  BY <1>6, <1>7
<1>9. x - 1 \in F
  BY <1>7, <1>8 DEF F
<1> QED  BY <1>2, <1>5, <1>6, <1>7, <1>9

\* What the next two lemmas are about: a function of the numbers from lo to hi that is
\* defined from its value at the number before, by a step that stays in S.
StartsAndSteps(f, lo, hi, a, step) ==
  f[lo] = a /\ \A i \in (lo + 1)..hi : f[i] = step[<<i, f[i - 1]>>]
StepsStayIn(S, lo, hi, step) == \A i \in (lo + 1)..hi : \A x \in S : step[<<i, x>>] \in S

\* A function of numbers may be defined from its value at the number before.
LEMMA Recursion ==
  ASSUME NEW S, NEW lo \in Nat, NEW hi \in Nat, lo <= hi, NEW a \in S, NEW step,
         StepsStayIn(S, lo, hi, step)
  PROVE  \E f \in [lo..hi -> S] : StartsAndSteps(f, lo, hi, a, step)
<1> DEFINE Good(f, n) ==
             /\ f \in [lo..n -> S]
             /\ f[lo] = a
             /\ \A i \in (lo + 1)..n : f[i] = step[<<i, f[i - 1]>>]
           T == {n \in lo..hi : \E f : Good(f, n)}
<1>1. lo \in T
  <2>1. Good([i \in lo..lo |-> a], lo)
    OBVIOUS
  <2> HIDE DEF Good
  <2> QED  BY <2>1
<1>2. ASSUME NEW n \in lo..(hi - 1), n \in T
      PROVE  n + 1 \in T
  <2>1. PICK f : Good(f, n)
    BY <1>2
  <2> DEFINE g == [i \in lo..(n + 1) |-> IF i = n + 1 THEN step[<<n + 1, f[n]>>] ELSE f[i]]
  <2>2. n \in Nat /\ n + 1 \in (lo + 1)..hi /\ n \in lo..n /\ n + 1 \in lo..hi
    OBVIOUS
  <2>3. f[n] \in S
    BY <2>1, <2>2
  <2>4. step[<<n + 1, f[n]>>] \in S
    BY <2>2, <2>3 DEF StepsStayIn
  <2>5. g \in [lo..(n + 1) -> S]
    <3>1. \A i \in lo..(n + 1) : i # n + 1 => i \in lo..n
      BY <2>2
    <3> QED  BY <2>1, <2>4, <3>1
  <2>6. g[lo] = a
    BY <2>1, <2>2
  <2>7. ASSUME NEW i \in (lo + 1)..(n + 1)
        PROVE  g[i] = step[<<i, g[i - 1]>>]
    <3>1. CASE i = n + 1
      <4>1. i - 1 = n /\ n # n + 1 /\ n \in lo..(n + 1) /\ i \in lo..(n + 1)
        BY <2>2, <3>1
      <4>2. g[i] = step[<<n + 1, f[n]>>] /\ g[n] = f[n]
        BY <3>1, <4>1
      <4> HIDE DEF g
      <4> QED  BY <3>1, <4>1, <4>2
    <3>2. CASE i # n + 1
      <4>1. /\ i \in (lo + 1)..n /\ i \in lo..(n + 1) /\ i - 1 \in lo..(n + 1)
            /\ i - 1 # n + 1
        BY <2>2, <3>2
      <4>2. g[i] = f[i] /\ g[i - 1] = f[i - 1]
        BY <3>2, <4>1
      <4> HIDE DEF g
      <4> QED  BY <2>1, <4>1, <4>2
    <3> QED  BY <3>1, <3>2
  <2> HIDE DEF g
  <2>8. Good(g, n + 1)
    BY <2>5, <2>6, <2>7
  <2> HIDE DEF Good
  <2> QED  BY <2>2, <2>8
<1> HIDE DEF T
<1>3. hi \in T
  <2>1. hi \in lo..hi
    OBVIOUS
  <2> QED  BY <1>1, <1>2, <2>1, FromLoToHi
<1> QED  BY <1>3 DEF T, StartsAndSteps

-----------------------------------------------------------------------------
(* Facts about buffers.                                                    *)

\* What a new vector is filled with is a byte.
LEMMA BlankIsByte == Blank \in Byte
  BY BaseAssumption DEF Blank, Byte

\* A slice of a vector, as Readable is.
LEMMA Slice ==
  ASSUME NEW cells \in Seq(Byte), NEW r \in Nat, NEW w \in Nat, r <= w, w <= Len(cells)
  PROVE  /\ SubSeq(cells, r + 1, w) \in Seq(Byte)
         /\ Len(SubSeq(cells, r + 1, w)) = w - r
         /\ \A i \in 1..(w - r) : SubSeq(cells, r + 1, w)[i] = cells[r + i]
<1>1. \A i \in (r + 1)..w : cells[i] \in Byte
  BY ElementOfSeq, LenProperties
<1>2. /\ SubSeq(cells, r + 1, w) \in Seq(Byte)
      /\ Len(SubSeq(cells, r + 1, w)) = IF r + 1 <= w THEN w - (r + 1) + 1 ELSE 0
      /\ \A i \in 1..(w - (r + 1) + 1) : SubSeq(cells, r + 1, w)[i] = cells[r + 1 + i - 1]
  BY <1>1, SubSeqProperties
<1>3. \A i \in 1..(w - r) : SubSeq(cells, r + 1, w)[i] = cells[r + i]
  <2> SUFFICES ASSUME NEW i \in 1..(w - r)
               PROVE  SubSeq(cells, r + 1, w)[i] = cells[r + i]
    OBVIOUS
  <2>1. i \in 1..(w - (r + 1) + 1) /\ r + 1 + i - 1 = r + i
    OBVIOUS
  <2> QED  BY <1>2, <2>1
<1> QED  BY <1>2, <1>3

\* Copying into a vector changes only the bytes it covers.
LEMMA PutKeepsSize ==
  ASSUME NEW cells \in Seq(Byte), NEW k \in Nat, NEW data \in Seq(Byte),
         k + Len(data) <= Len(cells)
  PROVE  /\ Put(cells, k, data) \in Seq(Byte)
         /\ Len(Put(cells, k, data)) = Len(cells)
         /\ \A i \in 1..Len(cells) :
              Put(cells, k, data)[i] =
                IF i \in (k + 1)..(k + Len(data)) THEN data[i - k] ELSE cells[i]
<1> DEFINE n == Len(data)
           L == Len(cells)
           first == SubSeq(cells, 0 + 1, k)
           rest == SubSeq(cells, (k + n) + 1, L)
           front == first \o data
           p == front \o rest
<1>1. n \in Nat /\ L \in Nat /\ k + n \in Nat /\ k + n <= L /\ k <= L
  BY LenProperties
<1> HIDE DEF n, L
<1>2. /\ first \in Seq(Byte) /\ Len(first) = k
      /\ \A i \in 1..k : first[i] = cells[i]
  <2>1. /\ first \in Seq(Byte) /\ Len(first) = k - 0
        /\ \A i \in 1..(k - 0) : first[i] = cells[0 + i]
    <3>1. 0 \in Nat /\ 0 <= k /\ k <= Len(cells)
      BY <1>1 DEF L
    <3> QED  BY <3>1, Slice, Zenon
  <2> HIDE DEF first
  <2> QED  BY <2>1
<1>3. /\ rest \in Seq(Byte) /\ Len(rest) = L - (k + n)
      /\ \A i \in 1..(L - (k + n)) : rest[i] = cells[(k + n) + i]
  BY <1>1, Slice DEF L
<1> HIDE DEF first, rest
<1>4. /\ front \in Seq(Byte) /\ Len(front) = k + n
      /\ \A i \in 1..(k + n) : front[i] = IF i <= k THEN first[i] ELSE data[i - k]
  BY <1>2, ConcatProperties DEF n
<1> HIDE DEF front
<1>5. /\ p \in Seq(Byte) /\ Len(p) = (k + n) + (L - (k + n))
      /\ \A i \in 1..((k + n) + (L - (k + n))) :
           p[i] = IF i <= k + n THEN front[i] ELSE rest[i - (k + n)]
  <2>1. /\ p \in Seq(Byte) /\ Len(p) = Len(front) + Len(rest)
        /\ \A i \in 1..(Len(front) + Len(rest)) :
             p[i] = IF i <= Len(front) THEN front[i] ELSE rest[i - Len(front)]
    <3>1. front \in Seq(Byte) /\ rest \in Seq(Byte)
      BY <1>3, <1>4
    <3> QED  BY <3>1, ConcatProperties, Zenon
  <2>2. Len(front) = k + n /\ Len(rest) = L - (k + n)
    BY <1>3, <1>4
  <2> HIDE DEF p
  <2> QED  BY <2>1, <2>2, Zenon
<1>6. p = Put(cells, k, data)
  <2>1. 0 + 1 = 1
    OBVIOUS
  <2>2. SubSeq(cells, 1, k) = first
    BY <2>1 DEF first
  <2> QED  BY <2>2 DEF p, front, rest, Put, n, L
<1> HIDE DEF p
<1>7. p \in Seq(Byte) /\ Len(p) = L
  BY <1>1, <1>5
<1>8. ASSUME NEW i \in 1..L
      PROVE  p[i] = IF i \in (k + 1)..(k + n) THEN data[i - k] ELSE cells[i]
  <2>0. i \in 1..((k + n) + (L - (k + n)))
    BY <1>1
  <2>1. CASE i <= k
    <3>1. i \in 1..k /\ i \in 1..(k + n) /\ i <= k + n /\ i \notin (k + 1)..(k + n)
      BY <1>1, <2>1
    <3> QED  BY <1>2, <1>4, <1>5, <2>0, <2>1, <3>1
  <2>2. CASE k < i /\ i <= k + n
    <3>1. i \in 1..(k + n) /\ ~(i <= k) /\ i \in (k + 1)..(k + n)
      BY <1>1, <2>2
    <3> QED  BY <1>4, <1>5, <2>0, <2>2, <3>1
  <2>3. CASE k + n < i
    <3>1. /\ i - (k + n) \in 1..(L - (k + n)) /\ ~(i <= k + n)
          /\ i \notin (k + 1)..(k + n) /\ (k + n) + (i - (k + n)) = i
      BY <1>1, <2>3
    <3> QED  BY <1>3, <1>5, <2>0, <3>1
  <2> QED  BY <1>1, <2>1, <2>2, <2>3
<1> QED  BY <1>6, <1>7, <1>8 DEF n, L

\* A vector of k new bytes.
LEMMA BlanksType ==
  ASSUME NEW k \in Nat
  PROVE  Blanks(k) \in Seq(Byte) /\ Len(Blanks(k)) = k
<1>1. Blanks(k) \in [1..k -> Byte]
  BY BlankIsByte DEF Blanks
<1>2. Blanks(k) \in Seq(Byte)
  BY <1>1, SeqDef
<1> QED  BY <1>1, <1>2, LenProperties

\* A slice of a slice.
LEMMA SliceOfSlice ==
  ASSUME NEW cells \in Seq(Byte), NEW r \in Nat, NEW w \in Nat, r <= w, w <= Len(cells),
         NEW n \in 0..(w - r)
  PROVE  SubSeq(cells, (r + n) + 1, w) = SubSeq(SubSeq(cells, r + 1, w), n + 1, w - r)
<1> DEFINE s == SubSeq(cells, r + 1, w)
           t == SubSeq(s, n + 1, w - r)
           u == SubSeq(cells, (r + n) + 1, w)
<1>1. /\ s \in Seq(Byte) /\ Len(s) = w - r
      /\ \A i \in 1..(w - r) : s[i] = cells[r + i]
  BY Slice
<1>2. w - r \in Nat /\ n \in Nat /\ r + n \in Nat /\ r + n <= w /\ n <= w - r
  OBVIOUS
<1>3. /\ t \in Seq(Byte) /\ Len(t) = (w - r) - n
      /\ \A i \in 1..((w - r) - n) : t[i] = s[n + i]
  <2> HIDE DEF s
  <2>1. s \in Seq(Byte) /\ n \in Nat /\ w - r \in Nat /\ n <= w - r /\ w - r <= Len(s)
    BY <1>1, <1>2
  <2> QED  BY <2>1, Slice, Zenon
<1>4. /\ u \in Seq(Byte) /\ Len(u) = w - (r + n)
      /\ \A i \in 1..(w - (r + n)) : u[i] = cells[(r + n) + i]
  BY <1>2, Slice
<1>5. \A i \in 1..Len(u) : u[i] = t[i]
  <2> SUFFICES ASSUME NEW i \in 1..(w - (r + n))
               PROVE  u[i] = t[i]
    BY <1>4
  <2>1. i \in 1..((w - r) - n) /\ n + i \in 1..(w - r) /\ (r + n) + i = r + (n + i)
    BY <1>2
  <2> HIDE DEF s, t, u
  <2> QED  BY <1>1, <1>3, <1>4, <2>1
<1> HIDE DEF s, t, u
<1>6. Len(u) = Len(t)
  BY <1>2, <1>3, <1>4
<1>7. u = t
  BY <1>3, <1>4, <1>5, <1>6, SeqEqual
<1> QED  BY <1>7 DEF s, t, u

\* A slice is longer by what is put behind it.
LEMMA SliceOfPut ==
  ASSUME NEW cells \in Seq(Byte), NEW r \in Nat, NEW w \in Nat, NEW data \in Seq(Byte),
         r <= w, w + Len(data) <= Len(cells)
  PROVE  SubSeq(Put(cells, w, data), r + 1, w + Len(data)) = SubSeq(cells, r + 1, w) \o data
<1> DEFINE n == Len(data)
           p == Put(cells, w, data)
           s == SubSeq(cells, r + 1, w)
           u == SubSeq(p, r + 1, w + n)
<1>1. n \in Nat /\ Len(cells) \in Nat /\ w + n \in Nat /\ r <= w + n /\ w <= Len(cells)
  BY LenProperties
<1>2. /\ p \in Seq(Byte) /\ Len(p) = Len(cells)
      /\ \A i \in 1..Len(cells) :
           p[i] = IF i \in (w + 1)..(w + n) THEN data[i - w] ELSE cells[i]
  BY PutKeepsSize
<1>3. /\ s \in Seq(Byte) /\ Len(s) = w - r
      /\ \A i \in 1..(w - r) : s[i] = cells[r + i]
  BY <1>1, Slice
<1> HIDE DEF p, s
<1>4. /\ u \in Seq(Byte) /\ Len(u) = (w + n) - r
      /\ \A i \in 1..((w + n) - r) : u[i] = p[r + i]
  BY <1>1, <1>2, Slice
<1> HIDE DEF u
<1>5. /\ s \o data \in Seq(Byte) /\ Len(s \o data) = Len(s) + n
      /\ \A i \in 1..(Len(s) + n) :
           (s \o data)[i] = IF i <= Len(s) THEN s[i] ELSE data[i - Len(s)]
  BY <1>3, ConcatProperties
<1> HIDE DEF n
<1>6. Len(u) = Len(s \o data)
  BY <1>1, <1>3, <1>4, <1>5
<1>7. \A i \in 1..Len(u) : u[i] = (s \o data)[i]
  <2> SUFFICES ASSUME NEW i \in 1..((w + n) - r)
               PROVE  u[i] = (s \o data)[i]
    BY <1>4
  <2>1. i \in 1..(Len(s) + n) /\ r + i \in 1..Len(cells)
    BY <1>1, <1>3, n = Len(data) DEF n
  <2>2. CASE i <= w - r
    <3>1. r + i \notin (w + 1)..(w + n) /\ i \in 1..(w - r)
      BY <1>1, <2>2
    <3>2. p[r + i] = cells[r + i]
      BY <1>2, <2>1, <3>1
    <3> QED  BY <1>3, <1>4, <1>5, <2>1, <2>2, <3>1, <3>2
  <2>3. CASE ~(i <= w - r)
    <3>1. r + i \in (w + 1)..(w + n) /\ (r + i) - w = i - (w - r)
      BY <1>1, <2>3
    <3>2. p[r + i] = data[i - (w - r)]
      BY <1>2, <2>1, <3>1
    <3> QED  BY <1>3, <1>4, <1>5, <2>1, <2>3, <3>2
  <2> QED  BY <2>2, <2>3
<1>8. u = s \o data
  BY <1>4, <1>5, <1>6, <1>7, SeqEqual
<1> QED  BY <1>8 DEF u, s, p, n

\* A slice does not see what is put behind the vector.
LEMMA SliceOfConcat ==
  ASSUME NEW cells \in Seq(Byte), NEW r \in Nat, NEW w \in Nat, NEW more \in Seq(Byte),
         r <= w, w <= Len(cells)
  PROVE  SubSeq(cells \o more, r + 1, w) = SubSeq(cells, r + 1, w)
<1> DEFINE c == cells \o more
           s == SubSeq(cells, r + 1, w)
           u == SubSeq(c, r + 1, w)
<1>1. /\ c \in Seq(Byte) /\ Len(c) = Len(cells) + Len(more)
      /\ \A i \in 1..(Len(cells) + Len(more)) :
           c[i] = IF i <= Len(cells) THEN cells[i] ELSE more[i - Len(cells)]
      /\ Len(cells) \in Nat /\ Len(more) \in Nat
  BY ConcatProperties, LenProperties
<1> HIDE DEF c
<1>2. w <= Len(c)
  BY <1>1
<1>3. /\ s \in Seq(Byte) /\ Len(s) = w - r
      /\ \A i \in 1..(w - r) : s[i] = cells[r + i]
  BY Slice
<1>4. /\ u \in Seq(Byte) /\ Len(u) = w - r
      /\ \A i \in 1..(w - r) : u[i] = c[r + i]
  BY <1>1, <1>2, Slice
<1> HIDE DEF s, u
<1>5. \A i \in 1..(w - r) : c[r + i] = cells[r + i]
  BY <1>1
<1>6. \A i \in 1..Len(u) : u[i] = s[i]
  BY <1>3, <1>4, <1>5
<1>7. u = s
  BY <1>3, <1>4, <1>6, SeqEqual
<1> QED  BY <1>7 DEF u, s, c
-----------------------------------------------------------------------------
(* A buffer is a queue of bytes.                                           *)

\* The library's fact, in a form that the provers instantiate in any context.
LEMMA Associates == \A s, t, u \in Seq(Byte) : (s \o t) \o u = s \o (t \o u)
  BY ConcatAssociative

\* Three sequences come together in either order: named, so that a proof among many
\* other sequences need not look for the three.
Groups(s, t, u) == (s \o t) \o u = s \o (t \o u)

LEMMA AlwaysGroups == \A s, t, u \in Seq(Byte) : Groups(s, t, u)
  BY Associates, Zenon DEF Groups

\* What a buffer says of its fields, without arithmetic to do again.
LEMMA BufferFacts ==
  ASSUME NEW b, IsBuffer(b)
  PROVE  /\ b.cells \in Seq(Byte) /\ b.read \in Nat /\ b.write \in Nat /\ Len(b.cells) \in Nat
         /\ kCheapPrepend \in Nat /\ kCheapPrepend <= b.read
         /\ b.read <= b.write /\ b.write <= Len(b.cells)
         /\ ReadableBytes(b) = b.write - b.read /\ ReadableBytes(b) \in Nat
         /\ WriteableBytes(b) = Len(b.cells) - b.write /\ WriteableBytes(b) \in Nat
<1>1. b.cells \in Seq(Byte) /\ b.read \in Nat /\ b.write \in Nat
  BY DEF IsBuffer
<1>2. Len(b.cells) \in Nat
  BY <1>1, LenProperties
<1> QED  BY <1>1, <1>2, SizesAssumption DEF IsBuffer, ReadableBytes, WriteableBytes

\* Fields in order make a buffer.
LEMMA BufIsBuffer ==
  ASSUME NEW cells \in Seq(Byte), NEW r \in Nat, NEW w \in Nat,
         kCheapPrepend <= r, r <= w, w <= Len(cells)
  PROVE  /\ IsBuffer(Buf(cells, r, w))
         /\ Buf(cells, r, w).cells = cells /\ Buf(cells, r, w).read = r
         /\ Buf(cells, r, w).write = w
  BY DEF IsBuffer, Buf

\* The readable bytes are as many as the offsets say.
LEMMA ReadableType ==
  ASSUME NEW b, IsBuffer(b)
  PROVE  Readable(b) \in Seq(Byte) /\ Len(Readable(b)) = ReadableBytes(b)
  BY BufferFacts, Slice DEF Readable, ReadableBytes

\* A new buffer is one, and empty.
LEMMA NewBufferType ==
  IsBuffer(NewBuffer) /\ ReadableBytes(NewBuffer) = 0 /\ Readable(NewBuffer) = <<>>
<1>1. kCheapPrepend \in Nat /\ kCheapPrepend + kInitialSize \in Nat
  BY SizesAssumption
<1>2. kCheapPrepend <= kCheapPrepend + kInitialSize
  BY SizesAssumption
<1>3. /\ IsBuffer(NewBuffer)
      /\ NewBuffer.read = kCheapPrepend /\ NewBuffer.write = kCheapPrepend
  BY <1>1, <1>2, BlanksType, BufIsBuffer DEF NewBuffer
<1>4. ReadableBytes(NewBuffer) = 0
  BY <1>1, <1>3 DEF ReadableBytes
<1> QED  BY <1>3, <1>4, ReadableType, EmptySeq

\* retrive() takes bytes from the front, and no others.
THEOREM RetriveDrops ==
  ASSUME NEW b, IsBuffer(b), NEW len \in 0..ReadableBytes(b)
  PROVE  /\ IsBuffer(Retrive(b, len))
         /\ ReadableBytes(Retrive(b, len)) = ReadableBytes(b) - len
         /\ Readable(Retrive(b, len)) = SubSeq(Readable(b), len + 1, ReadableBytes(b))
<1>0. /\ b.cells \in Seq(Byte) /\ b.read \in Nat /\ b.write \in Nat /\ Len(b.cells) \in Nat
      /\ kCheapPrepend \in Nat /\ kCheapPrepend <= b.read
      /\ b.read <= b.write /\ b.write <= Len(b.cells)
      /\ ReadableBytes(b) = b.write - b.read /\ ReadableBytes(b) \in Nat
      /\ WriteableBytes(b) = Len(b.cells) - b.write /\ WriteableBytes(b) \in Nat
  BY BufferFacts
<1>1. CASE len < ReadableBytes(b)
  <2>1. Retrive(b, len) = Buf(b.cells, b.read + len, b.write)
    BY <1>1 DEF Retrive
  <2>2. /\ b.read + len \in Nat /\ kCheapPrepend <= b.read + len /\ b.read + len <= b.write
        /\ len \in 0..(b.write - b.read)
    BY <1>1, <1>0
  <2>3. /\ IsBuffer(Retrive(b, len))
        /\ Retrive(b, len).cells = b.cells /\ Retrive(b, len).read = b.read + len
        /\ Retrive(b, len).write = b.write
    <3>1. /\ b.cells \in Seq(Byte) /\ b.write \in Nat /\ b.write <= Len(b.cells)
      BY <1>0
    <3> QED  BY <2>1, <2>2, <3>1, BufIsBuffer
  <2>4. ReadableBytes(Retrive(b, len)) = ReadableBytes(b) - len
    BY <2>2, <2>3, <1>0 DEF ReadableBytes
  <2>5. SubSeq(b.cells, (b.read + len) + 1, b.write)
          = SubSeq(SubSeq(b.cells, b.read + 1, b.write), len + 1, b.write - b.read)
    BY <2>2, <1>0, SliceOfSlice
  <2> QED  BY <2>3, <2>4, <2>5 DEF Readable, ReadableBytes
<1>2. CASE ~(len < ReadableBytes(b))
  <2>1. Retrive(b, len) = Buf(b.cells, kCheapPrepend, kCheapPrepend)
    BY <1>2 DEF Retrive, RetrieveAll
  <2>2. len = ReadableBytes(b) /\ kCheapPrepend <= Len(b.cells)
    BY <1>2, <1>0
  <2>3. /\ IsBuffer(Retrive(b, len))
        /\ Retrive(b, len).read = kCheapPrepend /\ Retrive(b, len).write = kCheapPrepend
    BY <2>1, <2>2, <1>0, BufIsBuffer
  <2>4. ReadableBytes(Retrive(b, len)) = 0
    BY <2>3, <1>0 DEF ReadableBytes
  <2>5. Readable(Retrive(b, len)) = <<>>
    BY <2>3, <2>4, ReadableType, EmptySeq
  <2>6. SubSeq(Readable(b), len + 1, ReadableBytes(b)) = <<>>
    BY <2>2, <1>0, SubSeqEmpty
  <2> QED  BY <2>2, <2>3, <2>4, <2>5, <2>6, <1>0
<1> QED  BY <1>1, <1>2

\* Where there is room behind writeIndex_, bytes are written there.
LEMMA WriteAppends ==
  ASSUME NEW b, IsBuffer(b), NEW data \in Seq(Byte), Len(data) <= WriteableBytes(b)
  PROVE  /\ IsBuffer(Write(b, data))
         /\ Readable(Write(b, data)) = Readable(b) \o data
         /\ WriteableBytes(Write(b, data)) = WriteableBytes(b) - Len(data)
<1>0. /\ b.cells \in Seq(Byte) /\ b.read \in Nat /\ b.write \in Nat /\ Len(b.cells) \in Nat
      /\ kCheapPrepend \in Nat /\ kCheapPrepend <= b.read
      /\ b.read <= b.write /\ b.write <= Len(b.cells)
      /\ ReadableBytes(b) = b.write - b.read /\ ReadableBytes(b) \in Nat
      /\ WriteableBytes(b) = Len(b.cells) - b.write /\ WriteableBytes(b) \in Nat
  BY BufferFacts
<1>1. Len(data) \in Nat /\ b.write + Len(data) \in Nat /\ b.write + Len(data) <= Len(b.cells)
      /\ b.read <= b.write + Len(data)
  <2> DEFINE l == Len(data)
             n == Len(b.cells)
             r == b.read
             w == b.write
  <2>1. l \in Nat /\ n \in Nat /\ r \in Nat /\ w \in Nat
    BY <1>0, LenProperties
  <2>2. r <= w /\ l <= n - w
    BY <1>0, Zenon
  <2> HIDE DEF l, n, r, w
  <2>3. l \in Nat /\ w + l \in Nat /\ w + l <= n /\ r <= w + l
    BY <2>1, <2>2
  <2> QED  BY <2>3 DEF l, n, r, w
<1>2. /\ Put(b.cells, b.write, data) \in Seq(Byte)
      /\ Len(Put(b.cells, b.write, data)) = Len(b.cells)
  BY <1>0, PutKeepsSize
<1>3. /\ IsBuffer(Write(b, data))
      /\ Write(b, data).cells = Put(b.cells, b.write, data)
      /\ Write(b, data).read = b.read /\ Write(b, data).write = b.write + Len(data)
  <2> DEFINE p == Put(b.cells, b.write, data)
             w == b.write + Len(data)
  <2>1. Write(b, data) = Buf(p, b.read, w)
    BY DEF Write
  <2>2. /\ p \in Seq(Byte) /\ b.read \in Nat /\ w \in Nat /\ Len(p) = Len(b.cells)
        /\ kCheapPrepend <= b.read /\ b.read <= w /\ w <= Len(b.cells)
    BY <1>0, <1>1, <1>2, Zenon
  <2> HIDE DEF p, w
  <2>3. /\ IsBuffer(Buf(p, b.read, w)) /\ Buf(p, b.read, w).cells = p
        /\ Buf(p, b.read, w).read = b.read /\ Buf(p, b.read, w).write = w
    BY <2>2, BufIsBuffer
  <2> QED  BY <2>1, <2>3 DEF p, w
<1>4. SubSeq(Put(b.cells, b.write, data), b.read + 1, b.write + Len(data))
        = SubSeq(b.cells, b.read + 1, b.write) \o data
  <2>1. /\ b.cells \in Seq(Byte) /\ b.read \in Nat /\ b.write \in Nat
        /\ b.read <= b.write /\ b.write + Len(data) <= Len(b.cells)
    BY <1>0, <1>1
  <2> QED  BY <2>1, SliceOfPut, Zenon
<1>5. WriteableBytes(Write(b, data)) = WriteableBytes(b) - Len(data)
  <2> DEFINE W == Write(b, data)
  <2> HIDE DEF W
  <2>1. WriteableBytes(W) = Len(W.cells) - W.write
    BY DEF WriteableBytes
  <2>2. Len(W.cells) = Len(b.cells) /\ W.write = b.write + Len(data)
    BY <1>2, <1>3 DEF W
  <2>3. WriteableBytes(W) = WriteableBytes(b) - Len(data)
    BY <1>0, <1>1, <2>1, <2>2
  <2> QED  BY <2>3 DEF W
<1> QED  BY <1>3, <1>4, <1>5 DEF Readable

\* Both ways of makeSpace() keep the readable bytes, and give room enough.
LEMMA MakeSpaceKeeps ==
  ASSUME NEW b, IsBuffer(b), NEW len \in Nat, WriteableBytes(b) < len
  PROVE  /\ IsBuffer(MakeSpace(b, len))
         /\ Readable(MakeSpace(b, len)) = Readable(b)
         /\ len <= WriteableBytes(MakeSpace(b, len))
<1>0. /\ b.cells \in Seq(Byte) /\ b.read \in Nat /\ b.write \in Nat /\ Len(b.cells) \in Nat
      /\ kCheapPrepend \in Nat /\ kCheapPrepend <= b.read
      /\ b.read <= b.write /\ b.write <= Len(b.cells)
      /\ ReadableBytes(b) = b.write - b.read /\ ReadableBytes(b) \in Nat
      /\ WriteableBytes(b) = Len(b.cells) - b.write /\ WriteableBytes(b) \in Nat
  BY BufferFacts
<1> DEFINE k == b.write + len - Len(b.cells)
<1>1. CASE MustGrow(b, len)
  <2>1. k \in Nat
    BY <1>0
  <2>2. Blanks(k) \in Seq(Byte) /\ Len(Blanks(k)) = k
    BY <2>1, BlanksType
  <2>3. MakeSpace(b, len) = Buf(b.cells \o Blanks(k), b.read, b.write)
    BY <1>1 DEF MakeSpace, Grow
  <2> HIDE DEF k
  <2>4. /\ b.cells \o Blanks(k) \in Seq(Byte)
        /\ Len(b.cells \o Blanks(k)) = Len(b.cells) + k
    <3>1. b.cells \in Seq(Byte) /\ Blanks(k) \in Seq(Byte) /\ Len(Blanks(k)) = k
      BY <2>2, <1>0
    <3>2. /\ b.cells \o Blanks(k) \in Seq(Byte)
          /\ Len(b.cells \o Blanks(k)) = Len(b.cells) + Len(Blanks(k))
      BY <3>1, ConcatProperties, Zenon
    <3> QED  BY <3>1, <3>2, Zenon
  <2>5. b.write <= Len(b.cells \o Blanks(k))
    BY <2>1, <2>4, <1>0
  <2>6. /\ IsBuffer(MakeSpace(b, len))
        /\ MakeSpace(b, len).cells = b.cells \o Blanks(k)
        /\ MakeSpace(b, len).read = b.read /\ MakeSpace(b, len).write = b.write
    <3> DEFINE c == b.cells \o Blanks(k)
    <3> HIDE DEF c
    <3>1. c \in Seq(Byte) /\ b.write <= Len(c)
      BY <2>4, <2>5 DEF c
    <3>2. MakeSpace(b, len) = Buf(c, b.read, b.write)
      BY <2>3 DEF c
    <3>3. /\ IsBuffer(MakeSpace(b, len))
          /\ MakeSpace(b, len).cells = c
          /\ MakeSpace(b, len).read = b.read /\ MakeSpace(b, len).write = b.write
      BY <1>0, <3>1, <3>2, BufIsBuffer
    <3> QED  BY <3>3 DEF c
  <2>7. SubSeq(b.cells \o Blanks(k), b.read + 1, b.write) = SubSeq(b.cells, b.read + 1, b.write)
    <3>1. /\ b.cells \in Seq(Byte) /\ b.read \in Nat /\ b.write \in Nat
          /\ Blanks(k) \in Seq(Byte) /\ b.read <= b.write /\ b.write <= Len(b.cells)
      BY <2>2, <1>0
    <3> QED  BY <3>1, SliceOfConcat, Zenon
  <2>8. WriteableBytes(MakeSpace(b, len)) = len
    <3> DEFINE M == MakeSpace(b, len)
    <3> HIDE DEF M
    <3>1. WriteableBytes(M) = Len(M.cells) - M.write
      BY DEF WriteableBytes
    <3>2. Len(M.cells) = Len(b.cells) + k /\ M.write = b.write
      BY <2>4, <2>6 DEF M
    <3>3. Len(b.cells) + k = b.write + len
      BY <1>0 DEF k
    <3>4. WriteableBytes(M) = len
      BY <1>0, <3>1, <3>2, <3>3
    <3> QED  BY <3>4 DEF M
  <2>9. Readable(MakeSpace(b, len)) = Readable(b)
    BY <2>6, <2>7 DEF Readable
  <2> QED  BY <2>6, <2>8, <2>9
<1>2. CASE ~MustGrow(b, len)
  <2> DEFINE s == Readable(b)
             p == Put(b.cells, kCheapPrepend, s)
             w == kCheapPrepend + ReadableBytes(b)
  <2>1. s \in Seq(Byte) /\ Len(s) = ReadableBytes(b)
    BY ReadableType
  <2>3. /\ w \in Nat /\ kCheapPrepend <= w /\ w <= Len(b.cells)
        /\ kCheapPrepend + Len(s) <= Len(b.cells)
    <3> DEFINE n == Len(b.cells)
               r == b.read
               e == b.write
    <3>1. /\ n \in Nat /\ r \in Nat /\ e \in Nat /\ kCheapPrepend \in Nat
          /\ kCheapPrepend <= r /\ r <= e /\ e <= n
      BY <1>0, Zenon
    <3>2. ReadableBytes(b) = e - r
      BY <1>0, Zenon
    <3> HIDE DEF n, r, e
    <3>3. /\ kCheapPrepend + (e - r) \in Nat /\ kCheapPrepend <= kCheapPrepend + (e - r)
          /\ kCheapPrepend + (e - r) <= n
      BY <3>1
    <3> QED  BY <2>1, <3>2, <3>3, Zenon DEF n
  <2>2. p \in Seq(Byte) /\ Len(p) = Len(b.cells)
    BY <2>1, <2>3, <1>0, PutKeepsSize
  <2>4. MakeSpace(b, len) = Buf(p, kCheapPrepend, w)
    BY <1>2 DEF MakeSpace, MoveToFront
  <2> HIDE DEF p
  <2>5. /\ IsBuffer(MakeSpace(b, len))
        /\ MakeSpace(b, len).cells = p
        /\ MakeSpace(b, len).read = kCheapPrepend /\ MakeSpace(b, len).write = w
    <3>1. kCheapPrepend \in Nat /\ kCheapPrepend <= kCheapPrepend /\ w <= Len(p)
      BY <2>2, <2>3, <1>0
    <3> HIDE DEF w
    <3>2. /\ IsBuffer(Buf(p, kCheapPrepend, w)) /\ Buf(p, kCheapPrepend, w).cells = p
          /\ Buf(p, kCheapPrepend, w).read = kCheapPrepend
          /\ Buf(p, kCheapPrepend, w).write = w
      BY <2>2, <2>3, <3>1, BufIsBuffer
    <3> QED  BY <2>4, <3>2, Zenon
  <2>6. SubSeq(p, kCheapPrepend + 1, w) = s
    <3>1. SubSeq(p, kCheapPrepend + 1, kCheapPrepend + Len(s))
            = SubSeq(b.cells, kCheapPrepend + 1, kCheapPrepend) \o s
      <4>1. /\ b.cells \in Seq(Byte) /\ kCheapPrepend \in Nat /\ s \in Seq(Byte)
            /\ kCheapPrepend <= kCheapPrepend /\ kCheapPrepend + Len(s) <= Len(b.cells)
        BY <1>0, <2>1, <2>3
      <4> QED  BY <4>1, SliceOfPut, Zenon DEF p
    <3>2. SubSeq(b.cells, kCheapPrepend + 1, kCheapPrepend) = <<>>
      BY <1>0, SubSeqEmpty
    <3>3. <<>> \o s = s
      BY <2>1, ConcatEmptySeq, Zenon
    <3>4. kCheapPrepend + Len(s) = w
      BY <2>1
    <3> HIDE DEF s, w
    <3> QED  BY <3>1, <3>2, <3>3, <3>4, Zenon
  <2>7. len + kCheapPrepend <= WriteableBytes(b) + b.read
    BY <1>2, <1>0 DEF MustGrow, PrependableBytes
  <2>8. len <= WriteableBytes(MakeSpace(b, len))
    <3> DEFINE M == MakeSpace(b, len)
    <3> HIDE DEF M
    <3>1. WriteableBytes(M) = Len(M.cells) - M.write
      BY DEF WriteableBytes
    <3>2. Len(M.cells) = Len(b.cells) /\ M.write = kCheapPrepend + ReadableBytes(b)
      BY <2>2, <2>5 DEF M
    <3>3. len <= WriteableBytes(M)
      <4> DEFINE n == Len(b.cells)
                 r == b.read
                 d == b.write
      <4>1. n \in Nat /\ r \in Nat /\ d \in Nat /\ kCheapPrepend \in Nat /\ len \in Nat
        BY <1>0
      <4>2. WriteableBytes(M) = n - (kCheapPrepend + (d - r))
        BY <1>0, <3>1, <3>2, Zenon
      <4>3. len + kCheapPrepend <= (n - d) + r
        BY <1>0, <2>7 DEF WriteableBytes
      <4> HIDE DEF n, r, d
      <4> QED  BY <4>1, <4>2, <4>3
    <3> QED  BY <3>3 DEF M
  <2> QED  BY <2>5, <2>6, <2>8 DEF Readable
<1> QED  BY <1>1, <1>2

\* append() puts bytes behind those that are readable, however full the vector is.
THEOREM AppendAppends ==
  ASSUME NEW b, IsBuffer(b), NEW data \in Seq(Byte)
  PROVE  /\ IsBuffer(AppendBytes(b, data))
         /\ Readable(AppendBytes(b, data)) = Readable(b) \o data
<1> DEFINE e == EnsureWriteable(b, Len(data))
<1>1. Len(data) \in Nat
  BY LenProperties
<1>2. IsBuffer(e) /\ Readable(e) = Readable(b) /\ Len(data) <= WriteableBytes(e)
  <2>1. CASE WriteableBytes(b) < Len(data)
    BY <1>1, <2>1, MakeSpaceKeeps DEF EnsureWriteable
  <2>2. CASE ~(WriteableBytes(b) < Len(data))
    BY <1>1, <2>2, BufferFacts DEF EnsureWriteable
  <2> QED  BY <2>1, <2>2
<1> HIDE DEF e
<1>3. IsBuffer(Write(e, data)) /\ Readable(Write(e, data)) = Readable(e) \o data
  BY <1>2, WriteAppends
<1> QED  BY <1>2, <1>3 DEF AppendBytes, e

\* readFd() does the same with what it reads, wherever readv() put it.
THEOREM ReadFdAppends ==
  ASSUME NEW b, IsBuffer(b), NEW data \in Seq(Byte)
  PROVE  /\ IsBuffer(ReadFd(b, data))
         /\ Readable(ReadFd(b, data)) = Readable(b) \o data
<1>1. Len(data) \in Nat
  BY LenProperties
<1>2. CASE Len(data) <= WriteableBytes(b)
  BY <1>2, WriteAppends DEF ReadFd
<1>3. CASE ~(Len(data) <= WriteableBytes(b))
  <2> DEFINE n == WriteableBytes(b)
             first == SubSeq(data, 1, n)
             rest == SubSeq(data, n + 1, Len(data))
             full == Write(b, first)
  <2>1. n \in Nat /\ n <= Len(data)
    BY <1>1, <1>3, BufferFacts
  <2>2. ReadFd(b, data) = AppendBytes(full, rest)
    BY <1>3 DEF ReadFd
  <2> HIDE DEF n
  <2>3. first \in Seq(Byte) /\ Len(first) = n
    <3>1. SubSeq(data, 0 + 1, n) \in Seq(Byte) /\ Len(SubSeq(data, 0 + 1, n)) = n - 0
      BY <2>1, Slice
    <3> QED  BY <2>1, <3>1
  <2>4. rest \in Seq(Byte)
    BY <1>1, <2>1, Slice
  <2>5. first \o rest = data
    <3>1. 1 \in 1..(Len(data) + 1) /\ n \in (1 - 1)..Len(data) /\ Len(data) \in n..Len(data)
      BY <1>1, <2>1
    <3>2. first \o rest = SubSeq(data, 1, Len(data))
      BY <3>1, ConcatAdjacentSubSeq
    <3> QED  BY <3>2, SubSeqFull
  <2> HIDE DEF first, rest
  <2>6. IsBuffer(full) /\ Readable(full) = Readable(b) \o first
    BY <2>1, <2>3, WriteAppends DEF n
  <2> HIDE DEF full
  <2>7. IsBuffer(ReadFd(b, data)) /\ Readable(ReadFd(b, data)) = Readable(full) \o rest
    <3>1. /\ IsBuffer(AppendBytes(full, rest))
          /\ Readable(AppendBytes(full, rest)) = Readable(full) \o rest
      BY <2>4, <2>6, AppendAppends, Zenon
    <3> QED  BY <2>2, <3>1, Zenon
  <2>8. (Readable(b) \o first) \o rest = Readable(b) \o (first \o rest)
    <3>1. Readable(b) \in Seq(Byte)
      BY ReadableType, Zenon
    <3> DEFINE x == Readable(b)
    <3> HIDE DEF x
    <3>2. x \in Seq(Byte) /\ first \in Seq(Byte) /\ rest \in Seq(Byte)
      BY <2>3, <2>4, <3>1 DEF x
    <3>3. (x \o first) \o rest = x \o (first \o rest)
      <4>1. Groups(x, first, rest)
        BY <3>2, AlwaysGroups
      <4> QED  BY <4>1, Zenon DEF Groups
    <3> QED  BY <3>3 DEF x
  <2> QED  BY <2>5, <2>6, <2>7, <2>8
<1> QED  BY <1>2, <1>3

\* writing n bytes of the buffer to the socket leaves the others.
LEMMA WriteFdKeeps ==
  ASSUME NEW b, IsBuffer(b), NEW n \in 0..ReadableBytes(b)
  PROVE  IsBuffer(WriteFd(b, n))
  BY RetriveDrops DEF WriteFd

\* Bytes put in front of a slice.
LEMMA SliceOfPutBefore ==
  ASSUME NEW cells \in Seq(Byte), NEW r \in Nat, NEW w \in Nat, NEW data \in Seq(Byte),
         r <= w, w <= Len(cells), Len(data) <= r
  PROVE  SubSeq(Put(cells, r - Len(data), data), (r - Len(data)) + 1, w)
           = data \o SubSeq(cells, r + 1, w)
<1> DEFINE n == Len(data)
           q == r - n
           p == Put(cells, q, data)
<1>1. n \in Nat /\ q \in Nat /\ q + n = r /\ q + n <= Len(cells) /\ Len(cells) \in Nat /\ q <= r
  BY LenProperties
<1>2. /\ p \in Seq(Byte) /\ Len(p) = Len(cells)
      /\ \A i \in 1..Len(cells) :
           p[i] = IF i \in (q + 1)..(q + n) THEN data[i - q] ELSE cells[i]
  BY <1>1, PutKeepsSize
<1>3. SubSeq(p, q + 1, r) = data
  <2>1. SubSeq(p, q + 1, q + n) = SubSeq(cells, q + 1, q) \o data
    <3>1. q \in Nat /\ q <= q /\ q + Len(data) <= Len(cells)
      BY <1>1
    <3> QED  BY <3>1, SliceOfPut, Zenon
  <2>2. SubSeq(cells, q + 1, q) = <<>>
    BY <1>1, SubSeqEmpty
  <2> QED  BY <1>1, <2>1, <2>2, ConcatEmptySeq
<1> HIDE DEF p, q, n
<1>4. SubSeq(p, r + 1, w) = SubSeq(cells, r + 1, w)
  <2> DEFINE u == SubSeq(p, r + 1, w)
             v == SubSeq(cells, r + 1, w)
  <2>1. /\ u \in Seq(Byte) /\ Len(u) = w - r
        /\ \A i \in 1..(w - r) : u[i] = p[r + i]
    BY <1>2, Slice
  <2>2. /\ v \in Seq(Byte) /\ Len(v) = w - r
        /\ \A i \in 1..(w - r) : v[i] = cells[r + i]
    BY Slice
  <2>3. \A i \in 1..(w - r) : p[r + i] = cells[r + i]
    <3> SUFFICES ASSUME NEW i \in 1..(w - r)
                 PROVE  p[r + i] = cells[r + i]
      OBVIOUS
    <3>1. r + i \in 1..Len(cells) /\ r + i \notin (q + 1)..(q + n)
      BY <1>1
    <3> QED  BY <1>2, <3>1
  <2> HIDE DEF u, v
  <2>4. \A i \in 1..Len(u) : u[i] = v[i]
    BY <2>1, <2>2, <2>3
  <2>5. u = v
    BY <2>1, <2>2, <2>4, SeqEqual
  <2> QED  BY <2>5 DEF u, v
<1>5. SubSeq(p, q + 1, r) \o SubSeq(p, r + 1, w) = SubSeq(p, q + 1, w)
  <2>1. q + 1 \in 1..(Len(p) + 1) /\ r \in ((q + 1) - 1)..Len(p) /\ w \in r..Len(p)
    BY <1>1, <1>2
  <2> QED  BY <1>2, <2>1, ConcatAdjacentSubSeq
<1>6. SubSeq(p, q + 1, w) = data \o SubSeq(cells, r + 1, w)
  BY <1>3, <1>4, <1>5
<1> QED  BY <1>6 DEF p, q, n

-----------------------------------------------------------------------------
(* The codec.                                                              *)

\* The weights of the digits.
LEMMA PowersArePositive == \A i \in 0..kHeaderLen : kBase ^ i \in Nat \ {0}
<1> DEFINE T == {i \in 0..kHeaderLen : kBase ^ i \in Nat \ {0}}
<1>1. kHeaderLen \in Nat /\ kBase \in Nat \ {0}
  BY HeaderAssumption, BaseAssumption
<1>2. 0 \in T
  BY <1>1, PowersAssumption
<1>3. ASSUME NEW i \in 0..(kHeaderLen - 1), i \in T
      PROVE  i + 1 \in T
  <2>1. kBase ^ (i + 1) = kBase ^ i * kBase
    BY PowersAssumption
  <2> DEFINE p == kBase ^ i
  <2>2. p \in Nat \ {0}
    BY <1>3
  <2> HIDE DEF p
  <2>3. p * kBase \in Nat \ {0}
    BY <1>1, <2>2
  <2>4. i + 1 \in 0..kHeaderLen
    BY <1>1
  <2> QED  BY <2>1, <2>3, <2>4 DEF p
<1> HIDE DEF T
<1>4. \A i \in 0..kHeaderLen : i \in T
  BY <1>1, <1>2, <1>3, FromLoToHi
<1> QED  BY <1>4 DEF T

\* A length is written with kHeaderLen bytes.
LEMMA HeaderType ==
  ASSUME NEW len \in Nat
  PROVE  Header(len) \in Seq(Byte) /\ Len(Header(len)) = kHeaderLen
<1>1. \A i \in 1..kHeaderLen : (len \div kBase ^ (kHeaderLen - i)) % kBase \in Byte
  <2> SUFFICES ASSUME NEW i \in 1..kHeaderLen
               PROVE  (len \div kBase ^ (kHeaderLen - i)) % kBase \in Byte
    OBVIOUS
  <2>1. kHeaderLen - i \in 0..kHeaderLen
    BY HeaderAssumption
  <2>2. kBase ^ (kHeaderLen - i) \in Nat \ {0}
    BY <2>1, PowersArePositive
  <2> DEFINE d == kBase ^ (kHeaderLen - i)
  <2> HIDE DEF d
  <2>3. d \in Nat \ {0}
    BY <2>2 DEF d
  <2>4. len \div d \in Int
    BY <2>3
  <2> DEFINE q == len \div d
  <2> HIDE DEF q
  <2>5. q % kBase \in 0..(kBase - 1)
    BY <2>4, BaseAssumption DEF q
  <2> QED  BY <2>5 DEF q, d, Byte
<1>2. Header(len) \in [1..kHeaderLen -> Byte]
  BY <1>1 DEF Header
<1>3. kHeaderLen \in Nat
  BY HeaderAssumption
<1>4. Header(len) \in Seq(Byte)
  BY <1>2, <1>3, SeqDef
<1> QED  BY <1>2, <1>3, <1>4, LenProperties

\* What the codec's send() hands to the connection is the length and the message.
THEOREM FrameIsEncoded ==
  ASSUME NEW m \in Messages
  PROVE  Readable(Frame(m)) = Encoded(m) /\ Encoded(m) \in Seq(Byte)
<1> DEFINE b == AppendBytes(NewBuffer, m)
           h == Header(Len(m))
<1>1. m \in Seq(Byte) /\ Len(m) \in Nat
  BY MessagesAssumption, LenProperties
<1>2. h \in Seq(Byte) /\ Len(h) = kHeaderLen
  BY <1>1, HeaderType
<1>3. IsBuffer(b) /\ Readable(b) = m
  BY <1>1, NewBufferType, AppendAppends, ConcatEmptySeq
<1> HIDE DEF b, h
<1>4. /\ b.cells \in Seq(Byte) /\ b.read \in Nat /\ b.write \in Nat
      /\ b.read <= b.write /\ b.write <= Len(b.cells) /\ Len(h) <= b.read
  BY <1>2, <1>3, BufferFacts, HeaderAssumption
<1>5. SubSeq(Put(b.cells, b.read - Len(h), h), (b.read - Len(h)) + 1, b.write)
        = h \o SubSeq(b.cells, b.read + 1, b.write)
  BY <1>2, <1>4, SliceOfPutBefore, Zenon
<1>6. Readable(Prepend(b, h)) = h \o Readable(b)
  BY <1>5 DEF Readable, Prepend, Buf
<1>7. Readable(Frame(m)) = h \o m
  BY <1>3, <1>6 DEF Frame, b, h
<1>8. h \o m \in Seq(Byte)
  BY <1>1, <1>2, ConcatProperties
<1> QED  BY <1>7, <1>8 DEF Encoded, h

\* Both buffers stay within their vectors, whatever is sent and however it is cut.
THEOREM TypeCorrect == Spec => []TypeOK
<1>1. Init => TypeOK
  BY NewBufferType, EmptySeq DEF Init, TypeOK
<1>2. TypeOK /\ [Next]_vars => TypeOK'
  <2> SUFFICES ASSUME TypeOK, [Next]_vars
               PROVE  TypeOK'
    OBVIOUS
  <2>0. /\ sent \in Seq(Messages) /\ IsBuffer(outputBuffer) /\ IsBuffer(inputBuffer)
        /\ wire \in Seq(Byte) /\ Len(wire) \in Nat
        /\ decoding \in BOOLEAN /\ shut \in BOOLEAN /\ got \in Seq(Seq(Byte))
    BY LenProperties DEF TypeOK
  <2>1. ASSUME NEW m \in Messages, SendMessage(m)
        PROVE  TypeOK'
    <3>1. PICK n \in 0..Len(Readable(Frame(m))) :
            /\ wire' = wire \o SubSeq(Readable(Frame(m)), 1, n)
            /\ outputBuffer' =
                 IF n = Len(Readable(Frame(m))) THEN outputBuffer
                 ELSE AppendBytes(outputBuffer,
                                  SubSeq(Readable(Frame(m)), n + 1, Len(Readable(Frame(m)))))
      BY <2>1 DEF SendMessage
    <3> DEFINE f == Readable(Frame(m))
    <3>2. f \in Seq(Byte) /\ Len(f) \in Nat
      BY FrameIsEncoded, LenProperties
    <3> HIDE DEF f
    <3>3. n \in Nat /\ n <= Len(f)
      BY <3>1, <3>2 DEF f
    <3>4. SubSeq(f, 0 + 1, n) \in Seq(Byte)
      BY <3>2, <3>3, Slice
    <3>5. SubSeq(f, n + 1, Len(f)) \in Seq(Byte)
      BY <3>2, <3>3, Slice
    <3>6. wire' \in Seq(Byte)
      BY <2>0, <3>1, <3>4, ConcatProperties DEF f
    <3>7. IsBuffer(AppendBytes(outputBuffer, SubSeq(f, n + 1, Len(f))))
      BY <2>0, <3>5, AppendAppends
    <3>8. IsBuffer(outputBuffer')
      BY <2>0, <3>1, <3>7 DEF f
    <3>9. sent' \in Seq(Messages)
      BY <2>0, <2>1, AppendProperties DEF SendMessage
    <3>10. UNCHANGED receiver
      BY <2>1 DEF SendMessage
    <3> QED  BY <2>0, <3>6, <3>8, <3>9, <3>10 DEF TypeOK, receiver, IsBuffer
  <2>2. CASE WriteOut
    <3>1. PICK n \in 1..ReadableBytes(outputBuffer) :
            /\ wire' = wire \o SubSeq(Readable(outputBuffer), 1, n)
            /\ outputBuffer' = WriteFd(outputBuffer, n)
      BY <2>2 DEF WriteOut
    <3>2. /\ ReadableBytes(outputBuffer) \in Nat
          /\ Readable(outputBuffer) \in Seq(Byte)
          /\ Len(Readable(outputBuffer)) = ReadableBytes(outputBuffer)
      BY <2>0, BufferFacts, ReadableType
    <3>3. n \in Nat /\ n <= Len(Readable(outputBuffer)) /\ n \in 0..ReadableBytes(outputBuffer)
      BY <3>1, <3>2
    <3>4. SubSeq(Readable(outputBuffer), 0 + 1, n) \in Seq(Byte)
      BY <3>2, <3>3, Slice
    <3>5. wire' \in Seq(Byte)
      BY <2>0, <3>1, <3>4, ConcatProperties
    <3>6. IsBuffer(outputBuffer')
      BY <2>0, <3>1, <3>3, WriteFdKeeps
    <3>7. UNCHANGED <<sent, receiver>>
      BY <2>2 DEF WriteOut
    <3> QED  BY <2>0, <3>5, <3>6, <3>7 DEF TypeOK, receiver, IsBuffer
  <2>3. CASE Receive
    <3>1. PICK n \in 1..Len(wire) :
            /\ inputBuffer' = ReadFd(inputBuffer, SubSeq(wire, 1, n))
            /\ wire' = SubSeq(wire, n + 1, Len(wire))
      BY <2>3 DEF Receive
    <3>2. n \in Nat /\ n <= Len(wire)
      BY <2>0, <3>1
    <3>3. SubSeq(wire, 0 + 1, n) \in Seq(Byte) /\ SubSeq(wire, n + 1, Len(wire)) \in Seq(Byte)
      BY <2>0, <3>2, Slice
    <3>4. IsBuffer(inputBuffer')
      <4>1. SubSeq(wire, 1, n) \in Seq(Byte)
        BY <3>3
      <4>2. IsBuffer(ReadFd(inputBuffer, SubSeq(wire, 1, n)))
        BY <2>0, <4>1, ReadFdAppends
      <4> QED  BY <3>1, <4>2
    <3>5. decoding' = TRUE /\ UNCHANGED <<sender, shut, got>>
      BY <2>3 DEF Receive
    <3> QED  BY <2>0, <3>1, <3>3, <3>4, <3>5 DEF TypeOK, sender, IsBuffer
  <2>4. CASE Incomplete
    BY <2>0, <2>4 DEF Incomplete, TypeOK, sender, IsBuffer
  <2>5. CASE Refuse
    BY <2>0, <2>5 DEF Refuse, TypeOK, sender, IsBuffer
  <2>6. CASE Deliver
    <3> DEFINE rest == Retrive(inputBuffer, kHeaderLen)
    <3>1. /\ Length \in 0..kMaxLength
          /\ ReadableBytes(inputBuffer) >= Length + kHeaderLen
          /\ got' = Append(got, SubSeq(Readable(rest), 1, Length))
          /\ inputBuffer' = Retrive(rest, Length)
          /\ UNCHANGED <<sender, wire, decoding, shut>>
      BY <2>6 DEF Deliver, Invalid
    <3>2. kHeaderLen \in Nat /\ kMaxLength \in Nat /\ ReadableBytes(inputBuffer) \in Nat
      BY <2>0, HeaderAssumption, BaseAssumption, BufferFacts
    <3>3. kHeaderLen \in 0..ReadableBytes(inputBuffer)
      BY <3>1, <3>2
    <3>4. IsBuffer(rest) /\ ReadableBytes(rest) = ReadableBytes(inputBuffer) - kHeaderLen
      BY <2>0, <3>3, RetriveDrops
    <3>5. Length \in Nat /\ Length <= ReadableBytes(rest) /\ Length \in 0..ReadableBytes(rest)
      BY <3>1, <3>2, <3>4
    <3> HIDE DEF rest
    <3>6. IsBuffer(inputBuffer')
      BY <3>1, <3>4, <3>5, RetriveDrops
    <3>7. Readable(rest) \in Seq(Byte) /\ Len(Readable(rest)) = ReadableBytes(rest)
      BY <3>4, ReadableType
    <3>8. SubSeq(Readable(rest), 0 + 1, Length) \in Seq(Byte)
      BY <3>5, <3>7, Slice
    <3>9. got' \in Seq(Seq(Byte))
      BY <2>0, <3>1, <3>8, AppendProperties
    <3> QED  BY <2>0, <3>1, <3>6, <3>9 DEF TypeOK, sender, IsBuffer
  <2>7. CASE UNCHANGED vars
    BY <2>0, <2>7 DEF TypeOK, vars, sender, receiver, IsBuffer
  <2> QED  BY <2>1, <2>2, <2>3, <2>4, <2>5, <2>6, <2>7 DEF Next, Decode
<1> QED  BY <1>1, <1>2, PTL DEF Spec
-----------------------------------------------------------------------------
(* A length is read as it was written.                                      *)

\* The values of the first digits of a number.
LEMMA HeaderValueIsRecursive ==
  ASSUME NEW bytes \in Seq(Byte)
  PROVE  \E v \in [0..Len(bytes) -> Nat] :
           /\ v[0] = 0
           /\ \A i \in 1..Len(bytes) : v[i] = v[i - 1] * kBase + bytes[i]
           /\ HeaderValue(bytes) = v[Len(bytes)]
<1> DEFINE n == Len(bytes)
           Is(v) == v = [i \in 0..n |-> IF i = 0 THEN 0 ELSE v[i - 1] * kBase + bytes[i]]
           G == [p \in (1..n) \X Nat |-> p[2] * kBase + bytes[p[1]]]
<1>1. n \in Nat /\ kBase \in Nat
  BY LenProperties, BaseAssumption
<1>2. \A i \in 1..n : bytes[i] \in Nat
  <2>1. \A i \in 1..n : bytes[i] \in Byte
    BY ElementOfSeq
  <2> QED  BY <2>1, <1>1 DEF Byte
<1>3. \A i \in 1..n : \A x \in Nat : G[<<i, x>>] = x * kBase + bytes[i]
  OBVIOUS
<1>4. \A i \in 1..n : \A x \in Nat : x * kBase + bytes[i] \in Nat
  <2> SUFFICES ASSUME NEW i \in 1..n, NEW x \in Nat
               PROVE  x * kBase + bytes[i] \in Nat
    OBVIOUS
  <2>1. x * kBase \in Nat
    BY <1>1
  <2> DEFINE y == x * kBase
  <2> HIDE DEF y
  <2>2. y + bytes[i] \in Nat
    BY <2>1, <1>2 DEF y
  <2> QED  BY <2>2 DEF y
<1> HIDE DEF G, n
<1>5. PICK f \in [0..n -> Nat] : StartsAndSteps(f, 0, n, 0, G)
  <2>1. StepsStayIn(Nat, 0, n, G)
    <3> SUFFICES ASSUME NEW i \in (0 + 1)..n, NEW x \in Nat
                 PROVE  G[<<i, x>>] \in Nat
      BY DEF StepsStayIn
    <3>1. i \in 1..n
      OBVIOUS
    <3> QED  BY <1>3, <1>4, <3>1, Zenon
  <2>2. 0 \in Nat /\ 0 <= n
    BY <1>1
  <2> QED  BY <1>1, <2>1, <2>2, Recursion
<1>6. \A i \in 1..n : f[i] = f[i - 1] * kBase + bytes[i]
  <2> SUFFICES ASSUME NEW i \in 1..n
               PROVE  f[i] = f[i - 1] * kBase + bytes[i]
    OBVIOUS
  <2>1. i \in (0 + 1)..n /\ i - 1 \in 0..n
    BY <1>1
  <2>2. f[i - 1] \in Nat
    BY <2>1
  <2> QED  BY <1>3, <1>5, <2>1, <2>2 DEF StartsAndSteps
<1>7. Is(f)
  <2>1. \A i \in 0..n : f[i] = IF i = 0 THEN 0 ELSE f[i - 1] * kBase + bytes[i]
    <3> SUFFICES ASSUME NEW i \in 0..n
                 PROVE  f[i] = IF i = 0 THEN 0 ELSE f[i - 1] * kBase + bytes[i]
      OBVIOUS
    <3>1. CASE i = 0
      BY <1>5, <3>1 DEF StartsAndSteps
    <3>2. CASE i # 0
      <4>1. i \in 1..n
        BY <1>1, <3>2
      <4> QED  BY <1>6, <3>2, <4>1
    <3> QED  BY <3>1, <3>2
  <2> QED  BY <2>1
<1>8. Is(CHOOSE v : Is(v))
  <2> HIDE DEF Is
  <2> QED  BY <1>7, Zenon
<1> DEFINE v == CHOOSE v : Is(v)
<1>9. HeaderValue(bytes) = v[n]
  BY DEF HeaderValue, n
<1> HIDE DEF v
<1>10. v = [i \in 0..n |-> IF i = 0 THEN 0 ELSE v[i - 1] * kBase + bytes[i]]
  BY <1>8 DEF v
<1>11. v = f
  <2> DEFINE T == {i \in 0..n : v[i] = f[i]}
  <2>0. 0 \in 0..n /\ n \in 0..n
    BY <1>1
  <2>1. 0 \in T
    <3>1. v[0] = 0
      BY <1>10, <2>0
    <3> QED  BY <1>5, <2>0, <3>1 DEF StartsAndSteps
  <2>2. ASSUME NEW i \in 0..(n - 1), i \in T
        PROVE  i + 1 \in T
    <3>1. i \in 0..n /\ i + 1 \in 0..n /\ i + 1 \in 1..n /\ i + 1 # 0 /\ (i + 1) - 1 = i
      BY <1>1
    <3>2. v[i + 1] = v[i] * kBase + bytes[i + 1]
      BY <1>10, <3>1
    <3>3. f[i + 1] = f[i] * kBase + bytes[i + 1]
      BY <1>6, <3>1
    <3>4. v[i] = f[i]
      BY <2>2
    <3>5. v[i + 1] = f[i + 1]
      BY <3>2, <3>3, <3>4
    <3> QED  BY <3>1, <3>5
  <2> HIDE DEF T
  <2>3. \A i \in 0..n : i \in T
    BY <1>1, <2>1, <2>2, FromLoToHi
  <2> QED  BY <1>5, <1>10, <2>3 DEF T
<1> QED  BY <1>5, <1>6, <1>9, <1>11 DEF n, StartsAndSteps

\* Division with a remainder, in the form in which the provers know it.
LEMMA Divide ==
  ASSUME NEW a \in Nat, NEW d \in Nat \ {0}
  PROVE  /\ a \div d \in Nat /\ a % d \in 0..(d - 1)
         /\ a = ((a \div d) * d) + (a % d)
  OBVIOUS

\* Quotient and remainder are unique.
LEMMA QuotientIsUnique ==
  ASSUME NEW d \in Nat \ {0}, NEW q \in Nat, NEW k \in Nat,
         NEW r \in 0..(d - 1), NEW s \in 0..(d - 1), q * d + r = k * d + s
  PROVE  q = k
<1>1. (q - k) * d = s - r
  OBVIOUS
<1>2. CASE q > k
  <2>1. (q - k) * d >= d
    BY <1>2
  <2> QED  BY <2>1, <1>1
<1>3. CASE q < k
  <2>1. (k - q) * d >= d
    BY <1>3
  <2>2. (k - q) * d = r - s
    BY <1>1
  <2> QED  BY <2>1, <2>2
<1> QED  BY <1>2, <1>3

\* Dividing by p and then by b is dividing by p * b: a digit is a quotient's remainder.
LEMMA DivideTwice ==
  ASSUME NEW a \in Nat, NEW p \in Nat \ {0}, NEW b \in Nat \ {0}
  PROVE  (a \div (p * b)) * b + ((a \div p) % b) = a \div p
<1> DEFINE q == a \div p
           r == a % p
           k == q \div b
           s == q % b
           c == p * b
           K == a \div c
           t == p * s + r
<1>1. q \in Nat /\ r \in 0..(p - 1) /\ a = q * p + r
  BY Divide
<1> HIDE DEF q, r
<1>2. k \in Nat /\ s \in 0..(b - 1) /\ q = k * b + s
  BY <1>1, Divide
<1> HIDE DEF k, s
<1>3. c \in Nat \ {0}
  OBVIOUS
<1>4. a = k * c + t
  <2>1. q * p = (k * b) * p + s * p
    BY <1>1, <1>2
  <2>2. (k * b) * p = k * (p * b) /\ s * p = p * s
    BY <1>2
  <2> QED  BY <1>1, <1>2, <2>1, <2>2
<1>5. t \in 0..(c - 1)
  <2>1. p * s <= p * (b - 1)
    BY <1>2
  <2>2. p * (b - 1) = p * b - p
    OBVIOUS
  <2>3. p * s \in Nat
    BY <1>2
  <2> DEFINE x == p * s
             y == p * b
  <2>4. x \in Nat /\ y \in Nat /\ x <= y - p
    BY <2>1, <2>2, <2>3
  <2> HIDE DEF x, y
  <2>5. x + r \in 0..(y - 1)
    BY <1>1, <2>4
  <2> QED  BY <2>5 DEF x, y
<1> HIDE DEF c, t
<1>6. K \in Nat /\ a % c \in 0..(c - 1) /\ a = K * c + (a % c)
  BY <1>3, Divide
<1> DEFINE u == a % c
<1> HIDE DEF K, u
<1>7. K = k
  <2>1. K \in Nat /\ u \in 0..(c - 1) /\ K * c + u = k * c + t
    BY <1>4, <1>6 DEF u
  <2> QED  BY <1>2, <1>3, <1>5, <2>1, QuotientIsUnique
<1> QED  BY <1>2, <1>7 DEF K, c, q, s

\* The length that is read is the one that was written, if it fits in its bytes.
THEOREM LengthIsRead ==
  ASSUME NEW len \in Nat, len < kBase ^ kHeaderLen
  PROVE  HeaderValue(Header(len)) = len
<1> DEFINE h == Header(len)
           n == kHeaderLen
           w(i) == kBase ^ (n - i)
<1>1. n \in Nat \ {0} /\ kBase \in Nat \ {0}
  BY HeaderAssumption, BaseAssumption
<1>2. \A i \in 0..n : w(i) \in Nat \ {0}
  <2> SUFFICES ASSUME NEW i \in 0..n
               PROVE  w(i) \in Nat \ {0}
    OBVIOUS
  <2>1. n - i \in 0..n
    BY <1>1
  <2> QED  BY <2>1, PowersArePositive
<1>3. \A i \in 1..n : w(i - 1) = w(i) * kBase
  <2> SUFFICES ASSUME NEW i \in 1..n
               PROVE  w(i - 1) = w(i) * kBase
    OBVIOUS
  <2>1. n - i \in 0..(n - 1) /\ n - (i - 1) = (n - i) + 1
    BY <1>1
  <2> QED  BY <2>1, PowersAssumption
<1>4. w(n) = 1 /\ len < w(0)
  <2>1. n - n = 0 /\ n - 0 = n
    BY <1>1
  <2> QED  BY <2>1, PowersAssumption
<1>5. \A i \in 1..n : h[i] = (len \div w(i)) % kBase
  BY DEF Header
<1>6. h \in Seq(Byte) /\ Len(h) = n
  BY HeaderType
<1> HIDE DEF w, h, n
<1>7. PICK v \in [0..n -> Nat] :
        /\ v[0] = 0
        /\ \A i \in 1..n : v[i] = v[i - 1] * kBase + h[i]
        /\ HeaderValue(h) = v[n]
  BY <1>6, HeaderValueIsRecursive
<1> DEFINE T == {i \in 0..n : v[i] = len \div w(i)}
<1>8. 0 \in T
  <2> DEFINE d == w(0)
  <2>1. d \in Nat \ {0} /\ len < d /\ 0 \in 0..n
    BY <1>1, <1>2, <1>4
  <2> HIDE DEF d
  <2>2. len \div d = 0
    BY <2>1
  <2> QED  BY <1>7, <2>1, <2>2 DEF d
<1>9. ASSUME NEW i \in 0..(n - 1), i \in T
      PROVE  i + 1 \in T
  <2>1. /\ i \in 0..n /\ i + 1 \in 0..n /\ i + 1 \in 1..n /\ (i + 1) - 1 = i
    BY <1>1
  <2>2. v[i + 1] = v[i] * kBase + h[i + 1]
    BY <1>7, <2>1
  <2>3. v[i] = len \div (w(i + 1) * kBase)
    BY <1>3, <1>9, <2>1
  <2>4. h[i + 1] = (len \div w(i + 1)) % kBase
    BY <1>5, <2>1
  <2>5. (len \div (w(i + 1) * kBase)) * kBase + ((len \div w(i + 1)) % kBase)
          = len \div w(i + 1)
    BY <1>1, <1>2, <2>1, DivideTwice
  <2> QED  BY <2>1, <2>2, <2>3, <2>4, <2>5
<1> HIDE DEF T
<1>10. \A i \in 0..n : i \in T
  BY <1>1, <1>8, <1>9, FromLoToHi
<1>11. v[n] = len \div 1
  BY <1>1, <1>4, <1>10 DEF T
<1> QED  BY <1>7, <1>11 DEF h

-----------------------------------------------------------------------------
(* The bytes of several messages.                                           *)

\* FlattenSeq() appends one after the other.
LEMMA FlattenIsRecursive ==
  ASSUME NEW s \in Seq(Seq(Byte)), Len(s) > 0
  PROVE  \E f \in [1..Len(s) -> Seq(Byte)] :
           /\ f[1] = s[1]
           /\ \A i \in 2..Len(s) : f[i] = f[i - 1] \o s[i]
           /\ FlattenSeq(s) = f[Len(s)]
<1> DEFINE n == Len(s)
           Is(f) == f = [i \in 1..n |-> IF i = 1 THEN s[i] ELSE f[i - 1] \o s[i]]
           G == [p \in (2..n) \X Seq(Byte) |-> p[2] \o s[p[1]]]
           g == CHOOSE f : Is(f)
<1>1. n \in Nat \ {0} /\ 1 \in 1..n
  BY LenProperties
<1>2. \A i \in 1..n : s[i] \in Seq(Byte)
  BY ElementOfSeq
<1>3. \A i \in 2..n : \A x \in Seq(Byte) : G[<<i, x>>] = x \o s[i]
  OBVIOUS
<1>4. \A i \in 2..n : \A x \in Seq(Byte) : x \o s[i] \in Seq(Byte)
  <2> SUFFICES ASSUME NEW i \in 2..n, NEW x \in Seq(Byte)
               PROVE  x \o s[i] \in Seq(Byte)
    OBVIOUS
  <2>1. s[i] \in Seq(Byte)
    BY <1>1, <1>2
  <2> QED  BY <2>1, ConcatProperties
<1>5. FlattenSeq(s) = g[n]
  BY <1>1 DEF FlattenSeq
<1> HIDE DEF G, n
<1>6. PICK f \in [1..n -> Seq(Byte)] : StartsAndSteps(f, 1, n, s[1], G)
  <2>1. StepsStayIn(Seq(Byte), 1, n, G)
    <3> SUFFICES ASSUME NEW i \in (1 + 1)..n, NEW x \in Seq(Byte)
                 PROVE  G[<<i, x>>] \in Seq(Byte)
      BY DEF StepsStayIn
    <3>1. i \in 2..n
      OBVIOUS
    <3> QED  BY <1>3, <1>4, <3>1, Zenon
  <2>2. 1 \in Nat /\ 1 <= n /\ s[1] \in Seq(Byte) /\ n \in Nat
    BY <1>1, <1>2
  <2> QED  BY <2>1, <2>2, Recursion
<1>7. f[1] = s[1]
  BY <1>6 DEF StartsAndSteps
<1>8. \A i \in 2..n : f[i] = f[i - 1] \o s[i]
  <2> SUFFICES ASSUME NEW i \in 2..n
               PROVE  f[i] = f[i - 1] \o s[i]
    OBVIOUS
  <2>1. i \in (1 + 1)..n /\ i - 1 \in 1..n
    BY <1>1
  <2>2. f[i - 1] \in Seq(Byte)
    BY <2>1
  <2> QED  BY <1>3, <1>6, <2>1, <2>2 DEF StartsAndSteps
<1>9. Is(f)
  <2>1. \A i \in 1..n : f[i] = IF i = 1 THEN s[i] ELSE f[i - 1] \o s[i]
    <3> SUFFICES ASSUME NEW i \in 1..n
                 PROVE  f[i] = IF i = 1 THEN s[i] ELSE f[i - 1] \o s[i]
      OBVIOUS
    <3>1. CASE i = 1
      BY <1>7, <3>1
    <3>2. CASE i # 1
      <4>1. i \in 2..n
        BY <1>1, <3>2
      <4> QED  BY <1>8, <3>2, <4>1
    <3> QED  BY <3>1, <3>2
  <2> QED  BY <2>1
<1>10. Is(g)
  <2> HIDE DEF Is
  <2> QED  BY <1>9, Zenon
<1> HIDE DEF g
<1>11. g = [i \in 1..n |-> IF i = 1 THEN s[i] ELSE g[i - 1] \o s[i]]
  BY <1>10
<1>12. g = f
  <2> DEFINE T == {i \in 1..n : g[i] = f[i]}
  <2>1. 1 \in T
    <3>1. g[1] = s[1]
      BY <1>1, <1>11
    <3> QED  BY <1>1, <1>7, <3>1
  <2>2. ASSUME NEW i \in 1..(n - 1), i \in T
        PROVE  i + 1 \in T
    <3>1. i + 1 \in 1..n /\ i + 1 \in 2..n /\ i + 1 # 1 /\ (i + 1) - 1 = i
      BY <1>1
    <3>2. g[i + 1] = g[i] \o s[i + 1]
      BY <1>11, <3>1
    <3>3. f[i + 1] = f[i] \o s[i + 1]
      BY <1>8, <3>1
    <3>4. g[i] = f[i]
      BY <2>2
    <3>5. g[i + 1] = f[i + 1]
      BY <3>2, <3>3, <3>4
    <3> QED  BY <3>1, <3>5
  <2> HIDE DEF T
  <2>3. \A i \in 1..n : i \in T
    BY <1>1, <2>1, <2>2, FromLoToHi
  <2>4. \A i \in 1..n : g[i] = f[i]
    BY <2>3 DEF T
  <2>5. g = [i \in 1..n |-> g[i]]
    BY <1>11
  <2>6. f = [i \in 1..n |-> f[i]]
    BY <1>6
  <2> QED  BY <2>4, <2>5, <2>6
<1> QED  BY <1>5, <1>7, <1>8, <1>12 DEF n

\* The frames of no message.
LEMMA FlattenNone == FlattenSeq(<<>>) = <<>>
  BY DEF FlattenSeq

\* Two such functions whose steps agree are the same: one more at the end.
LEMMA FlattenAppend ==
  ASSUME NEW s \in Seq(Seq(Byte)), NEW t \in Seq(Seq(Byte)), NEW x \in Seq(Byte),
         Len(t) = Len(s) + 1, \A i \in 1..Len(s) : t[i] = s[i], t[Len(t)] = x
  PROVE  FlattenSeq(s) \in Seq(Byte) /\ FlattenSeq(t) = FlattenSeq(s) \o x
<1>1. Len(s) \in Nat /\ Len(t) \in Nat /\ Len(t) > 0
  BY LenProperties
<1>2. PICK g \in [1..Len(t) -> Seq(Byte)] :
           /\ g[1] = t[1]
           /\ \A i \in 2..Len(t) : g[i] = g[i - 1] \o t[i]
           /\ FlattenSeq(t) = g[Len(t)]
  BY <1>1, FlattenIsRecursive
<1>3. CASE Len(s) = 0
  <2>1. s = <<>>
    BY <1>3, EmptySeq
  <2>2. FlattenSeq(t) = x
    BY <1>1, <1>2, <1>3
  <2> QED  BY <2>1, <2>2, FlattenNone, EmptySeq, ConcatEmptySeq
<1>4. CASE Len(s) > 0
  <2> DEFINE n == Len(s)
  <2>1. PICK f \in [1..Len(s) -> Seq(Byte)] :
           /\ f[1] = s[1]
           /\ \A i \in 2..Len(s) : f[i] = f[i - 1] \o s[i]
           /\ FlattenSeq(s) = f[Len(s)]
    BY <1>4, FlattenIsRecursive
  <2> DEFINE U == {i \in 1..n : g[i] = f[i]}
  <2>2. 1 \in U
    BY <1>1, <1>2, <1>4, <2>1
  <2>3. ASSUME NEW i \in 1..(n - 1), i \in U
        PROVE  i + 1 \in U
    <3>1. i + 1 \in 1..n /\ i + 1 \in 2..n /\ i + 1 \in 2..Len(t) /\ (i + 1) - 1 = i
      BY <1>1
    <3>2. g[i + 1] = g[i] \o t[i + 1] /\ f[i + 1] = f[i] \o s[i + 1]
      BY <1>2, <2>1, <3>1
    <3>3. t[i + 1] = s[i + 1] /\ g[i] = f[i]
      BY <2>3, <3>1
    <3>4. g[i + 1] = f[i + 1]
      BY <3>2, <3>3
    <3> QED  BY <3>1, <3>4
  <2>4. n \in Nat /\ n \in 1..n /\ 1 \in Nat
    BY <1>1, <1>4
  <2> HIDE DEF U
  <2>5. \A i \in 1..n : i \in U
    BY <2>2, <2>3, <2>4, FromLoToHi
  <2>6. g[n] = f[n]
    BY <2>4, <2>5 DEF U
  <2>7. Len(t) \in 2..Len(t) /\ Len(t) - 1 = n
    BY <1>1, <1>4
  <2>8. g[Len(t)] = g[n] \o x
    BY <1>2, <2>7
  <2>9. f[n] \in Seq(Byte)
    BY <2>1, <2>4
  <2> QED  BY <1>2, <2>1, <2>6, <2>8, <2>9
<1> QED  BY <1>1, <1>3, <1>4

\* The bytes of the first of some messages come first.
LEMMA FlattenFirst ==
  ASSUME NEW s \in Seq(Seq(Byte)), NEW t \in Seq(Seq(Byte)), NEW x \in Seq(Byte),
         Len(t) = Len(s) + 1, \A i \in 1..Len(s) : t[i + 1] = s[i], t[1] = x
  PROVE  FlattenSeq(s) \in Seq(Byte) /\ FlattenSeq(t) = x \o FlattenSeq(s)
<1>1. Len(s) \in Nat /\ Len(t) \in Nat /\ Len(t) > 0
  BY LenProperties
<1>2. PICK g \in [1..Len(t) -> Seq(Byte)] :
        /\ g[1] = t[1]
        /\ \A i \in 2..Len(t) : g[i] = g[i - 1] \o t[i]
        /\ FlattenSeq(t) = g[Len(t)]
  BY <1>1, FlattenIsRecursive
<1>3. CASE Len(s) = 0
  <2>1. s = <<>>
    BY <1>3, EmptySeq
  <2>2. FlattenSeq(t) = x
    BY <1>1, <1>2, <1>3
  <2> QED  BY <2>1, <2>2, FlattenNone, EmptySeq, ConcatEmptySeq
<1>4. CASE Len(s) > 0
  <2> DEFINE n == Len(s)
  <2>1. PICK f \in [1..Len(s) -> Seq(Byte)] :
          /\ f[1] = s[1]
          /\ \A i \in 2..Len(s) : f[i] = f[i - 1] \o s[i]
          /\ FlattenSeq(s) = f[Len(s)]
    BY <1>4, FlattenIsRecursive
  <2> DEFINE U == {i \in 1..n : g[i + 1] = x \o f[i]}
  <2>2. 1 \in U
    <3>1. 1 \in 1..n /\ 1 + 1 \in 2..Len(t) /\ (1 + 1) - 1 = 1
      BY <1>1, <1>4
    <3>2. g[1 + 1] = g[1] \o t[1 + 1]
      BY <1>2, <3>1
    <3>3. t[1 + 1] = s[1]
      BY <3>1
    <3> QED  BY <1>2, <2>1, <3>1, <3>2, <3>3
  <2>3. ASSUME NEW i \in 1..(n - 1), i \in U
        PROVE  i + 1 \in U
    <3>1. /\ i \in 1..n /\ i + 1 \in 1..n /\ i + 1 \in 2..n /\ (i + 1) + 1 \in 2..Len(t)
          /\ (i + 1) - 1 = i /\ ((i + 1) + 1) - 1 = i + 1
      BY <1>1
    <3>2. g[(i + 1) + 1] = g[i + 1] \o t[(i + 1) + 1] /\ f[i + 1] = f[i] \o s[i + 1]
      <4>1. g[(i + 1) + 1] = g[((i + 1) + 1) - 1] \o t[(i + 1) + 1]
        BY <1>2, <3>1, Zenon
      <4>2. f[i + 1] = f[(i + 1) - 1] \o s[i + 1]
        BY <2>1, <3>1, Zenon
      <4> QED  BY <3>1, <4>1, <4>2, Zenon
    <3>3. t[(i + 1) + 1] = s[i + 1] /\ g[i + 1] = x \o f[i]
      BY <2>3, <3>1
    <3>4. f[i] \in Seq(Byte) /\ s[i + 1] \in Seq(Byte)
      BY <2>1, <3>1, ElementOfSeq
    <3>5. (x \o f[i]) \o s[i + 1] = x \o (f[i] \o s[i + 1])
      <4> DEFINE y == f[i]
                 z == s[i + 1]
      <4>1. x \in Seq(Byte) /\ y \in Seq(Byte) /\ z \in Seq(Byte)
        BY <3>4
      <4> HIDE DEF y, z
      <4>2. (x \o y) \o z = x \o (y \o z)
        BY <4>1, Associates, Zenon
      <4> QED  BY <4>2 DEF y, z
    <3>6. g[(i + 1) + 1] = x \o f[i + 1]
      BY <3>2, <3>3, <3>5
    <3> QED  BY <3>1, <3>6
  <2>4. n \in Nat /\ n \in 1..n /\ 1 \in Nat /\ Len(t) = n + 1
    BY <1>1, <1>4
  <2> HIDE DEF U
  <2>5. \A i \in 1..n : i \in U
    BY <2>2, <2>3, <2>4, FromLoToHi
  <2>6. g[n + 1] = x \o f[n]
    BY <2>4, <2>5 DEF U
  <2>7. f[n] \in Seq(Byte)
    BY <2>1, <2>4
  <2> QED  BY <1>2, <2>1, <2>4, <2>6, <2>7
<1> QED  BY <1>1, <1>3, <1>4

\* A sequence is what is before a place and what is behind it.
LEMMA Cut ==
  ASSUME NEW s \in Seq(Byte), NEW n \in 0..Len(s)
  PROVE  /\ SubSeq(s, 1, n) \in Seq(Byte) /\ Len(SubSeq(s, 1, n)) = n
         /\ SubSeq(s, n + 1, Len(s)) \in Seq(Byte)
         /\ s = SubSeq(s, 1, n) \o SubSeq(s, n + 1, Len(s))
<1>1. Len(s) \in Nat /\ n \in Nat /\ n <= Len(s)
  BY LenProperties
<1>2. \A i \in 1..Len(s) : s[i] \in Byte
  BY ElementOfSeq
<1>3. SubSeq(s, 1, n) \in Seq(Byte) /\ Len(SubSeq(s, 1, n)) = IF 1 <= n THEN n - 1 + 1 ELSE 0
  <2>1. \A i \in 1..n : s[i] \in Byte
    BY <1>1, <1>2
  <2> QED  BY <1>1, <2>1, SubSeqProperties
<1>4. SubSeq(s, n + 1, Len(s)) \in Seq(Byte)
  <2>1. \A i \in (n + 1)..Len(s) : s[i] \in Byte
    BY <1>1, <1>2
  <2>2. n + 1 \in Int /\ Len(s) \in Int
    BY <1>1
  <2> QED  BY <2>1, <2>2, SubSeqProperties
<1>5. SubSeq(s, 1, n) \o SubSeq(s, n + 1, Len(s)) = SubSeq(s, 1, Len(s))
  <2>1. 1 \in 1..(Len(s) + 1) /\ n \in (1 - 1)..Len(s) /\ Len(s) \in n..Len(s)
    BY <1>1
  <2> QED  BY <2>1, ConcatAdjacentSubSeq
<1>6. Len(SubSeq(s, 1, n)) = n
  BY <1>1, <1>3
<1>7. SubSeq(s, 1, Len(s)) = s
  BY SubSeqFull
<1> QED  BY <1>3, <1>4, <1>5, <1>6, <1>7, Zenon

\* What is put together can be taken apart.
LEMMA CutConcat ==
  ASSUME NEW s \in Seq(Byte), NEW t \in Seq(Byte)
  PROVE  /\ SubSeq(s \o t, 1, Len(s)) = s
         /\ SubSeq(s \o t, Len(s) + 1, Len(s) + Len(t)) = t
<1> DEFINE u == s \o t
           a == SubSeq(u, 1, Len(s))
           b == SubSeq(u, Len(s) + 1, Len(u))
<1>1. /\ u \in Seq(Byte) /\ Len(u) = Len(s) + Len(t) /\ Len(s) \in Nat /\ Len(t) \in Nat
      /\ \A i \in 1..(Len(s) + Len(t)) : u[i] = IF i <= Len(s) THEN s[i] ELSE t[i - Len(s)]
  BY ConcatProperties, LenProperties
<1> HIDE DEF u
<1>2. Len(s) \in 0..Len(u)
  BY <1>1
<1>3. a \in Seq(Byte) /\ Len(a) = Len(s) /\ b \in Seq(Byte) /\ u = a \o b
  BY <1>1, <1>2, Cut
<1>4. \A i \in 1..Len(s) : a[i] = s[i]
  <2> SUFFICES ASSUME NEW i \in 1..Len(s)
               PROVE  a[i] = s[i]
    OBVIOUS
  <2> HIDE DEF a, b
  <2>1. i \in 1..(Len(a) + Len(b)) /\ i <= Len(a) /\ i <= Len(s) /\ i \in 1..(Len(s) + Len(t))
    <3>1. Len(b) \in Nat
      BY <1>3, LenProperties
    <3> QED  BY <1>1, <1>3, <3>1
  <2>2. (a \o b)[i] = a[i]
    BY <1>3, <2>1, ConcatProperties
  <2> QED  BY <1>1, <1>3, <2>1, <2>2
<1> HIDE DEF a, b
<1>5. a = s
  BY <1>3, <1>4, SeqEqual
<1>6. b = t
  <2>1. s \o b = s \o t
    BY <1>3, <1>5 DEF u
  <2> QED  BY <1>3, <2>1, ConcatSimplifications
<1> QED  BY <1>1, <1>5, <1>6 DEF a, b, u

\* s is a and then b.
Joined(s, a, b) == s = a \o b

\* Two ways to put the same sequence together begin alike.
LEMMA SameFront ==
  ASSUME NEW s, NEW a \in Seq(Byte), NEW b \in Seq(Byte), NEW c \in Seq(Byte),
         NEW d \in Seq(Byte), Joined(s, a, b), Joined(s, c, d), Len(c) <= Len(a)
  PROVE  \E x \in Seq(Byte) : Joined(a, c, x) /\ Joined(d, x, b)
<1> DEFINE n == Len(c)
           p == SubSeq(a, 1, n)
           x == SubSeq(a, n + 1, Len(a))
<1>1. n \in Nat /\ Len(a) \in Nat /\ n \in 0..Len(a)
  BY LenProperties
<1>2. p \in Seq(Byte) /\ Len(p) = n /\ x \in Seq(Byte) /\ a = p \o x
  BY <1>1, Cut
<1> HIDE DEF p, x
<1>3. p \o (x \o b) = c \o d
  <2>1. (p \o x) \o b = p \o (x \o b)
    <3>1. p \in Seq(Byte) /\ x \in Seq(Byte) /\ b \in Seq(Byte)
      BY <1>2
    <3>2. Groups(p, x, b)
      BY <3>1, AlwaysGroups
    <3> QED  BY <3>2, Zenon DEF Groups
  <2>2. (p \o x) \o b = c \o d
    BY <1>2, Zenon DEF Joined
  <2> QED  BY <2>1, <2>2, Zenon
<1>4. x \o b \in Seq(Byte)
  BY <1>2, ConcatProperties
<1>5. p = c
  <2>1. SubSeq(p \o (x \o b), 1, Len(p)) = p
    BY <1>2, <1>4, CutConcat
  <2>2. SubSeq(c \o d, 1, Len(c)) = c
    BY CutConcat
  <2> QED  BY <1>2, <1>3, <2>1, <2>2
<1>6. x \o b = d
  <2>1. c \o (x \o b) = c \o d
    BY <1>3, <1>5
  <2> QED  BY <1>4, <2>1, ConcatSimplifications
<1> QED  BY <1>2, <1>5, <1>6 DEF Joined

\* A prefix is equal as far as it goes.
LEMMA PrefixMeans ==
  ASSUME NEW S, NEW s \in Seq(S), NEW t \in Seq(S)
  PROVE  IsPrefix(s, t) <=> Len(s) <= Len(t) /\ \A i \in 1..Len(s) : s[i] = t[i]
<1> DEFINE n == Len(s)
           u == SubSeq(t, 1, n)
<1>1. n \in Nat /\ Len(t) \in Nat
  BY LenProperties
<1>2. SubSeq(s, 1, n) = s
  BY SubSeqFull
<1>3. ASSUME n <= Len(t)
      PROVE  u \in Seq(S) /\ Len(u) = n /\ \A i \in 1..n : u[i] = t[i]
  <2>1. \A i \in 1..n : t[i] \in S
    BY <1>1, <1>3, ElementOfSeq
  <2>2. /\ u \in Seq(S) /\ Len(u) = IF 1 <= n THEN n - 1 + 1 ELSE 0
        /\ \A i \in 1..(n - 1 + 1) : u[i] = t[1 + i - 1]
    BY <1>1, <2>1, SubSeqProperties
  <2> HIDE DEF u
  <2>3. \A i \in 1..n : u[i] = t[i]
    <3> SUFFICES ASSUME NEW i \in 1..n
                 PROVE  u[i] = t[i]
      OBVIOUS
    <3>1. i \in 1..(n - 1 + 1) /\ 1 + i - 1 = i
      BY <1>1
    <3> QED  BY <2>2, <3>1
  <2> QED  BY <1>1, <2>2, <2>3
<1>4. IsPrefix(s, t) <=> n <= Len(t) /\ s = u
  BY <1>2 DEF IsPrefix
<1> HIDE DEF u, n
<1>5. ASSUME n <= Len(t), \A i \in 1..n : s[i] = t[i]
      PROVE  s = u
  BY <1>3, <1>5, SeqEqual DEF n
<1> QED  BY <1>3, <1>4, <1>5 DEF n

\* The frames of the messages of s behind the first k.
Frames(s, k) == [i \in 1..(Len(s) - k) |-> Encoded(s[k + i])]

LEMMA FramesType ==
  ASSUME NEW s \in Seq(Messages), NEW k \in 0..Len(s)
  PROVE  Frames(s, k) \in Seq(Seq(Byte)) /\ Len(Frames(s, k)) = Len(s) - k
<1>1. Len(s) \in Nat /\ Len(s) - k \in Nat
  BY LenProperties
<1>2. \A i \in 1..(Len(s) - k) : Encoded(s[k + i]) \in Seq(Byte)
  <2> SUFFICES ASSUME NEW i \in 1..(Len(s) - k)
               PROVE  Encoded(s[k + i]) \in Seq(Byte)
    OBVIOUS
  <2>1. k + i \in 1..Len(s)
    BY <1>1
  <2>2. s[k + i] \in Messages
    BY <2>1, ElementOfSeq
  <2> QED  BY <2>2, FrameIsEncoded
<1>3. Frames(s, k) \in [1..(Len(s) - k) -> Seq(Byte)]
  BY <1>2 DEF Frames
<1>4. Frames(s, k) \in Seq(Seq(Byte))
  BY <1>1, <1>3, SeqDef
<1> QED  BY <1>1, <1>3, <1>4, LenProperties

\* Nothing is left of what is all delivered.
LEMMA FramesNone ==
  ASSUME NEW s \in Seq(Messages)
  PROVE  FlattenSeq(Frames(s, Len(s))) = <<>>
<1>1. Len(s) \in Nat /\ Len(s) \in 0..Len(s) /\ Len(s) - Len(s) = 0
  BY LenProperties
<1>2. Frames(s, Len(s)) = <<>>
  BY <1>1, FramesType, EmptySeq
<1> QED  BY <1>2, FlattenNone

\* A message that is sent comes behind the others.
LEMMA FramesOfSent ==
  ASSUME NEW s \in Seq(Messages), NEW k \in 0..Len(s), NEW m \in Messages
  PROVE  /\ FlattenSeq(Frames(s, k)) \in Seq(Byte)
         /\ FlattenSeq(Frames(Append(s, m), k)) = FlattenSeq(Frames(s, k)) \o Encoded(m)
<1> DEFINE t == Append(s, m)
           f == Frames(s, k)
           g == Frames(t, k)
<1>1. /\ t \in Seq(Messages) /\ Len(t) = Len(s) + 1 /\ t[Len(s) + 1] = m
      /\ \A i \in 1..Len(s) : t[i] = s[i]
  BY AppendProperties
<1> HIDE DEF t
<1>2. Len(s) \in Nat /\ k \in 0..Len(t)
  BY <1>1, LenProperties
<1>3. /\ f \in Seq(Seq(Byte)) /\ Len(f) = Len(s) - k
      /\ g \in Seq(Seq(Byte)) /\ Len(g) = Len(t) - k
  BY <1>1, <1>2, FramesType
<1>4. \A i \in 1..(Len(s) - k) : g[i] = f[i]
  <2> SUFFICES ASSUME NEW i \in 1..(Len(s) - k)
               PROVE  g[i] = f[i]
    OBVIOUS
  <2>1. k + i \in 1..Len(s) /\ i \in 1..(Len(t) - k)
    BY <1>1, <1>2
  <2> QED  BY <1>1, <2>1 DEF Frames
<1>5. g[Len(g)] = Encoded(m)
  <2>1. Len(t) - k \in 1..(Len(t) - k) /\ k + (Len(t) - k) = Len(s) + 1
    BY <1>1, <1>2
  <2>2. g[Len(t) - k] = Encoded(t[k + (Len(t) - k)])
    BY <2>1 DEF Frames
  <2> QED  BY <1>1, <1>3, <2>1, <2>2
<1> HIDE DEF f, g
<1>6. Len(g) = Len(f) + 1
  BY <1>1, <1>2, <1>3
<1>7. Encoded(m) \in Seq(Byte)
  BY FrameIsEncoded
<1>8. FlattenSeq(f) \in Seq(Byte) /\ FlattenSeq(g) = FlattenSeq(f) \o Encoded(m)
  <2>1. \A i \in 1..Len(f) : g[i] = f[i]
    BY <1>3, <1>4
  <2>2. f \in Seq(Seq(Byte)) /\ g \in Seq(Seq(Byte))
    BY <1>3
  <2> QED  BY <1>5, <1>6, <1>7, <2>1, <2>2, FlattenAppend
<1> QED  BY <1>8 DEF f, g, t

\* The next message to be delivered comes before the others.
LEMMA FramesToDeliver ==
  ASSUME NEW s \in Seq(Messages), NEW k \in 0..Len(s), k < Len(s)
  PROVE  /\ FlattenSeq(Frames(s, k + 1)) \in Seq(Byte)
         /\ FlattenSeq(Frames(s, k)) = Encoded(s[k + 1]) \o FlattenSeq(Frames(s, k + 1))
<1> DEFINE f == Frames(s, k)
           g == Frames(s, k + 1)
           x == Encoded(s[k + 1])
<1>1. Len(s) \in Nat /\ k + 1 \in 0..Len(s) /\ k + 1 \in 1..Len(s)
  BY LenProperties
<1>2. /\ f \in Seq(Seq(Byte)) /\ Len(f) = Len(s) - k
      /\ g \in Seq(Seq(Byte)) /\ Len(g) = Len(s) - (k + 1)
  BY <1>1, FramesType
<1>3. \A i \in 1..(Len(s) - (k + 1)) : f[i + 1] = g[i]
  <2> SUFFICES ASSUME NEW i \in 1..(Len(s) - (k + 1))
               PROVE  f[i + 1] = g[i]
    OBVIOUS
  <2>1. i + 1 \in 1..(Len(s) - k) /\ k + (i + 1) = (k + 1) + i
    BY <1>1
  <2> QED  BY <2>1 DEF Frames
<1>4. f[1] = x
  <2>1. 1 \in 1..(Len(s) - k)
    BY <1>1
  <2> QED  BY <2>1 DEF Frames
<1>5. x \in Seq(Byte)
  <2>1. s[k + 1] \in Messages
    BY <1>1, ElementOfSeq
  <2> QED  BY <2>1, FrameIsEncoded
<1> HIDE DEF f, g, x
<1>6. Len(f) = Len(g) + 1
  BY <1>1, <1>2
<1>7. FlattenSeq(g) \in Seq(Byte) /\ FlattenSeq(f) = x \o FlattenSeq(g)
  BY <1>2, <1>3, <1>4, <1>5, <1>6, FlattenFirst
<1> QED  BY <1>7 DEF f, g, x

\* A buffer that begins with some bytes holds the others when they are taken.
LEMMA RetriveTakes ==
  ASSUME NEW b, IsBuffer(b), NEW x \in Seq(Byte), NEW y \in Seq(Byte), Joined(Readable(b), x, y)
  PROVE  IsBuffer(Retrive(b, Len(x))) /\ Readable(Retrive(b, Len(x))) = y
<1>1. Len(x) \in Nat /\ Len(y) \in Nat /\ Len(x \o y) = Len(x) + Len(y)
  BY LenProperties, ConcatProperties
<1>2. ReadableBytes(b) = Len(x) + Len(y)
  BY <1>1, ReadableType DEF Joined
<1>3. Len(x) \in 0..ReadableBytes(b)
  BY <1>1, <1>2
<1>4. /\ IsBuffer(Retrive(b, Len(x)))
      /\ Readable(Retrive(b, Len(x))) = SubSeq(Readable(b), Len(x) + 1, ReadableBytes(b))
  BY <1>3, RetriveDrops
<1>5. SubSeq(x \o y, Len(x) + 1, Len(x) + Len(y)) = y
  BY CutConcat
<1> QED  BY <1>2, <1>4, <1>5 DEF Joined

-----------------------------------------------------------------------------
(* What is delivered is what was sent.                                      *)

\* With kHeaderLen bytes of what is on the way, onMessage() sees the length of the
\* next message, and no other.
LEMMA NextLength ==
  ASSUME NEW b, IsBuffer(b), NEW r \in Seq(Byte), NEW m \in Messages, NEW f \in Seq(Byte),
         NEW s, Joined(s, Readable(b), r), Joined(s, Encoded(m), f),
         ReadableBytes(b) >= kHeaderLen
  PROVE  HeaderValue(SubSeq(Readable(b), 1, kHeaderLen)) = Len(m)
<1> DEFINE a == Readable(b)
           h == Header(Len(m))
           y == m \o f
<1>1. m \in Seq(Byte) /\ Len(m) \in Nat /\ Len(m) < kBase ^ kHeaderLen
  BY MessagesAssumption, LenProperties
<1>2. h \in Seq(Byte) /\ Len(h) = kHeaderLen
  BY <1>1, HeaderType
<1>3. a \in Seq(Byte) /\ Len(a) = ReadableBytes(b) /\ Len(a) \in Nat
  BY ReadableType, BufferFacts
<1>4. HeaderValue(h) = Len(m)
  BY <1>1, LengthIsRead
<1>5. y \in Seq(Byte) /\ Joined(s, h, y)
  <2>1. s = (h \o m) \o f
    BY DEF Joined, Encoded
  <2> HIDE DEF h
  <2>2. (h \o m) \o f = h \o (m \o f)
    BY <1>1, <1>2, Associates, Zenon
  <2>3. y \in Seq(Byte)
    BY <1>1, ConcatProperties
  <2> QED  BY <2>1, <2>2, <2>3 DEF Joined
<1> HIDE DEF a, h, y
<1>6. Joined(s, a, r) /\ Len(h) <= Len(a)
  BY <1>2, <1>3 DEF a
<1>7. PICK x \in Seq(Byte) : Joined(a, h, x)
  BY <1>2, <1>3, <1>5, <1>6, SameFront
<1>8. SubSeq(a, 1, kHeaderLen) = h
  <2>1. SubSeq(h \o x, 1, Len(h)) = h
    BY <1>2, CutConcat
  <2> QED  BY <1>2, <1>7, <2>1 DEF Joined
<1> QED  BY <1>4, <1>8 DEF a

\* With the whole message there, it is taken, and what is on the way is what was
\* behind it.
LEMMA NextMessage ==
  ASSUME NEW b, IsBuffer(b), NEW r \in Seq(Byte), NEW m \in Messages, NEW f \in Seq(Byte),
         NEW s, Joined(s, Readable(b), r), Joined(s, Encoded(m), f),
         ReadableBytes(b) >= Len(m) + kHeaderLen
  PROVE  /\ SubSeq(Readable(Retrive(b, kHeaderLen)), 1, Len(m)) = m
         /\ IsBuffer(Retrive(Retrive(b, kHeaderLen), Len(m)))
         /\ Joined(f, Readable(Retrive(Retrive(b, kHeaderLen), Len(m))), r)
<1> DEFINE a == Readable(b)
           h == Header(Len(m))
           e == Encoded(m)
           rest == Retrive(b, kHeaderLen)
           last == Retrive(rest, Len(m))
<1>1. m \in Seq(Byte) /\ Len(m) \in Nat /\ kHeaderLen \in Nat
  BY MessagesAssumption, LenProperties, HeaderAssumption
<1>2. h \in Seq(Byte) /\ Len(h) = kHeaderLen
  BY <1>1, HeaderType
<1>3. a \in Seq(Byte) /\ Len(a) = ReadableBytes(b) /\ Len(a) \in Nat
  BY ReadableType, BufferFacts
<1>4. e = h \o m
  BY DEF Encoded
<1>5. Joined(s, a, r) /\ Joined(s, e, f)
  OBVIOUS
<1> HIDE DEF a, h, e
<1>6. e \in Seq(Byte) /\ Len(e) = kHeaderLen + Len(m)
  BY <1>1, <1>2, <1>4, ConcatProperties
<1>7. Len(e) <= Len(a)
  BY <1>1, <1>3, <1>6
<1>8. PICK x \in Seq(Byte) : Joined(a, e, x) /\ Joined(f, x, r)
  BY <1>3, <1>5, <1>6, <1>7, SameFront
<1> DEFINE y == m \o x
<1>9. y \in Seq(Byte) /\ Joined(a, h, y)
  <2>1. (h \o m) \o x = h \o (m \o x)
    BY <1>1, <1>2, Associates, Zenon
  <2>2. y \in Seq(Byte)
    BY <1>1, ConcatProperties
  <2> QED  BY <1>4, <1>8, <2>1, <2>2 DEF Joined
<1>10. Joined(y, m, x)
  BY DEF Joined
<1> HIDE DEF y
<1>11. IsBuffer(rest) /\ Readable(rest) = y
  <2>1. IsBuffer(Retrive(b, Len(h))) /\ Readable(Retrive(b, Len(h))) = y
    BY <1>2, <1>9, RetriveTakes DEF a
  <2> QED  BY <1>2, <2>1
<1> HIDE DEF rest
<1>12. IsBuffer(last) /\ Readable(last) = x
  BY <1>1, <1>10, <1>11, RetriveTakes
<1>13. SubSeq(Readable(rest), 1, Len(m)) = m
  BY <1>1, <1>10, <1>11, CutConcat DEF Joined
<1> HIDE DEF last
<1> QED  BY <1>8, <1>12, <1>13 DEF rest, last

\* What is on the way, seen from the receiver.
LEMMA FromTheReceiver ==
  ASSUME TypeOK
  PROVE  /\ Readable(inputBuffer) \in Seq(Byte) /\ Readable(outputBuffer) \in Seq(Byte)
         /\ wire \o Readable(outputBuffer) \in Seq(Byte)
         /\ Joined(OnTheWay, Readable(inputBuffer), wire \o Readable(outputBuffer))
<1> DEFINE x == Readable(inputBuffer)
           z == Readable(outputBuffer)
<1>1. x \in Seq(Byte) /\ wire \in Seq(Byte) /\ z \in Seq(Byte)
  BY ReadableType DEF TypeOK
<1>2. OnTheWay = (x \o wire) \o z
  BY DEF OnTheWay
<1> HIDE DEF x, z
<1>3. wire \o z \in Seq(Byte)
  BY <1>1, ConcatProperties
<1>4. (x \o wire) \o z = x \o (wire \o z)
  BY <1>1, Associates, Zenon
<1> QED  BY <1>1, <1>2, <1>3, <1>4 DEF x, z, Joined

\* What was delivered is what was sent first, message by message.
LEMMA PrefixOfMessages ==
  ASSUME NEW g \in Seq(Seq(Byte)), NEW s \in Seq(Messages)
  PROVE  IsPrefix(g, s) <=> Len(g) <= Len(s) /\ \A i \in 1..Len(g) : g[i] = s[i]
<1>1. Messages \subseteq Seq(Byte)
  BY MessagesAssumption
<1>2. s \in Seq(Seq(Byte))
  BY <1>1, SeqMonotonic
<1> QED  BY <1>2, PrefixMeans

\* MessagesIntact in terms of Frames and of single messages.
LEMMA IntactMeans ==
  ASSUME TypeOK
  PROVE  MessagesIntact <=>
           /\ Len(got) <= Len(sent) /\ \A i \in 1..Len(got) : got[i] = sent[i]
           /\ OnTheWay = FlattenSeq(Frames(sent, Len(got)))
           /\ shut => Len(got) < Len(sent) /\ Len(sent[Len(got) + 1]) > kMaxLength
<1>1. IsPrefix(got, sent) <=> Len(got) <= Len(sent) /\ \A i \in 1..Len(got) : got[i] = sent[i]
  BY PrefixOfMessages DEF TypeOK
<1> QED  BY <1>1 DEF MessagesIntact, Frames

\* Where onMessage() sees a length, it is that of the next message.
LEMMA LengthSeen ==
  ASSUME TypeOK, MessagesIntact, HasHeader
  PROVE  /\ Len(got) \in 0..Len(sent) /\ Len(got) < Len(sent)
         /\ sent[Len(got) + 1] \in Messages
         /\ Length = Len(sent[Len(got) + 1])
<1> DEFINE x == Readable(inputBuffer)
           r == wire \o Readable(outputBuffer)
           m == sent[Len(got) + 1]
           f == FlattenSeq(Frames(sent, Len(got) + 1))
<1>1. /\ x \in Seq(Byte) /\ r \in Seq(Byte) /\ Joined(OnTheWay, x, r)
  BY FromTheReceiver
<1>2. /\ IsBuffer(inputBuffer) /\ Len(x) = ReadableBytes(inputBuffer)
      /\ ReadableBytes(inputBuffer) \in Nat /\ ReadableBytes(inputBuffer) >= kHeaderLen
      /\ kHeaderLen \in Nat \ {0}
  BY ReadableType, BufferFacts, HeaderAssumption DEF TypeOK, HasHeader
<1>3. /\ sent \in Seq(Messages) /\ Len(sent) \in Nat /\ Len(got) \in Nat
      /\ Len(got) <= Len(sent) /\ OnTheWay = FlattenSeq(Frames(sent, Len(got)))
  BY IntactMeans, LenProperties DEF TypeOK
<1> HIDE DEF x, r
<1>4. Len(got) # Len(sent)
  <2> SUFFICES ASSUME Len(got) = Len(sent)
               PROVE  FALSE
    OBVIOUS
  <2>1. x \o r = <<>>
    BY <1>1, <1>3, FramesNone DEF Joined
  <2>2. x = <<>>
    BY <1>1, <2>1, ConcatSimplifications
  <2> QED  BY <1>2, <2>2, EmptySeq
<1>5. Len(got) \in 0..Len(sent) /\ Len(got) < Len(sent) /\ Len(got) + 1 \in 1..Len(sent)
  BY <1>3, <1>4
<1>6. m \in Messages
  BY <1>3, <1>5, ElementOfSeq
<1>7. f \in Seq(Byte) /\ Joined(OnTheWay, Encoded(m), f)
  BY <1>1, <1>3, <1>5, FramesToDeliver DEF Joined
<1> HIDE DEF m, f
<1>8. Length = Len(m)
  BY <1>1, <1>2, <1>6, <1>7, NextLength DEF Length, x
<1> QED  BY <1>5, <1>6, <1>8 DEF m

\* Three places one after the other: the form of OnTheWay.
Whole(x, w, z) == (x \o w) \o z

\* Bytes that move from one place to the next stay in order.
LEMMA Moved ==
  ASSUME NEW x \in Seq(Byte), NEW w \in Seq(Byte), NEW p \in Seq(Byte), NEW z \in Seq(Byte)
  PROVE  /\ Whole(x \o p, w, z) = Whole(x, p \o w, z)
         /\ Whole(x, w \o p, z) = Whole(x, w, p \o z)
<1>1. x \in Seq(Byte) /\ w \in Seq(Byte) /\ p \in Seq(Byte) /\ z \in Seq(Byte)
  OBVIOUS
<1>2. (x \o p) \o w = x \o (p \o w)
  BY <1>1, Associates, Zenon
<1>3. x \o w \in Seq(Byte)
  BY ConcatProperties
<1>4. (x \o w) \o p = x \o (w \o p)
  BY <1>1, Associates, Zenon
<1>5. ((x \o w) \o p) \o z = (x \o w) \o (p \o z)
  BY <1>1, <1>3, Associates, Zenon
<1> QED  BY <1>2, <1>4, <1>5, Zenon DEF Whole

\* Bytes that are sent come last, whether they are written at once or buffered.
LEMMA SentLast ==
  ASSUME NEW x \in Seq(Byte), NEW w \in Seq(Byte), NEW z \in Seq(Byte),
         NEW p \in Seq(Byte), NEW q \in Seq(Byte), z = <<>> \/ p = <<>>,
         NEW f, Joined(f, p, q), NEW wp, Joined(wp, w, p), NEW zq, Joined(zq, z, q)
  PROVE  Joined(Whole(x, wp, zq), Whole(x, w, z), f)
<1>1. /\ x \in Seq(Byte) /\ w \in Seq(Byte) /\ z \in Seq(Byte) /\ p \in Seq(Byte)
      /\ q \in Seq(Byte)
  OBVIOUS
<1>2. x \o w \in Seq(Byte)
  BY ConcatProperties
<1>3. Whole(x, w \o p, z \o q) = Whole(x, w, z) \o (p \o q)
  <2>1. CASE z = <<>>
    <3>1. Whole(x, w \o p, q) = Whole(x, w, p \o q)
      BY Moved
    <3>2. z \o q = q /\ (x \o w) \o z = x \o w
      BY <1>2, <2>1, ConcatEmptySeq
    <3> QED  BY <3>1, <3>2, Zenon DEF Whole
  <2>2. CASE p = <<>>
    <3>1. w \o p = w /\ p \o q = q
      BY <2>2, ConcatEmptySeq
    <3>2. ((x \o w) \o z) \o q = (x \o w) \o (z \o q)
      BY <1>1, <1>2, Associates, Zenon
    <3> QED  BY <3>1, <3>2, Zenon DEF Whole
  <2> QED  BY <2>1, <2>2
<1> QED  BY <1>3, Zenon DEF Joined

\* send() puts the frame of the message behind everything on the way.
LEMMA SendKeepsIntact ==
  ASSUME TypeOK, MessagesIntact, NEW m \in Messages, SendMessage(m)
  PROVE  MessagesIntact'
<1> DEFINE f == Readable(Frame(m))
           x == Readable(inputBuffer)
           z == Readable(outputBuffer)
<1>0. /\ sent \in Seq(Messages) /\ got \in Seq(Seq(Byte)) /\ wire \in Seq(Byte)
      /\ IsBuffer(inputBuffer) /\ IsBuffer(outputBuffer)
      /\ Len(sent) \in Nat /\ Len(got) \in Nat
  BY LenProperties DEF TypeOK
<1>1. /\ x \in Seq(Byte) /\ z \in Seq(Byte) /\ Len(z) = ReadableBytes(outputBuffer)
      /\ f = Encoded(m) /\ f \in Seq(Byte) /\ Len(f) \in Nat
  BY <1>0, ReadableType, FrameIsEncoded, LenProperties
<1>2. PICK n \in 0..Len(f) :
        /\ IF ReadableBytes(outputBuffer) = 0 THEN n > 0 ELSE n = 0
        /\ wire' = wire \o SubSeq(f, 1, n)
        /\ outputBuffer' = IF n = Len(f) THEN outputBuffer
                           ELSE AppendBytes(outputBuffer, SubSeq(f, n + 1, Len(f)))
  BY DEF SendMessage
<1>3. sent' = Append(sent, m) /\ inputBuffer' = inputBuffer /\ got' = got /\ shut' = shut
  BY DEF SendMessage, receiver
<1> DEFINE p == SubSeq(f, 1, n)
           q == SubSeq(f, n + 1, Len(f))
<1> HIDE DEF f, x, z
<1>4. p \in Seq(Byte) /\ Len(p) = n /\ q \in Seq(Byte) /\ f = p \o q
  BY <1>1, Cut
<1>5. Readable(outputBuffer') = z \o q
  <2>1. CASE n = Len(f)
    <3>1. q = <<>>
      BY <1>1, <2>1, SubSeqEmpty
    <3>2. z \o q = z
      BY <1>1, <3>1, ConcatEmptySeq
    <3> QED  BY <1>2, <2>1, <3>2 DEF z
  <2>2. CASE n # Len(f)
    <3>1. Readable(AppendBytes(outputBuffer, q)) = z \o q
      BY <1>0, <1>4, AppendAppends DEF z
    <3> QED  BY <1>2, <2>2, <3>1
  <2> QED  BY <2>1, <2>2
<1>6. z = <<>> \/ p = <<>>
  <2>1. CASE ReadableBytes(outputBuffer) = 0
    BY <1>1, <2>1, EmptySeq
  <2>2. CASE ReadableBytes(outputBuffer) # 0
    BY <1>2, <1>4, <2>2, EmptySeq
  <2> QED  BY <2>1, <2>2
<1> HIDE DEF p, q
<1>7. OnTheWay' = OnTheWay \o f
  <2>1. OnTheWay = Whole(x, wire, z)
    BY DEF OnTheWay, Whole, x, z
  <2>2. OnTheWay' = Whole(x, wire', Readable(outputBuffer)')
    BY <1>3 DEF OnTheWay, Whole, x
  <2>3. Joined(wire', wire, p) /\ Joined(Readable(outputBuffer'), z, q) /\ Joined(f, p, q)
    BY <1>2, <1>4, <1>5 DEF Joined, p
  <2>4. /\ x \in Seq(Byte) /\ wire \in Seq(Byte) /\ z \in Seq(Byte)
        /\ p \in Seq(Byte) /\ q \in Seq(Byte)
    BY <1>0, <1>1, <1>4
  <2>5. Joined(Whole(x, wire', Readable(outputBuffer')), Whole(x, wire, z), f)
    BY <1>6, <2>3, <2>4, SentLast
  <2> QED  BY <2>1, <2>2, <2>5 DEF Joined
<1>8. /\ Len(got) <= Len(sent) /\ \A i \in 1..Len(got) : got[i] = sent[i]
      /\ OnTheWay = FlattenSeq(Frames(sent, Len(got)))
      /\ shut => Len(got) < Len(sent) /\ Len(sent[Len(got) + 1]) > kMaxLength
  BY IntactMeans
<1>9. /\ sent' \in Seq(Messages) /\ Len(sent') = Len(sent) + 1
      /\ \A i \in 1..Len(sent) : sent'[i] = sent[i]
  BY <1>0, <1>3, AppendProperties
<1>10. IsPrefix(got, sent')
  <2>1. Len(got) <= Len(sent')
    BY <1>0, <1>8, <1>9
  <2>2. ASSUME NEW i \in 1..Len(got)
        PROVE  got[i] = sent'[i]
    <3>1. i \in 1..Len(sent)
      BY <1>0, <1>8
    <3> QED  BY <1>8, <1>9, <3>1
  <2> QED  BY <1>0, <1>9, <2>1, <2>2, PrefixOfMessages
<1>11. OnTheWay' = FlattenSeq(Frames(sent', Len(got)))
  <2>1. Len(got) \in 0..Len(sent)
    BY <1>0, <1>8
  <2>2. FlattenSeq(Frames(Append(sent, m), Len(got)))
          = FlattenSeq(Frames(sent, Len(got))) \o Encoded(m)
    BY <1>0, <2>1, FramesOfSent
  <2> QED  BY <1>1, <1>3, <1>7, <1>8, <2>2, Zenon
<1>12. shut' => Len(got) < Len(sent') /\ Len(sent'[Len(got) + 1]) > kMaxLength
  BY <1>0, <1>3, <1>8, <1>9
<1> QED  BY <1>3, <1>10, <1>11, <1>12 DEF MessagesIntact, Frames

\* handleWrite() moves bytes from the output buffer to the network.
LEMMA WriteKeepsIntact ==
  ASSUME TypeOK, MessagesIntact, WriteOut
  PROVE  MessagesIntact'
<1> DEFINE x == Readable(inputBuffer)
           z == Readable(outputBuffer)
<1>0. wire \in Seq(Byte) /\ IsBuffer(inputBuffer) /\ IsBuffer(outputBuffer)
  BY DEF TypeOK
<1>1. /\ x \in Seq(Byte) /\ z \in Seq(Byte) /\ Len(z) = ReadableBytes(outputBuffer)
      /\ ReadableBytes(outputBuffer) \in Nat
  BY <1>0, ReadableType, BufferFacts
<1>2. PICK n \in 1..ReadableBytes(outputBuffer) :
        /\ wire' = wire \o SubSeq(z, 1, n)
        /\ outputBuffer' = WriteFd(outputBuffer, n)
  BY DEF WriteOut
<1>3. UNCHANGED <<sent, receiver>>
  BY DEF WriteOut
<1> DEFINE p == SubSeq(z, 1, n)
           q == SubSeq(z, n + 1, Len(z))
<1> HIDE DEF x
<1>4. n \in 0..Len(z) /\ n \in 0..ReadableBytes(outputBuffer)
  BY <1>1
<1>5. Readable(outputBuffer') = q
  BY <1>0, <1>1, <1>2, <1>4, RetriveDrops DEF WriteFd
<1> HIDE DEF z
<1>6. p \in Seq(Byte) /\ q \in Seq(Byte) /\ z = p \o q
  BY <1>1, <1>4, Cut
<1> HIDE DEF p, q
<1>7. OnTheWay' = OnTheWay
  <2>1. OnTheWay = Whole(x, wire, p \o q)
    BY <1>6 DEF OnTheWay, Whole, x, z
  <2>2. OnTheWay' = Whole(x, wire \o p, q)
    BY <1>2, <1>3, <1>5 DEF OnTheWay, Whole, x, p, receiver
  <2>3. Whole(x, wire \o p, q) = Whole(x, wire, p \o q)
    <3>1. /\ x \in Seq(Byte) /\ wire \in Seq(Byte) /\ p \in Seq(Byte) /\ q \in Seq(Byte)
      BY <1>0, <1>1, <1>6
    <3> QED  BY <3>1, Moved
  <2> QED  BY <2>1, <2>2, <2>3
<1> QED  BY <1>3, <1>7 DEF MessagesIntact, receiver

\* handleRead() moves bytes from the network to the input buffer.
LEMMA ReceiveKeepsIntact ==
  ASSUME TypeOK, MessagesIntact, Receive
  PROVE  MessagesIntact'
<1> DEFINE x == Readable(inputBuffer)
           z == Readable(outputBuffer)
<1>0. /\ wire \in Seq(Byte) /\ Len(wire) \in Nat
      /\ IsBuffer(inputBuffer) /\ IsBuffer(outputBuffer)
  BY LenProperties DEF TypeOK
<1>1. x \in Seq(Byte) /\ z \in Seq(Byte)
  BY <1>0, ReadableType
<1>2. PICK n \in 1..Len(wire) :
        /\ inputBuffer' = ReadFd(inputBuffer, SubSeq(wire, 1, n))
        /\ wire' = SubSeq(wire, n + 1, Len(wire))
  BY DEF Receive
<1>3. UNCHANGED <<sender, shut, got>>
  BY DEF Receive
<1> DEFINE p == SubSeq(wire, 1, n)
           q == SubSeq(wire, n + 1, Len(wire))
<1> HIDE DEF x, z
<1>4. n \in 0..Len(wire)
  BY <1>0
<1>5. p \in Seq(Byte) /\ q \in Seq(Byte) /\ wire = p \o q
  BY <1>0, <1>4, Cut
<1>6. inputBuffer' = ReadFd(inputBuffer, p) /\ wire' = q
  BY <1>2
<1> HIDE DEF p, q
<1>7. Readable(inputBuffer') = x \o p
  BY <1>0, <1>5, <1>6, ReadFdAppends DEF x
<1>8. OnTheWay' = OnTheWay
  <2>1. OnTheWay = Whole(x, p \o q, z)
    BY <1>5 DEF OnTheWay, Whole, x, z
  <2>2. OnTheWay' = Whole(x \o p, q, z)
    BY <1>3, <1>6, <1>7 DEF OnTheWay, Whole, z, sender
  <2>3. Whole(x \o p, q, z) = Whole(x, p \o q, z)
    <3>1. /\ x \in Seq(Byte) /\ z \in Seq(Byte) /\ p \in Seq(Byte) /\ q \in Seq(Byte)
      BY <1>1, <1>5
    <3> QED  BY <3>1, Moved
  <2> QED  BY <2>1, <2>2, <2>3
<1> QED  BY <1>3, <1>8 DEF MessagesIntact, sender

\* onMessage() refuses a length only where the next message is too long.
LEMMA RefuseKeepsIntact ==
  ASSUME TypeOK, MessagesIntact, Refuse
  PROVE  MessagesIntact'
<1> DEFINE m == sent[Len(got) + 1]
<1>1. HasHeader /\ Length \notin 0..kMaxLength
  BY DEF Refuse, Invalid
<1>2. UNCHANGED <<sender, wire, inputBuffer, got>>
  BY DEF Refuse
<1>3. Len(got) < Len(sent) /\ m \in Messages /\ Length = Len(m)
  BY <1>1, LengthSeen
<1> HIDE DEF m
<1>4. Len(m) \in Nat /\ kMaxLength \in Nat
  BY <1>3, MessagesAssumption, LenProperties, BaseAssumption
<1>5. Len(m) > kMaxLength
  BY <1>1, <1>3, <1>4
<1> QED  BY <1>2, <1>3, <1>5 DEF MessagesIntact, OnTheWay, sender, m

\* onMessage() takes exactly the next message.
LEMMA DeliverKeepsIntact ==
  ASSUME TypeOK, MessagesIntact, Deliver
  PROVE  MessagesIntact'
<1> DEFINE m == sent[Len(got) + 1]
           x == Readable(inputBuffer)
           r == wire \o Readable(outputBuffer)
           f == FlattenSeq(Frames(sent, Len(got) + 1))
           k == Len(got)
<1>0. /\ sent \in Seq(Messages) /\ got \in Seq(Seq(Byte)) /\ IsBuffer(inputBuffer)
      /\ Len(sent) \in Nat /\ k \in Nat /\ kMaxLength \in Nat /\ wire \in Seq(Byte)
      /\ Readable(outputBuffer) \in Seq(Byte)
  BY LenProperties, BaseAssumption, ReadableType DEF TypeOK
<1>1. /\ HasHeader /\ Length \in 0..kMaxLength
      /\ ReadableBytes(inputBuffer) >= Length + kHeaderLen
      /\ got' = Append(got, SubSeq(Readable(Retrive(inputBuffer, kHeaderLen)), 1, Length))
      /\ inputBuffer' = Retrive(Retrive(inputBuffer, kHeaderLen), Length)
      /\ sent' = sent /\ outputBuffer' = outputBuffer /\ wire' = wire /\ shut' = shut
  BY DEF Deliver, Invalid, sender
<1>2. k \in 0..Len(sent) /\ k < Len(sent) /\ m \in Messages /\ Length = Len(m)
  BY <1>1, LengthSeen
<1>3. x \in Seq(Byte) /\ r \in Seq(Byte) /\ Joined(OnTheWay, x, r)
  BY FromTheReceiver
<1>4. /\ \A i \in 1..k : got[i] = sent[i]
      /\ OnTheWay = FlattenSeq(Frames(sent, k))
      /\ shut => k < Len(sent) /\ Len(m) > kMaxLength
  BY IntactMeans
<1>5. f \in Seq(Byte) /\ Joined(OnTheWay, Encoded(m), f)
  BY <1>0, <1>2, <1>4, FramesToDeliver DEF Joined
<1>6. m \in Seq(Byte) /\ Len(m) \in Nat
  BY <1>2, MessagesAssumption, LenProperties
<1> HIDE DEF m, r, f
<1>7. /\ SubSeq(Readable(Retrive(inputBuffer, kHeaderLen)), 1, Length) = m
      /\ IsBuffer(inputBuffer')
      /\ Joined(f, Readable(inputBuffer'), r)
  BY <1>0, <1>1, <1>2, <1>3, <1>5, NextMessage
<1>8. got' = Append(got, m)
  BY <1>1, <1>7
<1>9. /\ got' \in Seq(Seq(Byte)) /\ Len(got') = k + 1 /\ got'[k + 1] = m
      /\ \A i \in 1..k : got'[i] = got[i]
  BY <1>0, <1>6, <1>8, AppendProperties
<1>10. IsPrefix(got', sent')
  <2>1. \A i \in 1..(k + 1) : got'[i] = sent[i]
    <3> SUFFICES ASSUME NEW i \in 1..(k + 1)
                 PROVE  got'[i] = sent[i]
      OBVIOUS
    <3>1. CASE i = k + 1
      BY <1>9, <3>1 DEF m
    <3>2. CASE i # k + 1
      <4>1. i \in 1..k
        BY <1>0, <3>2
      <4> QED  BY <1>4, <1>9, <4>1
    <3> QED  BY <3>1, <3>2
  <2>2. k + 1 <= Len(sent)
    BY <1>0, <1>2
  <2>3. IsPrefix(got', sent)
    BY <1>0, <1>9, <2>1, <2>2, PrefixOfMessages
  <2> QED  BY <1>1, <2>3
<1>11. OnTheWay' = f
  <2> DEFINE y == Readable(inputBuffer')
             z == Readable(outputBuffer)
  <2>1. OnTheWay' = (y \o wire) \o z
    BY <1>1 DEF OnTheWay
  <2>2. f = y \o (wire \o z)
    BY <1>7 DEF Joined, r
  <2>3. y \in Seq(Byte) /\ wire \in Seq(Byte) /\ z \in Seq(Byte)
    BY <1>0, <1>7, ReadableType
  <2> HIDE DEF y, z
  <2>4. (y \o wire) \o z = y \o (wire \o z)
    BY <2>3, Associates, Zenon
  <2> QED  BY <2>1, <2>2, <2>4
<1>12. OnTheWay' = FlattenSeq(Frames(sent', Len(got')))
  BY <1>1, <1>9, <1>11 DEF f
<1>13. ~shut'
  BY <1>1, <1>2, <1>4, <1>6, <1>0
<1> QED  BY <1>10, <1>12, <1>13 DEF MessagesIntact, Frames

\* Nothing is lost, doubled or taken apart in the wrong place: what was delivered is
\* what was sent first, what is on the way is exactly the frames of the others, and
\* only a message that is too long shuts the connection.
THEOREM MessagesStayIntact == Spec => []MessagesIntact
<1>1. Init => MessagesIntact
  <2> SUFFICES ASSUME Init
               PROVE  MessagesIntact
    OBVIOUS
  <2>1. /\ sent = <<>> /\ got = <<>> /\ wire = <<>> /\ shut = FALSE
        /\ Readable(inputBuffer) = <<>> /\ Readable(outputBuffer) = <<>>
    BY NewBufferType DEF Init
  <2>2. <<>> \in Seq(Messages) /\ <<>> \in Seq(Seq(Byte)) /\ <<>> \in Seq(Byte)
    BY EmptySeq
  <2>3. IsPrefix(got, sent)
    <3>1. Len(got) <= Len(sent) /\ \A i \in 1..Len(got) : got[i] = sent[i]
      BY <2>1
    <3> QED  BY <2>1, <2>2, <3>1, PrefixOfMessages
  <2>4. OnTheWay = <<>>
    <3>1. <<>> \o <<>> = <<>>
      BY <2>2, ConcatEmptySeq
    <3> QED  BY <2>1, <3>1 DEF OnTheWay
  <2>5. FlattenSeq(Frames(sent, Len(got))) = <<>>
    BY <2>1, <2>2, FramesNone
  <2> QED  BY <2>1, <2>3, <2>4, <2>5 DEF MessagesIntact, Frames
<1>2. TypeOK /\ MessagesIntact /\ [Next]_vars => MessagesIntact'
  <2> SUFFICES ASSUME TypeOK, MessagesIntact, [Next]_vars
               PROVE  MessagesIntact'
    OBVIOUS
  <2>1. ASSUME NEW m \in Messages, SendMessage(m)
        PROVE  MessagesIntact'
    BY <2>1, SendKeepsIntact
  <2>2. CASE WriteOut
    BY <2>2, WriteKeepsIntact
  <2>3. CASE Receive
    BY <2>3, ReceiveKeepsIntact
  <2>4. CASE Incomplete
    BY <2>4 DEF Incomplete, MessagesIntact, OnTheWay, sender
  <2>5. CASE Refuse
    BY <2>5, RefuseKeepsIntact
  <2>6. CASE Deliver
    BY <2>6, DeliverKeepsIntact
  <2>7. CASE UNCHANGED vars
    BY <2>7 DEF MessagesIntact, OnTheWay, vars, sender, receiver
  <2> QED  BY <2>1, <2>2, <2>3, <2>4, <2>5, <2>6, <2>7 DEF Next, Decode
<1> QED  BY <1>1, <1>2, TypeCorrect, PTL DEF Spec
-----------------------------------------------------------------------------
(* Both ends and the stream between them are a channel of messages.        *)

\* What the channel refuses.
LEMMA TooLongMeans ==
  ASSUME TypeOK, Channel!Waits, Len(sent[Len(got) + 1]) \in Nat
  PROVE  /\ Channel!Oldest \in Messages
         /\ Channel!Oldest \in {m \in Messages : Len(m) > kMaxLength}
              <=> Len(sent[Len(got) + 1]) > kMaxLength
<1>1. sent \in Seq(Messages) /\ Len(sent) \in Nat /\ Len(got) \in Nat
  BY LenProperties DEF TypeOK
<1>2. Len(got) + 1 \in 1..Len(sent)
  BY <1>1 DEF Channel!Waits
<1>3. sent[Len(got) + 1] \in Messages
  BY <1>1, <1>2, ElementOfSeq
<1> QED  BY <1>3 DEF Channel!Oldest

\* onMessage() takes apart the oldest message that was not delivered.
LEMMA DeliverIsDeliver ==
  ASSUME TypeOK, TypeOK', MessagesIntact, MessagesIntact', Deliver
  PROVE  Channel!Deliver
<1> DEFINE k == Len(got)
           x == SubSeq(Readable(Retrive(inputBuffer, kHeaderLen)), 1, Length)
<1>1. /\ got' = Append(got, x) /\ sent' = sent /\ shut' = shut
      /\ Length \in 0..kMaxLength /\ kMaxLength \in Nat
      /\ HasHeader /\ ReadableBytes(inputBuffer) >= Length + kHeaderLen
  BY BaseAssumption DEF Deliver, Invalid, sender
<1>2. k < Len(sent) /\ Length = Len(sent[k + 1])
  BY <1>1, LengthSeen
<1> HIDE DEF x
<1>3. /\ got \in Seq(Seq(Byte)) /\ got' \in Seq(Seq(Byte)) /\ sent \in Seq(Messages)
      /\ k \in Nat /\ Len(got') = k + 1 /\ got'[k + 1] = x
  BY <1>1, LenProperties DEF TypeOK
<1>4. IsPrefix(got', sent)
  BY <1>1 DEF MessagesIntact
<1>5. got'[k + 1] = sent[k + 1]
  <2>1. \A i \in 1..Len(got') : got'[i] = sent[i]
    BY <1>3, <1>4, PrefixOfMessages
  <2> QED  BY <1>3, <2>1
<1>6. Channel!Waits /\ Channel!Oldest = x
  BY <1>2, <1>3, <1>5 DEF Channel!Waits, Channel!Oldest
<1>7. Channel!Oldest \notin {m \in Messages : Len(m) > kMaxLength}
  BY <1>1, <1>2, <1>6, TooLongMeans
<1>8. ~shut /\ shut \in BOOLEAN
  BY <1>1, <1>2 DEF MessagesIntact, TypeOK
<1> QED  BY <1>1, <1>6, <1>7, <1>8 DEF Channel!Deliver

\* An invalid length is that of a message that is too long; seeing it again changes nothing.
LEMMA RefuseIsRefuse ==
  ASSUME TypeOK, MessagesIntact', Refuse
  PROVE  Channel!Refuse \/ UNCHANGED Channel!vars
<1>1. sent' = sent /\ got' = got /\ shut' = TRUE /\ shut \in BOOLEAN
  BY DEF Refuse, TypeOK, sender
<1>2. Len(got) < Len(sent) /\ Len(sent[Len(got) + 1]) > kMaxLength
  BY <1>1 DEF MessagesIntact
<1>3. CASE shut
  BY <1>1, <1>3 DEF Channel!vars
<1>4. CASE ~shut
  <2>1. Channel!Waits
    BY <1>2 DEF Channel!Waits
  <2>2. Len(sent[Len(got) + 1]) \in Nat
    <3>1. Len(got) + 1 \in 1..Len(sent) /\ sent \in Seq(Messages)
      BY <1>2, LenProperties DEF TypeOK
    <3>2. sent[Len(got) + 1] \in Messages
      BY <3>1, ElementOfSeq
    <3> QED  BY <3>2, MessagesAssumption, LenProperties
  <2>3. Channel!Oldest \in {m \in Messages : Len(m) > kMaxLength}
    BY <1>2, <2>1, <2>2, TooLongMeans
  <2> QED  BY <1>1, <1>4, <2>1, <2>3 DEF Channel!Refuse
<1> QED  BY <1>1, <1>3, <1>4

\* Codec implements MessageChannel: through headers, buffers that grow and move their
\* bytes, and a stream that is cut anywhere, send() and onMessage() deliver every message
\* once, whole and in order, and after an invalid length nothing more.
THEOREM CodecIsMessageChannel == Spec => IsMessageChannel
<1>1. Init => Channel!Init
  BY DEF Init, Channel!Init
<1>2. TypeOK /\ TypeOK' /\ MessagesIntact /\ MessagesIntact' /\ [Next]_vars
        => [Channel!Next]_(Channel!vars)
  <2> SUFFICES ASSUME TypeOK, TypeOK', MessagesIntact, MessagesIntact', [Next]_vars
               PROVE  Channel!Next \/ UNCHANGED Channel!vars
    OBVIOUS
  <2>1. ASSUME NEW m \in Messages, SendMessage(m)
        PROVE  Channel!Next
    BY <2>1 DEF SendMessage, receiver, Channel!Send, Channel!Next
  <2>2. CASE WriteOut \/ Receive \/ Incomplete \/ UNCHANGED vars
    BY <2>2 DEF WriteOut, Receive, Incomplete, vars, sender, receiver, Channel!vars
  <2>3. CASE Refuse
    BY <2>3, RefuseIsRefuse DEF Channel!Next
  <2>4. CASE Deliver
    BY <2>4, DeliverIsDeliver DEF Channel!Next
  <2> QED  BY <2>1, <2>2, <2>3, <2>4 DEF Next, Decode
<1> QED
  BY <1>1, <1>2, TypeCorrect, MessagesStayIntact, PTL DEF Spec, IsMessageChannel, Channel!Spec
-----------------------------------------------------------------------------
(* onMessage() does not wait with a message in its buffer: what            *)
(* EveryMessageArrives adds to this is fairness.                           *)

\* Between two calls of onMessage() the buffer holds no whole message, unless it
\* begins with a length that was refused.
Asleep ==
  ~decoding /\ HasHeader =>
    IF Invalid THEN shut ELSE ReadableBytes(inputBuffer) < Length + kHeaderLen

\* Nothing is left to be done, at the sender, in the network or in onMessage().
Idle == ~decoding /\ wire = <<>> /\ ReadableBytes(outputBuffer) = 0

\* When both ends are idle every message has been delivered, or one was refused.
IdleIsComplete == Idle => shut \/ got = sent

LEMMA AlwaysAsleep == Spec => []Asleep
<1>1. Init => Asleep
  <2> SUFFICES ASSUME Init
               PROVE  ~HasHeader
    BY DEF Asleep
  <2>1. ReadableBytes(inputBuffer) = 0
    BY NewBufferType, ReadableType, EmptySeq DEF Init
  <2> QED  BY <2>1, HeaderAssumption DEF HasHeader
<1>2. Asleep /\ [Next]_vars => Asleep'
  <2> SUFFICES ASSUME Asleep, [Next]_vars
               PROVE  Asleep'
    OBVIOUS
  <2>1. CASE UNCHANGED receiver
    BY <2>1 DEF Asleep, receiver, HasHeader, Invalid, Length
  <2>2. CASE Receive \/ Deliver
    BY <2>2 DEF Receive, Deliver, Asleep
  <2>3. CASE Incomplete \/ Refuse
    BY <2>3 DEF Incomplete, Refuse, Asleep, HasHeader, Invalid, Length
  <2>4. (\E m \in Messages : SendMessage(m)) \/ WriteOut \/ UNCHANGED vars => UNCHANGED receiver
    BY DEF SendMessage, WriteOut, vars
  <2> QED  BY <2>1, <2>2, <2>3, <2>4 DEF Next, Decode
<1> QED  BY <1>1, <1>2, PTL DEF Spec

\* With nothing behind it, all that is on the way is in the receiver's buffer.
LEMMA AllReceived ==
  ASSUME TypeOK, wire = <<>>, ReadableBytes(outputBuffer) = 0
  PROVE  Readable(inputBuffer) = OnTheWay
<1> DEFINE x == Readable(inputBuffer)
           z == Readable(outputBuffer)
<1>1. x \in Seq(Byte) /\ z \in Seq(Byte) /\ Len(z) = 0
  BY ReadableType DEF TypeOK
<1> HIDE DEF x, z
<1>2. z = <<>>
  BY <1>1, EmptySeq
<1>3. x \o <<>> = x
  BY <1>1, ConcatEmptySeq
<1>4. OnTheWay = (x \o wire) \o z
  BY DEF OnTheWay, x, z
<1> QED  BY <1>2, <1>3, <1>4 DEF x

\* A message that was sent and not delivered is, once all is received, a whole one in
\* the buffer, which Asleep rules out.
LEMMA NoneWaits ==
  ASSUME TypeOK, MessagesIntact, Asleep, Idle, Len(got) < Len(sent)
  PROVE  shut
<1> DEFINE m == sent[Len(got) + 1]
           f == FlattenSeq(Frames(sent, Len(got) + 1))
<1>1. /\ sent \in Seq(Messages) /\ Len(sent) \in Nat /\ Len(got) \in Nat
      /\ Len(got) \in 0..Len(sent) /\ Len(got) + 1 \in 1..Len(sent)
      /\ OnTheWay = FlattenSeq(Frames(sent, Len(got)))
  BY IntactMeans, LenProperties DEF TypeOK
<1>2. f \in Seq(Byte) /\ Readable(inputBuffer) = Encoded(m) \o f
  BY <1>1, AllReceived, FramesToDeliver DEF Idle
<1>3. m \in Messages
  BY <1>1, ElementOfSeq
<1> HIDE DEF m, f
<1>4. m \in Seq(Byte) /\ Len(m) \in Nat /\ kHeaderLen \in Nat
  BY <1>3, MessagesAssumption, LenProperties, HeaderAssumption
<1>5. Encoded(m) \in Seq(Byte) /\ Len(Encoded(m)) = kHeaderLen + Len(m)
  <2>1. Header(Len(m)) \in Seq(Byte) /\ Len(Header(Len(m))) = kHeaderLen
    BY <1>4, HeaderType
  <2> QED  BY <1>4, <2>1, ConcatProperties DEF Encoded
<1>6. ReadableBytes(inputBuffer) = kHeaderLen + Len(m) + Len(f) /\ Len(f) \in Nat
  <2>1. Len(Readable(inputBuffer)) = ReadableBytes(inputBuffer)
    BY ReadableType DEF TypeOK
  <2>2. Len(Encoded(m) \o f) = Len(Encoded(m)) + Len(f) /\ Len(f) \in Nat
    BY <1>2, <1>5, ConcatProperties, LenProperties
  <2> QED  BY <1>2, <1>5, <2>1, <2>2
<1>7. HasHeader
  BY <1>4, <1>6 DEF HasHeader
<1>8. Length = Len(m)
  BY <1>7, LengthSeen DEF m
<1>9. ~(ReadableBytes(inputBuffer) < Length + kHeaderLen)
  BY <1>4, <1>6, <1>8
<1> QED  BY <1>7, <1>9 DEF Asleep, Idle

\* No message is left behind: when the network and both buffers have nothing to do,
\* all that was sent has been delivered, or a message that is too long came first.
THEOREM NoMessageIsLeft == Spec => []IdleIsComplete
<1>1. ASSUME TypeOK, MessagesIntact, Asleep, Idle, ~shut
      PROVE  got = sent
  <2>1. /\ Len(got) <= Len(sent) /\ \A i \in 1..Len(got) : got[i] = sent[i]
        /\ got \in Seq(Seq(Byte)) /\ sent \in Seq(Messages)
        /\ Len(got) \in Nat /\ Len(sent) \in Nat
    BY <1>1, IntactMeans, LenProperties DEF TypeOK
  <2>2. Len(got) = Len(sent)
    BY <1>1, <2>1, NoneWaits
  <2> QED  BY <2>1, <2>2, SeqEqual
<1>2. TypeOK /\ MessagesIntact /\ Asleep => IdleIsComplete
  BY <1>1 DEF IdleIsComplete
<1> QED  BY <1>2, TypeCorrect, MessagesStayIntact, AlwaysAsleep, PTL
=============================================================================
