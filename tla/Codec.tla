------------------------------- MODULE Codec -------------------------------
(***************************************************************************)
(* LengthHeaderCodec at both ends of a connection: messages are framed     *)
(* with their length, pass the output buffer of the sender, the network,   *)
(* which cuts the stream anywhere, and the input buffer of the receiver,   *)
(* and are taken apart again.  The sender is its loop's own thread, and no *)
(* direct write is refused; the other cases are in TcpConnection.          *)
(***************************************************************************)
EXTENDS Buffer, SequencesExt

CONSTANTS kHeaderLen,     \* bytes of a length
          kBase,          \* values of a byte: a length is a number to this base
          kMaxLength,     \* onMessage() refuses more
          Messages,       \* what is sent
          MaxSent         \* bound: how many messages are sent

Byte == 0..(kBase - 1)

ASSUME HeaderAssumption == kHeaderLen \in Nat \ {0} /\ kHeaderLen <= kCheapPrepend
ASSUME BaseAssumption == kBase \in Nat \ {0, 1} /\ kMaxLength \in Nat /\ MaxSent \in Nat
\* What the weights of the digits are: the powers of kBase, named for the proofs.
ASSUME PowersAssumption ==
  kBase ^ 0 = 1 /\ \A i \in 0..(kHeaderLen - 1) : kBase ^ (i + 1) = kBase ^ i * kBase
ASSUME MessagesAssumption ==
  \A m \in Messages : m \in Seq(Byte) /\ Len(m) < kBase ^ kHeaderLen

VARIABLES
  sent,         \* messages given to the codec's send()
  outputBuffer, \* of the sender's connection
  wire,         \* bytes in the network
  inputBuffer,  \* of the receiver's connection
  decoding,     \* onMessage() is running
  shut,         \* onMessage() has called shutdown()
  got           \* messages delivered

sender   == <<sent, outputBuffer>>
receiver == <<inputBuffer, decoding, shut, got>>
vars     == <<sender, wire, receiver>>

Init ==
  /\ sent = <<>> /\ outputBuffer = NewBuffer
  /\ wire = <<>>
  /\ inputBuffer = NewBuffer /\ decoding = FALSE /\ shut = FALSE /\ got = <<>>

\* htobe32() and be32toh()
Header(len) == [i \in 1..kHeaderLen |-> (len \div kBase ^ (kHeaderLen - i)) % kBase]
HeaderValue(bytes) ==
  LET v[i \in 0..Len(bytes)] == IF i = 0 THEN 0 ELSE v[i - 1] * kBase + bytes[i]
  IN v[Len(bytes)]

\* The buffer the codec's send() fills.
Frame(m) == Prepend(AppendBytes(NewBuffer, m), Header(Len(m)))
-----------------------------------------------------------------------------
\* send(): what is not written at once goes behind what is buffered.
SendMessage(m) ==
  /\ Len(sent) < MaxSent
  /\ sent' = Append(sent, m)
  /\ LET bytes == Readable(Frame(m)) IN
     \E n \in 0..Len(bytes) :
       /\ IF ReadableBytes(outputBuffer) = 0 THEN n > 0 ELSE n = 0
       /\ wire' = wire \o SubSeq(bytes, 1, n)
       /\ outputBuffer' = IF n = Len(bytes) THEN outputBuffer
                          ELSE AppendBytes(outputBuffer, SubSeq(bytes, n + 1, Len(bytes)))
  /\ UNCHANGED receiver

\* handleWrite() of the sender.
WriteOut ==
  /\ \E n \in 1..ReadableBytes(outputBuffer) :
       /\ wire' = wire \o SubSeq(Readable(outputBuffer), 1, n)
       /\ outputBuffer' = WriteFd(outputBuffer, n)
  /\ UNCHANGED <<sent, receiver>>

\* handleRead() of the receiver, which calls onMessage().
Receive ==
  /\ ~decoding
  /\ \E n \in 1..Len(wire) :
       /\ n <= MaxRead(inputBuffer)
       /\ inputBuffer' = ReadFd(inputBuffer, SubSeq(wire, 1, n))
       /\ wire' = SubSeq(wire, n + 1, Len(wire))
  /\ decoding' = TRUE
  /\ UNCHANGED <<sender, shut, got>>

HasHeader == ReadableBytes(inputBuffer) >= kHeaderLen
Length == HeaderValue(SubSeq(Readable(inputBuffer), 1, kHeaderLen))
Invalid == Length \notin 0..kMaxLength

\* onMessage(): nothing more to take apart.
Incomplete ==
  /\ decoding
  /\ HasHeader => ~Invalid /\ ReadableBytes(inputBuffer) < Length + kHeaderLen
  /\ decoding' = FALSE
  /\ UNCHANGED <<sender, wire, inputBuffer, shut, got>>

\* Mutant of Refuse: the invalid length is taken out of the buffer.
RefuseSkips ==
  /\ decoding /\ HasHeader /\ Invalid
  /\ decoding' = FALSE
  /\ shut' = TRUE
  /\ inputBuffer' = Retrive(inputBuffer, kHeaderLen)
  /\ UNCHANGED <<sender, wire, got>>

\* onMessage(): the length is invalid, and stays in the buffer.
Refuse ==
  /\ decoding /\ HasHeader /\ Invalid
  /\ decoding' = FALSE
  /\ shut' = TRUE
  /\ UNCHANGED <<sender, wire, inputBuffer, got>>

\* Mutant of Deliver: one message each time that something is read.
DeliverOne ==
  /\ decoding /\ HasHeader /\ ~Invalid
  /\ ReadableBytes(inputBuffer) >= Length + kHeaderLen
  /\ LET rest == Retrive(inputBuffer, kHeaderLen) IN
       /\ got' = Append(got, SubSeq(Readable(rest), 1, Length))
       /\ inputBuffer' = Retrive(rest, Length)
  /\ decoding' = FALSE
  /\ UNCHANGED <<sender, wire, shut>>

\* onMessage(): one message; the loop goes on.
Deliver ==
  /\ decoding /\ HasHeader /\ ~Invalid
  /\ ReadableBytes(inputBuffer) >= Length + kHeaderLen
  /\ LET rest == Retrive(inputBuffer, kHeaderLen) IN
       /\ got' = Append(got, SubSeq(Readable(rest), 1, Length))
       /\ inputBuffer' = Retrive(rest, Length)
  /\ UNCHANGED <<sender, wire, decoding, shut>>

Decode == Incomplete \/ Refuse \/ Deliver

Next == (\E m \in Messages : SendMessage(m)) \/ WriteOut \/ Receive \/ Decode

Spec == Init /\ [][Next]_vars

\* Fairness: both loops run and the network delivers.  Nobody need send.
FairSpec == Spec /\ WF_vars(WriteOut) /\ WF_vars(Receive) /\ WF_vars(Decode)
-----------------------------------------------------------------------------
(* Properties.                                                              *)

\* The offsets of a buffer are in order and within its vector.
IsBuffer(b) ==
  /\ b \in [cells : Seq(Byte), read : Nat, write : Nat]
  /\ kCheapPrepend <= b.read /\ b.read <= b.write /\ b.write <= Len(b.cells)

\* Types; the offsets of both buffers stay in order and within their vectors, and
\* kCheapPrepend bytes stay free in front.
TypeOK ==
  /\ sent \in Seq(Messages)
  /\ IsBuffer(outputBuffer) /\ IsBuffer(inputBuffer)
  /\ wire \in Seq(Byte)
  /\ decoding \in BOOLEAN /\ shut \in BOOLEAN
  /\ got \in Seq(Seq(Byte))

\* Wherever the stream is cut and the buffers grow or move their bytes: what was
\* delivered is what was sent first, the bytes on the way are exactly the frames of
\* the other messages, and only a message that is too long shuts the connection.
Encoded(m) == Header(Len(m)) \o m
OnTheWay == Readable(inputBuffer) \o wire \o Readable(outputBuffer)
MessagesIntact ==
  /\ IsPrefix(got, sent)
  /\ OnTheWay = FlattenSeq([i \in 1..(Len(sent) - Len(got)) |-> Encoded(sent[Len(got) + i])])
  /\ shut => Len(got) < Len(sent) /\ Len(sent[Len(got) + 1]) > kMaxLength

\* The codec at both ends, with all that is between them, is a channel of messages: it
\* delivers each one once, whole and in order, and after an invalid length nothing more,
\* although onMessage() is called again whenever bytes arrive.
Channel == INSTANCE MessageChannel
             WITH TooLong <- {m \in Messages : Len(m) > kMaxLength}, refused <- shut
IsMessageChannel == Channel!Spec

\* Every message is delivered, unless one that is too long came before: the codec
\* does not wait for more input with a whole message in its buffer.
EveryMessageArrives ==
  \A k \in 1..MaxSent : Len(sent) >= k ~> Len(got) >= k \/ shut
=============================================================================
