------------------------ MODULE TcpConnectionProofs ------------------------
(***************************************************************************)
(* Proofs about TcpConnection, for any number of threads, calls and        *)
(* messages: connectEstablished runs once, the stream is not mixed up      *)
(* until a direct write fails without faultError, buffered bytes are       *)
(* watched, and shutdown() waits for them.                                 *)
(***************************************************************************)
EXTENDS TcpConnection, SequenceTheorems, TLAPS

\* connectEstablished is the first functor of the connection, and the only one
\* of its kind.
EstablishFirst ==
  /\ \A i \in DOMAIN batch : batch[i].op = "establish" => i = 1 /\ ups = 0
  /\ \A i \in DOMAIN pending : pending[i].op = "establish" => i = 1 /\ ups = 0 /\ batch = <<>>

Inv == TypeOK /\ EstablishFirst

\* The functors of q that bring the connection up are those of p, if any.
BringsUpAs(q, p) ==
  \A i \in DOMAIN q : q[i].op = "establish" => i \in DOMAIN p /\ q[i] = p[i]
-----------------------------------------------------------------------------
(* Types of what the actions put together.                                  *)

\* The bytes of a message, and those that a refused write() leads to.
LEMMA MessageBytes ==
  ASSUME NEW s \in Callers, NEW k \in Nat
  PROVE  /\ Data(s, k) \in Seq(Bytes) /\ Len(Data(s, k)) = 2
         /\ Before(s, k) \in Seq(Bytes) /\ Len(Before(s, k)) = 2
<1>1. \A i \in 1..2 : <<s, k, i>> \in Bytes /\ <<s, k, i - 1>> \in Bytes
  <2> SUFFICES ASSUME NEW i \in 1..2 PROVE <<s, k, i>> \in Bytes /\ <<s, k, i - 1>> \in Bytes
    OBVIOUS
  <2>1. i \in 0..2 /\ i - 1 \in 0..2
    OBVIOUS
  <2> QED  BY <2>1 DEF Bytes
<1>2. Data(s, k) \in [1..2 -> Bytes] /\ Before(s, k) \in [1..2 -> Bytes]
  BY <1>1 DEF Data, Before
<1>3. Data(s, k) \in Seq(Bytes) /\ Before(s, k) \in Seq(Bytes)
  <2>1. \A f \in [1..2 -> Bytes] : f \in Seq(Bytes)
    BY SeqDef
  <2> QED  BY <1>2, <2>1
<1>4. DOMAIN Data(s, k) = 1..2 /\ DOMAIN Before(s, k) = 1..2
  BY <1>2
<1>5. \A m, j \in Nat : 1..m = 1..j => m = j
  OBVIOUS
<1> QED  BY <1>3, <1>4, <1>5, LenProperties

\* Parts of what write() is given.
LEMMA PartOfBytes ==
  ASSUME NEW bs \in Seq(Bytes), NEW n \in 1..Len(bs)
  PROVE  /\ SubSeq(bs, 1, n) \in Seq(Bytes) /\ SubSeq(bs, n + 1, Len(bs)) \in Seq(Bytes)
         /\ SubSeq(bs, 1, n) \o SubSeq(bs, n + 1, Len(bs)) = bs
         /\ Len(SubSeq(bs, n + 1, Len(bs))) = Len(bs) - n
<1>1. Len(bs) \in Nat /\ n \in Nat /\ n <= Len(bs) /\ \A i \in 1..Len(bs) : bs[i] \in Bytes
  BY LenProperties, ElementOfSeq
<1>2. SubSeq(bs, 1, n) \in Seq(Bytes)
  <2>1. \A i \in 1..n : bs[i] \in Bytes
    BY <1>1
  <2> QED  BY <1>1, <2>1, SubSeqProperties
<1>3. SubSeq(bs, n + 1, Len(bs)) \in Seq(Bytes) /\ Len(SubSeq(bs, n + 1, Len(bs))) = Len(bs) - n
  <2>1. /\ n + 1 \in Int /\ Len(bs) \in Int /\ \A i \in (n + 1)..Len(bs) : bs[i] \in Bytes
        /\ (IF n + 1 <= Len(bs) THEN Len(bs) - (n + 1) + 1 ELSE 0) = Len(bs) - n
    BY <1>1
  <2>2. /\ SubSeq(bs, n + 1, Len(bs)) \in Seq(Bytes)
        /\ Len(SubSeq(bs, n + 1, Len(bs)))
             = IF n + 1 <= Len(bs) THEN Len(bs) - (n + 1) + 1 ELSE 0
    BY <2>1, SubSeqProperties
  <2> QED  BY <2>1, <2>2
<1>4. SubSeq(bs, 1, n) \o SubSeq(bs, n + 1, Len(bs)) = bs
  <2>1. 1 \in 1..(Len(bs) + 1) /\ n \in (1 - 1)..Len(bs) /\ Len(bs) \in n..Len(bs)
    BY <1>1
  <2> QED  BY <2>1, ConcatAdjacentSubSeq, SubSeqFull
<1> QED  BY <1>2, <1>3, <1>4

\* Calls are pushed in front of the others.
LEMMA PushCall ==
  ASSUME NEW rest \in Seq(Calls)
  PROVE  /\ <<"user">> \o rest \in Seq(Calls)
         /\ <<"user", "closeCallback">> \o rest \in Seq(Calls)
         /\ <<>> \in Seq(Calls) /\ <<"user">> \in Seq(Calls)
         /\ <<"remove">> \in Seq(Calls) /\ <<"down", "remove">> \in Seq(Calls)
  BY ConcatProperties DEF Calls

\* handleEventWithGuard() makes calls of the connection.
LEMMA CallbacksAreCalls ==
  ASSUME NEW revents
  PROVE  Callbacks(revents) \o <<"take">> \in Seq(Calls)
<1> DEFINE Run(name, cond) == IF cond THEN <<name>> ELSE <<>>
<1>1. \A cond : \A name \in Calls : Run(name, cond) \in Seq(Calls)
  OBVIOUS
<1>2. \A a, b \in Seq(Calls) : a \o b \in Seq(Calls)
  BY ConcatProperties
<1>3. "close" \in Calls /\ "error" \in Calls /\ "read" \in Calls /\ "write" \in Calls
  BY DEF Calls
<1>4. <<"take">> \in Seq(Calls)
  BY DEF Calls
<1>5. Callbacks(revents) =
        Run("close", "hup" \in revents /\ "in" \notin revents)
        \o Run("error", "err" \in revents) \o Run("read",  "in"  \in revents)
        \o Run("write", "out" \in revents)
  BY DEF Callbacks
<1> HIDE DEF Run
<1> QED  BY <1>1, <1>2, <1>3, <1>4, <1>5

\* What follows the first element.
LEMMA TailOf ==
  ASSUME NEW S, NEW s \in Seq(S), s # <<>>
  PROVE  /\ Head(s) \in S /\ Tail(s) \in Seq(S) /\ Head(s) = s[1] /\ 1 \in DOMAIN s
         /\ \A i \in DOMAIN Tail(s) : i \in Nat \ {0} /\ i + 1 \in DOMAIN s /\ Tail(s)[i] = s[i + 1]
<1>1. /\ Head(s) \in S /\ Tail(s) \in Seq(S) /\ Len(Tail(s)) = Len(s) - 1
      /\ \A i \in 1..Len(Tail(s)) : Tail(s)[i] = s[i + 1]
  BY HeadTailProperties
<1>2. Len(s) \in Nat \ {0} /\ DOMAIN s = 1..Len(s) /\ Head(s) = s[1]
  BY LenProperties, EmptySeq
<1>3. DOMAIN Tail(s) = 1..(Len(s) - 1)
  BY <1>1, LenProperties
<1> QED  BY <1>1, <1>2, <1>3

\* A functor that is queued does not bring the connection up.
LEMMA QueuedLater ==
  ASSUME NEW q \in Seq(Functors), NEW f \in Functors, f.op # "establish"
  PROVE  Append(q, f) \in Seq(Functors) /\ BringsUpAs(Append(q, f), q)
<1>1. /\ Append(q, f) \in Seq(Functors) /\ Len(Append(q, f)) = Len(q) + 1
      /\ \A i \in 1..Len(q) : Append(q, f)[i] = q[i]
      /\ Append(q, f)[Len(q) + 1] = f
  BY AppendProperties
<1>2. Len(q) \in Nat /\ DOMAIN q = 1..Len(q) /\ DOMAIN Append(q, f) = 1..(Len(q) + 1)
  BY <1>1, LenProperties
<1> QED  BY <1>1, <1>2 DEF BringsUpAs

\* The functors the connection queues.
LEMMA FunctorTypes ==
  /\ \A op \in {"shutdown", "forceClose", "destroy", "writeComplete", "highWater"} :
       Functor(op) \in Functors /\ Functor(op).op # "establish"
  /\ Functor("establish") \in Functors
  /\ \A u \in Users, k \in Nat :
       SendFunctor(u, k) \in Functors /\ SendFunctor(u, k).op # "establish"
  /\ \A f \in Functors : f.op = "send" => f.from \in Users /\ f.msg \in Nat
  BY DEF Functors, Functor, SendFunctor

\* What is added to the buffer.
LEMMA BufferedTypes ==
  ASSUME TypeOK, NEW bytes \in Seq(Bytes), BufferBytes(bytes)
  PROVE  /\ out' = out \o bytes /\ out' \in Seq(Bytes)
         /\ events' \subseteq Interest /\ index' \in Indices /\ events' = events \cup {"out"}
         /\ pending' \in Seq(Functors) /\ BringsUpAs(pending', pending)
<1>1. out' = out \o bytes /\ out' \in Seq(Bytes)
  BY ConcatProperties DEF TypeOK, BufferBytes
<1>2. /\ events' \subseteq Interest /\ index' \in Indices /\ events' = events \cup {"out"}
  BY DEF TypeOK, BufferBytes, SetEvents, IndexAfterUpdate, Interest, Indices
<1>3. pending' \in Seq(Functors) /\ BringsUpAs(pending', pending)
  <2>1. pending \in Seq(Functors) /\ BringsUpAs(pending, pending)
    BY DEF TypeOK, BringsUpAs
  <2>2. /\ Append(pending, Functor("highWater")) \in Seq(Functors)
        /\ BringsUpAs(Append(pending, Functor("highWater")), pending)
    BY <2>1, FunctorTypes, QueuedLater
  <2> QED  BY <2>1, <2>2 DEF BufferBytes
<1> QED  BY <1>1, <1>2, <1>3

\* sendInLoop()
LEMMA SendTypes ==
  ASSUME TypeOK, NEW s \in Callers, NEW k \in Nat, NEW rest \in Seq(Calls),
         SendInLoop(s, k, rest)
  PROVE  /\ events' \subseteq Interest /\ index' \in Indices
         /\ out' \in Seq(Bytes) /\ wire' \in Seq(Bytes) /\ accepted' \in Seq(Bytes)
         /\ todo' \in Seq(Calls)
         /\ pending' \in Seq(Functors) /\ BringsUpAs(pending', pending)
         /\ room' \in BOOLEAN /\ refused' \in BOOLEAN /\ sockErr' \in {"none", "fault", "other"}
         /\ UNCHANGED <<writeShut, peer, unread, sent, late, ups, downs>>
<1> USE DEF TypeOK
<1>1. UNCHANGED <<writeShut, peer, unread, sent, late, ups, downs>>
  BY DEF SendInLoop
<1>2. BringsUpAs(pending, pending)
  BY DEF BringsUpAs
<1>3. /\ Data(s, k) \in Seq(Bytes) /\ Len(Data(s, k)) = 2
      /\ Before(s, k) \in Seq(Bytes) /\ Len(Before(s, k)) = 2
  BY MessageBytes
<1>4. accepted \o Data(s, k) \in Seq(Bytes)
  BY <1>3, ConcatProperties
<1>5. <<"user">> \o rest \in Seq(Calls)
  BY PushCall
<1>6. CASE WriteFails(rest) \/ GiveUp(rest)
  BY <1>1, <1>2, <1>6 DEF WriteFails, GiveUp
<1>7. CASE WriteSome(s, k, rest)
  <2>1. PICK n \in 1..2 :
       /\ wire' = wire \o SubSeq(Data(s, k), 1, n)
       /\ room' \in (IF n < 2 THEN {FALSE} ELSE BOOLEAN)
       /\ IF n = 2
          THEN /\ todo' = <<"user">> \o rest
               /\ UNCHANGED <<events, index, out, pending>>
          ELSE /\ todo' = rest
               /\ BufferBytes(SubSeq(Data(s, k), n + 1, 2))
    BY <1>7 DEF WriteSome
  <2>2. accepted' = accepted \o Data(s, k) /\ UNCHANGED <<refused, sockErr>>
    BY <1>7 DEF WriteSome
  <2>3. SubSeq(Data(s, k), 1, n) \in Seq(Bytes) /\ SubSeq(Data(s, k), n + 1, 2) \in Seq(Bytes)
    BY <1>3, PartOfBytes
  <2>4. wire' \in Seq(Bytes)
    BY <2>1, <2>3, ConcatProperties
  <2>5. room' \in BOOLEAN /\ todo' \in Seq(Calls)
    BY <1>5, <2>1
  <2>6. CASE n = 2
    BY <1>1, <1>2, <1>4, <2>1, <2>2, <2>4, <2>5, <2>6
  <2>7. CASE n # 2
    <3>1. BufferBytes(SubSeq(Data(s, k), n + 1, 2))
      BY <2>1, <2>7
    <3>2. /\ out' \in Seq(Bytes) /\ events' \subseteq Interest /\ index' \in Indices
          /\ pending' \in Seq(Functors) /\ BringsUpAs(pending', pending)
      BY <2>3, <3>1, BufferedTypes
    <3> QED  BY <1>1, <1>4, <2>2, <2>4, <2>5, <3>2
  <2> QED  BY <2>6, <2>7
<1>8. CASE WriteRefused(s, k, rest) \/ QueueBehind(s, k, rest)
  <2>1. PICK bytes \in {Data(s, k), Before(s, k)} : BufferBytes(bytes)
    BY <1>8 DEF WriteRefused, QueueBehind
  <2>2. /\ out' \in Seq(Bytes) /\ events' \subseteq Interest /\ index' \in Indices
        /\ pending' \in Seq(Functors) /\ BringsUpAs(pending', pending)
    BY <1>3, <2>1, BufferedTypes
  <2>3. /\ todo' = rest /\ accepted' = accepted \o Data(s, k) /\ UNCHANGED <<wire, room>>
        /\ refused' \in {TRUE, refused} /\ sockErr' \in {"none", sockErr}
    BY <1>8 DEF WriteRefused, QueueBehind
  <2> QED  BY <1>1, <1>4, <1>8, <2>2, <2>3
<1> QED  BY <1>6, <1>7, <1>8 DEF SendInLoop

\* handleClose()
LEMMA CloseTypes ==
  ASSUME TypeOK, NEW rest \in Seq(Calls), HandleClose(rest)
  PROVE  /\ state' = "kDisconnected" /\ events' = {} /\ index' \in Indices
         /\ todo' \in Seq(Calls) /\ downs' = downs + 1 /\ downs' \in Nat
         /\ UNCHANGED <<out, accepted, refused, late, ups>>
  BY PushCall DEF HandleClose, SetEvents, IndexAfterUpdate, Indices, TypeOK

\* What is queued while the batch stays as it is leaves the first functor the first.
LEMMA StillFirst ==
  ASSUME EstablishFirst, UNCHANGED <<batch, ups>>, BringsUpAs(pending', pending)
  PROVE  EstablishFirst'
  BY DEF EstablishFirst, BringsUpAs

\* No functor behind the first of the batch brings the connection up.
LEMMA BehindFirst ==
  ASSUME TypeOK, EstablishFirst, batch # <<>>, batch' = Tail(batch),
         BringsUpAs(pending', pending)
  PROVE  batch' \in Seq(Functors) /\ EstablishFirst'
<1>1. /\ Tail(batch) \in Seq(Functors)
      /\ \A i \in DOMAIN Tail(batch) :
           i \in Nat \ {0} /\ i + 1 \in DOMAIN batch /\ Tail(batch)[i] = batch[i + 1]
  BY TailOf DEF TypeOK
<1>2. \A i \in DOMAIN batch' : batch'[i].op # "establish"
  <2> SUFFICES ASSUME NEW i \in DOMAIN Tail(batch), Tail(batch)[i].op = "establish" PROVE FALSE
    OBVIOUS
  <2>1. i + 1 \in DOMAIN batch /\ batch[i + 1].op = "establish" /\ i + 1 # 1
    BY <1>1
  <2> QED  BY <2>1 DEF EstablishFirst
<1>3. \A i \in DOMAIN pending' : pending'[i].op # "establish"
  BY DEF EstablishFirst, BringsUpAs
<1> QED  BY <1>1, <1>2, <1>3 DEF EstablishFirst

\* A count goes up.
LEMMA CountsUp ==
  ASSUME NEW S, NEW f \in [S -> Nat], NEW s \in S
  PROVE  [f EXCEPT ![s] = @ + 1] \in [S -> Nat]
OBVIOUS
-----------------------------------------------------------------------------
(* The invariant is inductive.                                              *)

\* It holds of a new connection.
LEMMA InvInitially == Init => Inv
<1> SUFFICES ASSUME Init PROVE Inv
  OBVIOUS
<1>1. <<Functor("establish")>> \in Seq(Functors)
  BY FunctorTypes
<1>2. /\ calls \in [Callers -> Nat] /\ cur \in [Users -> Nat]
      /\ pc \in [Users -> {<<"idle">>, <<"send">>} \cup ({"set", "queue"} \X {"shutdown", "forceClose"})]
      /\ sent \in 0..MaxUnread
  BY BoundsAssumption DEF Init
<1>3. /\ <<>> \in Seq(Bytes) /\ <<>> \in Seq(Calls) /\ <<>> \in Seq(Functors)
      /\ "kConnecting" \in States /\ kNew \in Indices
  BY EmptySeq DEF States, Indices
<1>4. TypeOK
  <2>1. /\ out \in Seq(Bytes) /\ wire \in Seq(Bytes) /\ accepted \in Seq(Bytes)
        /\ todo \in Seq(Calls) /\ batch \in Seq(Functors) /\ pending \in Seq(Functors)
    BY <1>1, <1>3 DEF Init
  <2>2. state \in States /\ events \subseteq Interest /\ index \in Indices
    BY <1>3 DEF Init
  <2>3. /\ removals \in Nat /\ held \in {"held", "removed", "gone"}
        /\ peer \in {"open", "closed", "reset"} /\ ups \in 0..1 /\ downs \in Nat
    <3>1. removals = 0 /\ held = "held" /\ peer = "open" /\ ups = 0 /\ downs = 0
      BY Zenon DEF Init
    <3> QED  BY <3>1
  <2>4. /\ room \in BOOLEAN /\ writeShut \in BOOLEAN /\ unread \in BOOLEAN
        /\ refused \in BOOLEAN /\ late \in BOOLEAN
    BY Zenon DEF Init
  <2>5. sockErr \in {"none", "fault", "other"}
    BY DEF Init
  <2> QED  BY <1>2, <2>1, <2>2, <2>3, <2>4, <2>5 DEF TypeOK
<1>5. EstablishFirst
  BY DEF Init, EstablishFirst
<1> QED  BY <1>4, <1>5 DEF Inv

\* The loop's thread makes its next call, and a handler that neither closes the
\* connection nor writes.
LEMMA CallSteps ==
  ASSUME Inv,
         \/ Poll \/ HandleError \/ ReadMessage \/ ReadError \/ WriteEventFails
         \/ RemoveChannel \/ CloseCallback \/ CallbackReturns
  PROVE  Inv'
<1> USE DEF Inv, conn, loop, user, owner, kernel, history
<1>1. TypeOK /\ EstablishFirst
  OBVIOUS
<1>2. UNCHANGED <<batch, pending, ups>>
  BY DEF Poll, HandleError, ReadMessage, ReadError, WriteEventFails, RemoveChannel,
         CloseCallback, CallbackReturns
<1>3. EstablishFirst'
  BY <1>1, <1>2 DEF EstablishFirst
<1>4. CASE Poll
  <2>1. todo' \in Seq(Calls)
    BY <1>4, CallbacksAreCalls DEF Poll
  <2> QED  BY <1>1, <1>3, <1>4, <2>1 DEF Poll, TypeOK
<1>5. CASE \/ HandleError \/ ReadMessage \/ ReadError \/ WriteEventFails
           \/ RemoveChannel \/ CloseCallback \/ CallbackReturns
  <2>1. todo # <<>> /\ todo' \in {Tail(todo), <<"user">> \o Tail(todo)}
    BY <1>5 DEF Next1, InCallback, HandleError, ReadMessage, ReadError, WriteEventFails,
                RemoveChannel, CloseCallback, CallbackReturns
  <2>2. todo' \in Seq(Calls)
    <3>1. Tail(todo) \in Seq(Calls)
      BY <1>1, <2>1, TailOf DEF TypeOK
    <3> QED  BY <2>1, <3>1, PushCall
  <2>3. UNCHANGED <<state, events, out, pc, calls, cur, held, wire, room, writeShut, peer, sent,
                    accepted, refused, late, downs>>
    BY <1>5 DEF HandleError, ReadMessage, ReadError, WriteEventFails,
                RemoveChannel, CloseCallback, CallbackReturns
  <2>4. index' \in {index, kNew} /\ removals' \in {removals, removals + 1}
    BY <1>5 DEF HandleError, ReadMessage, ReadError, WriteEventFails,
                RemoveChannel, CloseCallback, CallbackReturns
  <2>5. unread' \in BOOLEAN
    BY <1>1, <1>5 DEF HandleError, ReadMessage, ReadError, WriteEventFails,
                RemoveChannel, CloseCallback, CallbackReturns, TypeOK
  <2>6. sockErr' \in {"none", "fault", "other"}
    <3>1. sockErr' \in {"none", sockErr}
      BY <1>5 DEF HandleError, ReadMessage, ReadError, WriteEventFails,
                RemoveChannel, CloseCallback, CallbackReturns
    <3> QED  BY <1>1, <3>1 DEF TypeOK
  <2>7. index' \in Indices /\ removals' \in Nat
    BY <1>1, <2>4 DEF TypeOK, Indices
  <2> QED  BY <1>1, <1>2, <1>3, <2>2, <2>3, <2>5, <2>6, <2>7 DEF TypeOK
<1> QED  BY <1>4, <1>5

\* The peer and the kernel.
LEMMA PeerSteps ==
  ASSUME Inv, PeerSends \/ PeerReads \/ PeerCloses \/ PeerResets \/ KernelGivesUp \/ UNCHANGED vars
  PROVE  Inv'
<1> USE DEF Inv, conn, loop, user, owner, kernel, history, vars
<1>1. TypeOK /\ EstablishFirst
  OBVIOUS
<1>2. /\ UNCHANGED <<conn, loop, user, owner, wire, writeShut, history>>
      /\ room' \in BOOLEAN /\ peer' \in {"open", "closed", "reset"}
      /\ unread' \in BOOLEAN /\ sockErr' \in {"none", "fault", "other"}
  BY <1>1 DEF PeerSends, PeerReads, PeerCloses, PeerResets, KernelGivesUp, Aborted, TypeOK
<1>3. sent' \in 0..MaxUnread
  BY <1>1, BoundsAssumption DEF PeerSends, PeerReads, PeerCloses, PeerResets, KernelGivesUp, Aborted, TypeOK
<1>4. EstablishFirst'
  BY <1>1, <1>2 DEF EstablishFirst
<1> QED  BY <1>1, <1>2, <1>3, <1>4 DEF TypeOK

\* Another thread, the owner or a callback queues a functor or is on the way to it.
LEMMA QueueSteps ==
  ASSUME Inv,
         \/ OwnForceClose \/ OwnerRemoves \/ OwnerGoes
         \/ \E u \in Users : UserStep(u) \/ UserCall(u)
  PROVE  Inv'
<1> DEFINE Places == {<<"idle">>, <<"send">>} \cup ({"set", "queue"} \X {"shutdown", "forceClose"})
<1> USE DEF Inv, conn, loop, user, owner, kernel, history
<1>1. TypeOK /\ EstablishFirst
  OBVIOUS
<1>2. /\ UNCHANGED <<events, index, out, todo, batch, kernel, accepted, refused, ups, downs>>
      /\ state' \in {state, "kDisconnecting"}
      /\ removals' \in Nat /\ held' \in {"held", "removed", "gone"}
  <2>1. removals \in Nat /\ held \in {"held", "removed", "gone"}
    BY <1>1 DEF TypeOK
  <2>2. removals > 0 => removals - 1 \in Nat
    BY <2>1
  <2>3. CASE OwnForceClose \/ OwnerRemoves \/ OwnerGoes
    BY <2>1, <2>2, <2>3 DEF OwnForceClose, OwnerRemoves, OwnerGoes
  <2>4. CASE \E u \in Users : UserStep(u) \/ UserCall(u)
    BY <2>1, <2>4 DEF UserStep, UserCall, StartSend, QueueSend, StartClosing, SetDisconnecting,
                      QueueClosing
  <2> QED  BY <2>3, <2>4
<1>8. late' \in BOOLEAN
  <2>1. late \in BOOLEAN
    BY <1>1 DEF TypeOK
  <2>2. late' = late \/ late' = (late \/ state = "kDisconnected")
    BY DEF OwnForceClose, OwnerRemoves, OwnerGoes, UserStep, UserCall, StartSend, QueueSend,
           StartClosing, SetDisconnecting, QueueClosing
  <2> QED  BY <2>1, <2>2
<1>3. calls' \in [Callers -> Nat]
  <2>1. calls' = calls \/ \E c \in Callers : Count(c)
    BY DEF OwnForceClose, OwnerRemoves, OwnerGoes, UserStep, UserCall, StartSend, QueueSend,
           StartClosing, SetDisconnecting, QueueClosing, Callers
  <2>2. calls \in [Callers -> Nat]
    BY <1>1 DEF TypeOK
  <2> QED  BY <2>1, <2>2, CountsUp DEF Count
<1>4. cur' \in [Users -> Nat]
  <2>1. cur' = cur \/ \E u \in Users : cur' = [cur EXCEPT ![u] = @ + 1]
    BY DEF OwnForceClose, OwnerRemoves, OwnerGoes, UserStep, UserCall, StartSend, QueueSend,
           StartClosing, SetDisconnecting, QueueClosing
  <2>2. cur \in [Users -> Nat]
    BY <1>1 DEF TypeOK
  <2> QED  BY <2>1, <2>2, CountsUp
<1>5. pc' \in [Users -> Places]
  <2>1. \A op \in {"shutdown", "forceClose"} :
          <<"idle">> \in Places /\ <<"send">> \in Places
          /\ <<"set", op>> \in Places /\ <<"queue", op>> \in Places
    OBVIOUS
  <2>2. pc' = pc \/ \E u \in Users, to \in Places : pc' = [pc EXCEPT ![u] = to]
    <3>1. CASE OwnForceClose \/ OwnerRemoves \/ OwnerGoes
      BY <3>1 DEF OwnForceClose, OwnerRemoves, OwnerGoes
    <3>2. CASE \E u \in Users : QueueSend(u) \/ StartSend(u)
      <4>1. PICK u \in Users : QueueSend(u) \/ StartSend(u)
        BY <3>2
      <4>2. pc' = [pc EXCEPT ![u] = <<"idle">>] \/ pc' = [pc EXCEPT ![u] = <<"send">>]
        BY <4>1 DEF QueueSend, StartSend
      <4> HIDE DEF Places
      <4> QED  BY <2>1, <4>2
    <3>3. CASE \E u \in Users, op \in {"shutdown", "forceClose"} :
                 StartClosing(u, op) \/ SetDisconnecting(u, op) \/ QueueClosing(u, op)
      <4>1. PICK u \in Users, op \in {"shutdown", "forceClose"} :
                   StartClosing(u, op) \/ SetDisconnecting(u, op) \/ QueueClosing(u, op)
        BY <3>3
      <4>2. \/ pc' = [pc EXCEPT ![u] = <<"set", op>>]
            \/ pc' = [pc EXCEPT ![u] = <<"queue", op>>]
            \/ pc' = [pc EXCEPT ![u] = <<"idle">>]
        BY <4>1 DEF StartClosing, SetDisconnecting, QueueClosing
      <4> HIDE DEF Places
      <4> QED  BY <2>1, <4>2
    <3> QED  BY <3>1, <3>2, <3>3 DEF UserStep, UserCall
  <2>3. pc \in [Users -> Places]
    BY <1>1 DEF TypeOK
  <2> HIDE DEF Places
  <2> QED  BY <2>2, <2>3
<1>6. pending' \in Seq(Functors) /\ BringsUpAs(pending', pending)
  <2>1. \/ pending' = pending
        \/ \E f \in Functors : f.op # "establish" /\ pending' = Append(pending, f)
    BY <1>1, FunctorTypes
       DEF OwnForceClose, OwnerRemoves, OwnerGoes, UserStep, UserCall, StartSend, QueueSend,
           StartClosing, SetDisconnecting, QueueClosing, TypeOK
  <2>2. pending \in Seq(Functors) /\ BringsUpAs(pending, pending)
    BY <1>1 DEF TypeOK, BringsUpAs
  <2> QED  BY <2>1, <2>2, QueuedLater
<1>7. EstablishFirst'
  BY <1>1, <1>2, <1>6, StillFirst
<1> QED  BY <1>1, <1>2, <1>3, <1>4, <1>5, <1>6, <1>7, <1>8 DEF TypeOK, States

\* doPendingFunctors() takes the queue.
LEMMA TakeStep ==
  ASSUME Inv, TakePending
  PROVE  Inv'
<1> USE DEF Inv, conn, user, owner, kernel, history
<1>1. TypeOK /\ EstablishFirst
  OBVIOUS
<1>2. todo' \in Seq(Calls) /\ batch' \in Seq(Functors) /\ pending' \in Seq(Functors)
  BY <1>1, TailOf, EmptySeq DEF TakePending, Next1, TypeOK
<1>3. EstablishFirst'
  BY <1>1 DEF TakePending, EstablishFirst
<1> QED  BY <1>1, <1>2, <1>3 DEF TakePending, TypeOK

\* Handlers that close the connection or write.
LEMMA HandlerSteps ==
  ASSUME Inv, CloseEvent \/ ReadEnd \/ WriteBuffered \/ TakeDown
  PROVE  Inv'
<1> USE DEF Inv, conn, user, owner, kernel, history
<1>1. TypeOK /\ EstablishFirst /\ BringsUpAs(pending, pending)
  BY DEF BringsUpAs
<1>2. todo # <<>> /\ Tail(todo) \in Seq(Calls)
  BY <1>1, TailOf DEF CloseEvent, ReadEnd, WriteBuffered, TakeDown, Next1, TypeOK
<1>3. CASE CloseEvent \/ ReadEnd
  <2>1. HandleClose(Tail(todo)) /\ UNCHANGED <<batch, pending, user, owner, kernel>>
    BY <1>3 DEF CloseEvent, ReadEnd
  <2>2. /\ state' = "kDisconnected" /\ events' = {} /\ index' \in Indices
        /\ todo' \in Seq(Calls) /\ downs' \in Nat /\ UNCHANGED <<out, accepted, refused, late, ups>>
    BY <1>1, <1>2, <2>1, CloseTypes
  <2>3. EstablishFirst'
    BY <1>1, <2>1, <2>2, StillFirst
  <2> QED  BY <1>1, <2>1, <2>2, <2>3 DEF TypeOK, States
<1>4. CASE TakeDown
  <2>1. todo' \in Seq(Calls)
    BY <1>2, <1>4, PushCall DEF TakeDown
  <2>2. EstablishFirst'
    BY <1>1, <1>4, StillFirst DEF TakeDown
  <2> QED  BY <1>1, <1>4, <2>1, <2>2
           DEF TakeDown, TypeOK, States, SetEvents, IndexAfterUpdate, Indices
<1>5. CASE WriteBuffered
  <2>1. PICK n \in 1..Len(out) :
       /\ wire' = wire \o SubSeq(out, 1, n)
       /\ out' = SubSeq(out, n + 1, Len(out))
       /\ room' \in (IF n < Len(out) THEN {FALSE} ELSE BOOLEAN)
       /\ IF n = Len(out) THEN Drained
                          ELSE UNCHANGED <<events, index, pending, writeShut>>
    BY <1>5 DEF WriteBuffered
  <2>2. /\ todo' = Tail(todo)
        /\ UNCHANGED <<state, batch, user, owner, peer, unread, sent, sockErr, history>>
    BY <1>5 DEF WriteBuffered
  <2>3. out \in Seq(Bytes) /\ wire \in Seq(Bytes)
    BY <1>1 DEF TypeOK
  <2>4. SubSeq(out, 1, n) \in Seq(Bytes) /\ out' \in Seq(Bytes)
    BY <2>1, <2>3, PartOfBytes
  <2>5. wire' \in Seq(Bytes) /\ room' \in BOOLEAN
    BY <2>1, <2>3, <2>4, ConcatProperties
  <2>6. /\ events' \subseteq Interest /\ index' \in Indices /\ writeShut' \in BOOLEAN
        /\ pending' \in Seq(Functors) /\ BringsUpAs(pending', pending)
    <3>1. CASE UNCHANGED <<events, index, pending, writeShut>>
      BY <1>1, <3>1 DEF TypeOK
    <3>2. CASE Drained
      <4>1. pending' \in Seq(Functors) /\ BringsUpAs(pending', pending)
        BY <1>1, <3>2, FunctorTypes, QueuedLater DEF Drained, TypeOK
      <4>2. events' \subseteq Interest /\ index' \in Indices /\ writeShut' \in BOOLEAN
        BY <1>1, <3>2 DEF Drained, TypeOK, SetEvents, IndexAfterUpdate, Indices, ShutdownInLoop
      <4> QED  BY <4>1, <4>2
    <3> QED  BY <2>1, <3>1, <3>2
  <2>7. EstablishFirst'
    BY <1>1, <2>2, <2>6, StillFirst
  <2> QED  BY <1>1, <1>2, <2>2, <2>4, <2>5, <2>6, <2>7 DEF TypeOK
<1> QED  BY <1>3, <1>4, <1>5

\* The functors.
LEMMA FunctorSteps ==
  ASSUME Inv,
         \/ ConnectEstablished \/ RunSend \/ RunShutdown \/ ForceCloseInLoop
         \/ RunCallback \/ ConnectDestroyed
  PROVE  Inv'
<1> USE DEF Inv, conn, user, owner, kernel, history
<1>1. TypeOK /\ EstablishFirst /\ BringsUpAs(pending, pending)
  BY DEF BringsUpAs
<1>2. todo = <<>> /\ batch # <<>> /\ batch' = Tail(batch)
  BY DEF ConnectEstablished, RunSend, RunShutdown, ForceCloseInLoop, RunCallback,
         ConnectDestroyed, Starts
<1>3. Head(batch) \in Functors /\ Head(batch) = batch[1] /\ 1 \in DOMAIN batch
  BY <1>1, <1>2, TailOf DEF TypeOK
<1>4. CASE ConnectEstablished
  <2>1. ups = 0
    BY <1>1, <1>3, <1>4 DEF ConnectEstablished, Starts, EstablishFirst
  <2>2. batch' \in Seq(Functors) /\ EstablishFirst'
    BY <1>1, <1>2, <1>4, BehindFirst DEF ConnectEstablished
  <2>3. todo' \in Seq(Calls)
    <3>1. <<"user">> \in Seq(Calls)
      BY DEF Calls
    <3> QED  BY <1>4, <3>1 DEF ConnectEstablished
  <2> QED  BY <1>1, <1>4, <2>1, <2>2, <2>3
           DEF ConnectEstablished, TypeOK, States, SetEvents, IndexAfterUpdate, Indices, Interest
<1>5. CASE RunSend
  <2>1. Head(batch).from \in Users /\ cur[Head(batch).from] \in Nat
    BY <1>1, <1>3, <1>5, FunctorTypes DEF RunSend, Starts, TypeOK
  <2>2. PICK s \in Callers, k \in Nat : SendInLoop(s, k, <<>>)
    BY <1>5, <2>1 DEF RunSend, Callers
  <2>3. UNCHANGED <<state, user, owner>>
    BY <1>5 DEF RunSend
  <2>4. /\ events' \subseteq Interest /\ index' \in Indices
        /\ out' \in Seq(Bytes) /\ wire' \in Seq(Bytes) /\ accepted' \in Seq(Bytes)
        /\ todo' \in Seq(Calls)
        /\ pending' \in Seq(Functors) /\ BringsUpAs(pending', pending)
        /\ room' \in BOOLEAN /\ refused' \in BOOLEAN /\ sockErr' \in {"none", "fault", "other"}
        /\ UNCHANGED <<writeShut, peer, unread, sent, late, ups, downs>>
    BY <1>1, <2>2, PushCall, EmptySeq, SendTypes
  <2>5. batch' \in Seq(Functors) /\ EstablishFirst'
    BY <1>1, <1>2, <2>4, BehindFirst
  <2> QED  BY <1>1, <2>3, <2>4, <2>5 DEF TypeOK
<1>6. CASE ForceCloseInLoop
  <2>1. UNCHANGED <<pending, user, owner, kernel>>
    BY <1>6 DEF ForceCloseInLoop
  <2>2. batch' \in Seq(Functors) /\ EstablishFirst'
    BY <1>1, <1>2, <2>1, BehindFirst
  <2>3. CASE HandleClose(<<>>)
    <3>1. /\ state' = "kDisconnected" /\ events' = {} /\ index' \in Indices
          /\ todo' \in Seq(Calls) /\ downs' \in Nat /\ UNCHANGED <<out, accepted, refused, late, ups>>
      BY <1>1, <2>3, EmptySeq, CloseTypes
    <3> QED  BY <1>1, <2>1, <2>2, <3>1 DEF TypeOK, States
  <2>4. CASE UNCHANGED <<conn, todo, history>>
    BY <1>1, <2>1, <2>2, <2>4 DEF TypeOK
  <2> QED  BY <1>6, <2>3, <2>4 DEF ForceCloseInLoop
<1>7. CASE RunShutdown \/ RunCallback \/ ConnectDestroyed
  <2>1. /\ UNCHANGED <<conn, pending, user, owner, wire, room, peer, unread, sent, sockErr, history>>
        /\ writeShut' \in BOOLEAN
    BY <1>1, <1>7 DEF RunShutdown, RunCallback, ConnectDestroyed, ShutdownInLoop, TypeOK
  <2>2. todo' \in Seq(Calls)
    <3>1. <<>> \in Seq(Calls)
      BY EmptySeq
    <3>2. /\ <<"user">> \in Seq(Calls) /\ <<"remove">> \in Seq(Calls)
          /\ <<"down", "remove">> \in Seq(Calls)
      BY <3>1, PushCall
    <3> QED  BY <1>2, <1>7, <3>1, <3>2 DEF RunShutdown, RunCallback, ConnectDestroyed
  <2>3. batch' \in Seq(Functors) /\ EstablishFirst'
    BY <1>1, <1>2, <2>1, BehindFirst
  <2> QED  BY <1>1, <2>1, <2>2, <2>3 DEF TypeOK
<1> QED  BY <1>4, <1>5, <1>6, <1>7

\* send() and shutdown() in a callback.
LEMMA OwnSteps ==
  ASSUME Inv, OwnSend \/ OwnShutdown
  PROVE  Inv'
<1> USE DEF Inv, conn, loop, user, owner, kernel, history
<1>1. TypeOK /\ EstablishFirst
  OBVIOUS
<1>2. Loop \in Callers /\ calls[Loop] + 1 \in Nat /\ calls' \in [Callers -> Nat]
  BY <1>1 DEF OwnSend, OwnShutdown, Count, Callers, TypeOK
<1>3. CASE OwnSend
  <2>1. SendInLoop(Loop, calls[Loop] + 1, todo) /\ UNCHANGED <<state, batch, pc, cur, owner>>
    BY <1>3 DEF OwnSend
  <2>2. /\ events' \subseteq Interest /\ index' \in Indices
        /\ out' \in Seq(Bytes) /\ wire' \in Seq(Bytes) /\ accepted' \in Seq(Bytes)
        /\ todo' \in Seq(Calls)
        /\ pending' \in Seq(Functors) /\ BringsUpAs(pending', pending)
        /\ room' \in BOOLEAN /\ refused' \in BOOLEAN /\ sockErr' \in {"none", "fault", "other"}
        /\ UNCHANGED <<writeShut, peer, unread, sent, late, ups, downs>>
    <3>1. todo \in Seq(Calls)
      BY <1>1 DEF TypeOK
    <3> QED  BY <1>1, <1>2, <2>1, <3>1, SendTypes
  <2>3. EstablishFirst'
    BY <1>1, <2>1, <2>2, StillFirst
  <2> QED  BY <1>1, <1>2, <2>1, <2>2, <2>3 DEF TypeOK
<1>4. CASE OwnShutdown
  <2>1. EstablishFirst'
    BY <1>1, <1>4 DEF OwnShutdown, EstablishFirst
  <2> QED  BY <1>1, <1>2, <1>4, <2>1 DEF OwnShutdown, ShutdownInLoop, TypeOK, States
<1> QED  BY <1>3, <1>4

\* The invariant, for any number of threads, calls and messages.
LEMMA Invariance == Spec => []Inv
<1>1. Inv /\ [Next]_vars => Inv'
  BY CallSteps, PeerSteps, QueueSteps, TakeStep, HandlerSteps, FunctorSteps, OwnSteps
     DEF Next, LoopStep, OwnCall, Environment
<1> QED  BY <1>1, InvInitially, PTL DEF Spec

\* Types, and connectEstablished runs at most once.
THEOREM TypeCorrect == Spec => []TypeOK
<1>1. Inv => TypeOK
  BY DEF Inv
<1> QED  BY <1>1, Invariance, PTL
-----------------------------------------------------------------------------
(* The stream.                                                              *)

\* The library's fact, in a form that the provers instantiate in any context.
LEMMA Associates == \A s, t, u \in Seq(Bytes) : (s \o t) \o u = s \o (t \o u)
  BY ConcatAssociative

\* sendInLoop(), whatever it does with the message, leaves the bytes on the wire
\* and those buffered together in order.
LEMMA SendKeepsStream ==
  ASSUME TypeOK, NEW s \in Callers, NEW k \in Nat, NEW rest \in Seq(Calls),
         SendInLoop(s, k, rest), StreamUnlessRefused
  PROVE  StreamUnlessRefused'
<1>1. /\ wire \in Seq(Bytes) /\ out \in Seq(Bytes) /\ accepted \in Seq(Bytes)
      /\ refused \in BOOLEAN
  BY DEF TypeOK
<1>2. /\ Data(s, k) \in Seq(Bytes) /\ Len(Data(s, k)) = 2
  BY MessageBytes
<1>3. CASE WriteFails(rest) \/ GiveUp(rest)
  BY <1>3 DEF WriteFails, GiveUp, StreamUnlessRefused
<1>4. CASE WriteSome(s, k, rest)
  <2>1. out = <<>> /\ accepted' = accepted \o Data(s, k) /\ UNCHANGED refused
    BY <1>4 DEF WriteSome, MayWrite
  <2>2. PICK n \in 1..2 :
       /\ wire' = wire \o SubSeq(Data(s, k), 1, n)
       /\ IF n = 2 THEN UNCHANGED out ELSE BufferBytes(SubSeq(Data(s, k), n + 1, 2))
    BY <1>4 DEF WriteSome
  <2>3. /\ SubSeq(Data(s, k), 1, n) \in Seq(Bytes) /\ SubSeq(Data(s, k), n + 1, 2) \in Seq(Bytes)
        /\ SubSeq(Data(s, k), 1, n) \o SubSeq(Data(s, k), n + 1, 2) = Data(s, k)
        /\ Len(SubSeq(Data(s, k), n + 1, 2)) = 2 - n
    BY <1>2, PartOfBytes
  <2>4. out' = SubSeq(Data(s, k), n + 1, 2)
    <3>1. CASE n = 2
      BY <2>1, <2>2, <2>3, <3>1, EmptySeq
    <3>2. CASE n # 2
      <4>1. out' = out \o SubSeq(Data(s, k), n + 1, 2)
        BY <2>2, <3>2 DEF BufferBytes
      <4> QED  BY <2>1, <2>3, <4>1, ConcatEmptySeq
    <3> QED  BY <3>1, <3>2
  <2>5. wire' \o out' = wire \o Data(s, k)
    <3>1. (wire \o SubSeq(Data(s, k), 1, n)) \o SubSeq(Data(s, k), n + 1, 2) = wire \o Data(s, k)
      <4> DEFINE a == SubSeq(Data(s, k), 1, n)
                 b == SubSeq(Data(s, k), n + 1, 2)
      <4>1. wire \in Seq(Bytes) /\ a \in Seq(Bytes) /\ b \in Seq(Bytes)
        BY <1>1, <2>3
      <4>2. a \o b = Data(s, k)
        BY <2>3
      <4> HIDE DEF a, b
      <4>3. (wire \o a) \o b = wire \o (a \o b)
        BY <4>1, Associates
      <4>4. (wire \o a) \o b = wire \o Data(s, k)
        BY <4>2, <4>3, Zenon
      <4> QED  BY <4>4 DEF a, b
    <3> QED  BY <2>2, <2>4, <3>1
  <2>6. wire \o out = wire
    BY <1>1, <2>1, ConcatEmptySeq
  <2> QED  BY <2>1, <2>5, <2>6 DEF StreamUnlessRefused
<1>5. CASE WriteRefused(s, k, rest)
  BY <1>5 DEF WriteRefused, StreamUnlessRefused
<1>6. CASE QueueBehind(s, k, rest)
  <2>1. /\ out' = out \o Data(s, k) /\ accepted' = accepted \o Data(s, k)
        /\ UNCHANGED <<wire, refused>>
    BY <1>6 DEF QueueBehind, BufferBytes
  <2>2. (wire \o out) \o Data(s, k) = wire \o (out \o Data(s, k))
    BY <1>1, <1>2, Associates
  <2> QED  BY <2>1, <2>2 DEF StreamUnlessRefused
<1> QED  BY <1>3, <1>4, <1>5, <1>6 DEF SendInLoop

\* handleWrite() moves bytes from the buffer to the wire.
LEMMA WriteKeepsStream ==
  ASSUME TypeOK, WriteBuffered, StreamUnlessRefused
  PROVE  StreamUnlessRefused'
<1>1. /\ wire \in Seq(Bytes) /\ out \in Seq(Bytes)
  BY DEF TypeOK
<1>2. PICK n \in 1..Len(out) :
        wire' = wire \o SubSeq(out, 1, n) /\ out' = SubSeq(out, n + 1, Len(out))
  BY DEF WriteBuffered
<1>3. wire' \o out' = wire \o out
  <2>1. /\ SubSeq(out, 1, n) \in Seq(Bytes) /\ SubSeq(out, n + 1, Len(out)) \in Seq(Bytes)
        /\ SubSeq(out, 1, n) \o SubSeq(out, n + 1, Len(out)) = out
    BY <1>1, PartOfBytes
  <2>2. (wire \o SubSeq(out, 1, n)) \o SubSeq(out, n + 1, Len(out)) = wire \o out
    <3> DEFINE a == SubSeq(out, 1, n)
               b == SubSeq(out, n + 1, Len(out))
    <3>1. wire \in Seq(Bytes) /\ a \in Seq(Bytes) /\ b \in Seq(Bytes)
      BY <1>1, <2>1
    <3>2. a \o b = out
      BY <2>1
    <3> HIDE DEF a, b
    <3>3. (wire \o a) \o b = wire \o (a \o b)
      BY <3>1, Associates
    <3>4. (wire \o a) \o b = wire \o out
      BY <3>2, <3>3, Zenon
    <3> QED  BY <3>4 DEF a, b
  <2> QED  BY <1>2, <2>2
<1>4. UNCHANGED <<accepted, refused>>
  BY DEF WriteBuffered, history
<1> QED  BY <1>3, <1>4 DEF StreamUnlessRefused

\* A step that sends nothing and writes nothing leaves the stream alone.
LEMMA OthersKeepStream ==
  ASSUME [Next]_vars, ~WriteBuffered, ~RunSend, ~OwnSend
  PROVE  UNCHANGED <<wire, out, accepted, refused>>
<1> USE DEF conn, loop, user, owner, kernel, history
<1>1. CASE \/ Poll \/ TakePending \/ HandleError \/ ReadMessage \/ ReadError \/ WriteEventFails
           \/ RunShutdown \/ RunCallback \/ ConnectEstablished
  BY <1>1 DEF Poll, TakePending, HandleError, ReadMessage, ReadError, WriteEventFails,
              RunShutdown, RunCallback, ConnectEstablished
<1>2. CASE CloseEvent \/ ReadEnd \/ ForceCloseInLoop
  BY <1>2 DEF CloseEvent, ReadEnd, ForceCloseInLoop, HandleClose
<1>3. CASE \/ ConnectDestroyed \/ TakeDown \/ RemoveChannel \/ CloseCallback
           \/ CallbackReturns \/ OwnShutdown \/ OwnForceClose
  BY <1>3 DEF ConnectDestroyed, TakeDown, RemoveChannel, CloseCallback,
              CallbackReturns, OwnShutdown, OwnForceClose
<1>4. CASE \E u \in Users : UserStep(u) \/ UserCall(u)
  BY <1>4 DEF UserStep, UserCall, StartSend, QueueSend, StartClosing, SetDisconnecting,
              QueueClosing
<1>5. CASE \/ OwnerRemoves \/ OwnerGoes \/ PeerSends \/ PeerReads \/ PeerCloses \/ PeerResets \/ KernelGivesUp
           \/ UNCHANGED vars
  BY <1>5 DEF OwnerRemoves, OwnerGoes, PeerSends, PeerReads, PeerCloses, PeerResets, KernelGivesUp, Aborted, vars
<1> QED  BY <1>1, <1>2, <1>3, <1>4, <1>5 DEF Next, LoopStep, OwnCall, Environment

\* What sendInLoop() gets from the two places it is called from.
LEMMA SendsAMessage ==
  ASSUME Inv, RunSend \/ OwnSend
  PROVE  \E s \in Callers, k \in Nat, rest \in Seq(Calls) : SendInLoop(s, k, rest)
<1>1. TypeOK
  BY DEF Inv
<1>2. CASE RunSend
  <2>1. /\ batch # <<>> /\ Head(batch).op = "send"
        /\ SendInLoop(Head(batch).from, cur[Head(batch).from], <<>>)
    BY <1>2 DEF RunSend, Starts
  <2>2. Head(batch) \in Functors
    BY <1>1, <2>1, TailOf DEF TypeOK
  <2>3. Head(batch).from \in Users /\ cur[Head(batch).from] \in Nat
    BY <1>1, <2>1, <2>2, FunctorTypes DEF TypeOK
  <2> QED  BY <2>1, <2>3, EmptySeq DEF Callers
<1>3. CASE OwnSend
  <2>1. SendInLoop(Loop, calls[Loop] + 1, todo)
    BY <1>3 DEF OwnSend
  <2>2. Loop \in Callers /\ calls[Loop] + 1 \in Nat /\ todo \in Seq(Calls)
    BY <1>1 DEF TypeOK, Callers
  <2> QED  BY <2>1, <2>2
<1> QED  BY <1>2, <1>3

\* The bytes on the wire followed by those buffered are the bytes sendInLoop()
\* took, in order, as long as no direct write() has failed with an errno other than EPIPE
\* and ECONNRESET (sendInLoop() and handleWrite()): for any number of senders and messages, whatever part of
\* a message each write() takes.
THEOREM NothingLostOrOvertaken == Spec => []StreamUnlessRefused
<1>1. Init => StreamUnlessRefused
  <2>1. <<>> \o <<>> = <<>>
    BY EmptySeq, ConcatEmptySeq
  <2> QED  BY <2>1 DEF Init, StreamUnlessRefused
<1>2. Inv /\ StreamUnlessRefused /\ [Next]_vars => StreamUnlessRefused'
  <2> SUFFICES ASSUME Inv, StreamUnlessRefused, [Next]_vars PROVE StreamUnlessRefused'
    OBVIOUS
  <2>1. TypeOK
    BY DEF Inv
  <2>2. CASE RunSend \/ OwnSend
    BY <2>1, <2>2, SendsAMessage, SendKeepsStream
  <2>3. CASE WriteBuffered
    BY <2>1, <2>3, WriteKeepsStream
  <2>4. CASE ~WriteBuffered /\ ~RunSend /\ ~OwnSend
    BY <2>4, OthersKeepStream DEF StreamUnlessRefused
  <2> QED  BY <2>2, <2>3, <2>4
<1> QED  BY <1>1, <1>2, Invariance, PTL DEF Spec
-----------------------------------------------------------------------------
(* Buffered bytes and shutdown().                                           *)

\* SO_ERROR is set by the end of the connection only.
ErrorsAreFinal == sockErr # "none" => peer = "reset"

Watched == BufferedIsWatched /\ ShutdownAfterData /\ ErrorsAreFinal

\* The end of a connection, and a refused write(), are for good.
LEMMA EndIsFinal ==
  ASSUME [Next]_vars, ErrorsAreFinal, TypeOK
  PROVE  /\ refused => refused'
         /\ peer = "reset" => peer' = "reset"
         /\ ErrorsAreFinal'
<1> USE DEF conn, loop, user, owner, kernel, history
<1>1. CASE UNCHANGED <<peer, sockErr, refused>>
  BY <1>1 DEF ErrorsAreFinal
<1>2. CASE HandleError \/ ReadError \/ WriteEventFails
  <2>1. UNCHANGED <<peer, refused>> /\ sockErr' \in {"none", sockErr}
    BY <1>2 DEF HandleError, ReadError, WriteEventFails
  <2> QED  BY <2>1 DEF ErrorsAreFinal
<1>3. CASE RunSend \/ OwnSend
  <2>1. PICK s, k, rest : SendInLoop(s, k, rest)
    BY <1>3 DEF RunSend, OwnSend
  <2>2. UNCHANGED peer
    BY <2>1 DEF SendInLoop
  <2>3. sockErr' = "none" \/ UNCHANGED sockErr
    BY <2>1, Zenon DEF SendInLoop, WriteFails, GiveUp, WriteSome, WriteRefused, QueueBehind
  <2>4. refused' \/ UNCHANGED refused
    BY <2>1, Zenon DEF SendInLoop, WriteFails, GiveUp, WriteSome, WriteRefused, QueueBehind
  <2> QED  BY <2>2, <2>3, <2>4 DEF ErrorsAreFinal
<1>4. CASE PeerCloses \/ PeerResets \/ KernelGivesUp
  BY <1>4 DEF PeerCloses, PeerResets, KernelGivesUp, Aborted, ErrorsAreFinal
<1>5. CASE \/ Poll \/ TakePending \/ ReadMessage \/ RunShutdown \/ RunCallback
           \/ ConnectEstablished \/ WriteBuffered
  BY <1>1, <1>5 DEF Poll, TakePending, ReadMessage, RunShutdown, RunCallback,
              ConnectEstablished, WriteBuffered
<1>6. CASE CloseEvent \/ ReadEnd \/ ForceCloseInLoop
  BY <1>1, <1>6 DEF CloseEvent, ReadEnd, ForceCloseInLoop, HandleClose
<1>7. CASE \/ ConnectDestroyed \/ TakeDown \/ RemoveChannel \/ CloseCallback
           \/ CallbackReturns \/ OwnShutdown \/ OwnForceClose
  BY <1>1, <1>7 DEF ConnectDestroyed, TakeDown, RemoveChannel, CloseCallback,
              CallbackReturns, OwnShutdown, OwnForceClose
<1>8. CASE \E u \in Users : UserStep(u) \/ UserCall(u)
  BY <1>1, <1>8 DEF UserStep, UserCall, StartSend, QueueSend, StartClosing, SetDisconnecting,
              QueueClosing
<1>9. CASE OwnerRemoves \/ OwnerGoes \/ PeerSends \/ PeerReads \/ UNCHANGED vars
  BY <1>1, <1>9 DEF OwnerRemoves, OwnerGoes, PeerSends, PeerReads, vars
<1> QED  BY <1>2, <1>3, <1>4, <1>5, <1>6, <1>7, <1>8, <1>9
         DEF Next, LoopStep, OwnCall, Environment

\* sendInLoop() asks for "out" when it buffers; behind a write end that was shut down while
\* the connection is up it buffers only what it could not write to an aborted connection.
LEMMA SendKeepsWatch ==
  ASSUME TypeOK, NEW s \in Callers, NEW k \in Nat, NEW rest \in Seq(Calls),
         SendInLoop(s, k, rest), Watched
  PROVE  BufferedIsWatched' /\ ShutdownAfterData'
<1> USE DEF Watched
<1>1. UNCHANGED <<writeShut, peer, downs>>
  BY DEF SendInLoop
<1>2. /\ Data(s, k) \in Seq(Bytes) /\ Len(Data(s, k)) = 2
      /\ Before(s, k) \in Seq(Bytes) /\ Len(Before(s, k)) = 2
  BY MessageBytes
<1>3. CASE UNCHANGED <<events, out, refused>>
  BY <1>1, <1>3 DEF BufferedIsWatched, ShutdownAfterData
<1>4. ASSUME NEW bytes \in Seq(Bytes), Len(bytes) > 0, BufferBytes(bytes),
             writeShut /\ downs = 0 => refused' /\ peer = "reset"
      PROVE  BufferedIsWatched' /\ ShutdownAfterData'
  <2>1. out' = out \o bytes /\ events' = events \cup {"out"}
    BY <1>4, BufferedTypes
  <2>2. out' # <<>>
    <3>1. Len(out') = Len(out) + Len(bytes) /\ Len(out) \in Nat
      BY <1>4, <2>1, ConcatProperties, LenProperties DEF TypeOK
    <3> QED  BY <1>4, <3>1
  <2>3. BufferedIsWatched'
    BY <2>1, <2>2 DEF BufferedIsWatched
  <2>4. ShutdownAfterData'
    BY <1>1, <1>4 DEF ShutdownAfterData
  <2> QED  BY <2>3, <2>4
<1>5. CASE WriteFails(rest) \/ GiveUp(rest)
  BY <1>3, <1>5 DEF WriteFails, GiveUp
<1>6. CASE WriteSome(s, k, rest)
  <2>1. ~writeShut
    BY <1>6 DEF WriteSome, Broken
  <2>2. PICK n \in 1..2 :
       IF n = 2 THEN UNCHANGED <<events, out, refused>> ELSE BufferBytes(SubSeq(Data(s, k), n + 1, 2))
    BY <1>6 DEF WriteSome
  <2>3. CASE n = 2
    BY <1>3, <2>2, <2>3
  <2>4. CASE n # 2
    <3>1. /\ SubSeq(Data(s, k), n + 1, 2) \in Seq(Bytes)
          /\ Len(SubSeq(Data(s, k), n + 1, 2)) = 2 - n
      BY <1>2, PartOfBytes
    <3>2. 2 - n > 0
      BY <2>4
    <3> QED  BY <1>4, <2>1, <2>2, <2>4, <3>1, <3>2
  <2> QED  BY <2>3, <2>4
<1>7. CASE WriteRefused(s, k, rest)
  <2>1. /\ BufferBytes(Before(s, k))
        /\ writeShut => refused' /\ peer = "reset"
    <3>1. BufferBytes(Before(s, k)) /\ refused' /\ (~Broken \/ sockErr = "other")
      BY <1>7, Zenon DEF WriteRefused
    <3>2. sockErr = "other" => peer = "reset"
      BY DEF ErrorsAreFinal
    <3> QED  BY <3>1, <3>2 DEF Broken
  <2>2. Before(s, k) \in Seq(Bytes) /\ Len(Before(s, k)) > 0
    BY <1>2
  <2> QED  BY <1>4, <2>1, <2>2, Zenon
<1>8. CASE QueueBehind(s, k, rest)
  <2>1. BufferBytes(Data(s, k)) /\ ("out" \in events \/ out # <<>>)
    BY <1>8 DEF QueueBehind, MayWrite
  <2>2. writeShut /\ downs = 0 => refused' /\ peer = "reset"
    <3>1. refused' = refused
      BY <1>8 DEF QueueBehind
    <3> QED  BY <2>1, <3>1 DEF BufferedIsWatched, ShutdownAfterData
  <2>3. Data(s, k) \in Seq(Bytes) /\ Len(Data(s, k)) > 0
    BY <1>2
  <2> QED  BY <1>4, <2>1, <2>2, <2>3, Zenon
<1> QED  BY <1>5, <1>6, <1>7, <1>8 DEF SendInLoop

\* handleWrite() stops asking with the last byte, and shuts down behind it.
LEMMA WriteKeepsWatch ==
  ASSUME TypeOK, WriteBuffered, Watched
  PROVE  BufferedIsWatched' /\ ShutdownAfterData'
<1> USE DEF Watched
<1>1. PICK n \in 1..Len(out) :
        /\ out' = SubSeq(out, n + 1, Len(out))
        /\ IF n = Len(out) THEN Drained ELSE UNCHANGED <<events, index, pending, writeShut>>
  BY DEF WriteBuffered
<1>2. "out" \in events /\ UNCHANGED <<peer, refused, downs>>
  BY DEF WriteBuffered, history
<1>3. out' \in Seq(Bytes) /\ Len(out') = Len(out) - n /\ Len(out) \in Nat
  BY <1>1, PartOfBytes, LenProperties DEF TypeOK
<1>4. CASE n = Len(out)
  <2>1. out' = <<>>
    BY <1>3, <1>4, EmptySeq
  <2>2. events' = events \ {"out"}
    BY <1>1, <1>4 DEF Drained, SetEvents
  <2>3. BufferedIsWatched'
    BY <2>1, <2>2 DEF BufferedIsWatched
  <2>4. ShutdownAfterData'
    BY <2>1, Zenon DEF ShutdownAfterData
  <2> QED  BY <2>3, <2>4
<1>5. CASE n # Len(out)
  <2>1. UNCHANGED <<events, writeShut>>
    BY <1>1, <1>5
  <2>2. Len(out') # 0 /\ Len(out) # 0
    BY <1>3, <1>5
  <2>3. out' # <<>> /\ out # <<>>
    BY <2>2
  <2>4. BufferedIsWatched'
    BY <1>2, <2>1, <2>3 DEF BufferedIsWatched
  <2>5. ShutdownAfterData'
    BY <1>2, <2>1, <2>3, Zenon DEF ShutdownAfterData
  <2> QED  BY <2>4, <2>5
<1> QED  BY <1>4, <1>5

\* Closing ends the watch for good: the down callback has run.
LEMMA CloseEndsWatch ==
  ASSUME TypeOK, CloseEvent \/ ReadEnd \/ TakeDown \/ \E rest : HandleClose(rest)
  PROVE  BufferedIsWatched' /\ ShutdownAfterData'
<1>1. events' = {} /\ downs' = downs + 1
  BY DEF CloseEvent, ReadEnd, TakeDown, HandleClose, SetEvents
<1>2. downs' # 0
  BY <1>1 DEF TypeOK
<1> QED  BY <1>1, <1>2 DEF BufferedIsWatched, ShutdownAfterData

\* shutdown() shuts the write end at once only when nothing is buffered.
LEMMA ShutdownKeepsWatch ==
  ASSUME RunShutdown \/ OwnShutdown, Watched
  PROVE  BufferedIsWatched' /\ ShutdownAfterData'
<1>1. UNCHANGED <<events, out, peer, refused, downs>> /\ ShutdownInLoop("out" \in events)
  BY DEF RunShutdown, OwnShutdown, conn, history
<1>2. writeShut' => writeShut \/ "out" \notin events
  BY <1>1, Zenon DEF ShutdownInLoop
<1> QED  BY <1>1, <1>2 DEF Watched, BufferedIsWatched, ShutdownAfterData

\* What else the connection does is to set "in".
LEMMA OthersKeepWatch ==
  ASSUME [Next]_vars, ~WriteBuffered, ~RunSend, ~OwnSend, ~RunShutdown, ~OwnShutdown,
         ~CloseEvent, ~ReadEnd, ~TakeDown, ~\E rest : HandleClose(rest)
  PROVE  /\ UNCHANGED <<out, refused, writeShut, downs>>
         /\ IF ConnectEstablished THEN events' = events \cup {"in"} ELSE UNCHANGED events
<1> USE DEF conn, loop, user, owner, kernel, history
<1>1. CASE ConnectEstablished
  BY <1>1 DEF ConnectEstablished, SetEvents
<1>2. CASE \/ Poll \/ TakePending \/ HandleError \/ ReadMessage \/ ReadError \/ WriteEventFails
           \/ RunCallback \/ ForceCloseInLoop
  BY <1>1, <1>2 DEF Poll, TakePending, HandleError, ReadMessage, ReadError, WriteEventFails,
              RunCallback, ForceCloseInLoop
<1>3. CASE \/ ConnectDestroyed \/ RemoveChannel \/ CloseCallback
           \/ CallbackReturns \/ OwnForceClose
  BY <1>1, <1>3 DEF ConnectDestroyed, RemoveChannel, CloseCallback, CallbackReturns, OwnForceClose
<1>4. CASE \E u \in Users : UserStep(u) \/ UserCall(u)
  BY <1>1, <1>4 DEF UserStep, UserCall, StartSend, QueueSend, StartClosing, SetDisconnecting,
              QueueClosing
<1>5. CASE \/ OwnerRemoves \/ OwnerGoes \/ PeerSends \/ PeerReads \/ PeerCloses \/ PeerResets \/ KernelGivesUp
           \/ UNCHANGED vars
  BY <1>1, <1>5 DEF OwnerRemoves, OwnerGoes, PeerSends, PeerReads, PeerCloses, PeerResets, KernelGivesUp, Aborted, vars
<1> QED  BY <1>1, <1>2, <1>3, <1>4, <1>5 DEF Next, LoopStep, OwnCall, Environment

\* Both facts, which need each other.
LEMMA WatchIsKept == Spec => []Watched
<1>1. Init => Watched
  BY DEF Init, Watched, BufferedIsWatched, ShutdownAfterData, ErrorsAreFinal
<1>2. Inv /\ Watched /\ [Next]_vars => Watched'
  <2> SUFFICES ASSUME Inv, Watched, [Next]_vars PROVE Watched'
    OBVIOUS
  <2>1. TypeOK
    BY DEF Inv
  <2>2. (refused => refused') /\ (peer = "reset" => peer' = "reset") /\ ErrorsAreFinal'
    BY <2>1, EndIsFinal DEF Watched
  <2>3. BufferedIsWatched' /\ ShutdownAfterData'
    <3>1. CASE RunSend \/ OwnSend
      BY <2>1, <3>1, SendsAMessage, SendKeepsWatch
    <3>2. CASE WriteBuffered
      BY <2>1, <3>2, WriteKeepsWatch
    <3>3. CASE CloseEvent \/ ReadEnd \/ TakeDown \/ \E rest : HandleClose(rest)
      BY <2>1, <3>3, CloseEndsWatch
    <3>4. CASE RunShutdown \/ OwnShutdown
      BY <3>4, ShutdownKeepsWatch
    <3>5. CASE /\ ~WriteBuffered /\ ~RunSend /\ ~OwnSend /\ ~RunShutdown /\ ~OwnShutdown
               /\ ~CloseEvent /\ ~ReadEnd /\ ~TakeDown /\ ~\E rest : HandleClose(rest)
      BY <2>2, <3>5, OthersKeepWatch DEF Watched, BufferedIsWatched, ShutdownAfterData
    <3> QED  BY <3>1, <3>2, <3>3, <3>4, <3>5
  <2> QED  BY <2>2, <2>3 DEF Watched
<1> QED  BY <1>1, <1>2, Invariance, PTL DEF Spec

\* While the connection is up its channel asks for "out" exactly as long as bytes
\* are buffered (enableWriting in sendInLoop(), disableWriting in handleWrite()):
\* no buffered byte is forgotten and no empty buffer keeps the loop awake.
THEOREM BytesAreWatched == Spec => []BufferedIsWatched
<1>1. Watched => BufferedIsWatched
  BY DEF Watched
<1> QED  BY <1>1, WatchIsKept, PTL

\* While the connection is up the write end is shut down only behind the last buffered
\* byte, whoever calls shutdown() and whenever (shutdownInLoop() and the end of
\* handleWrite()); and what is buffered behind it was sent too late, to a connection that
\* is over (sendInLoop() with neither EPIPE nor ECONNRESET).
THEOREM ShutdownWaits == Spec => []ShutdownAfterData
<1>1. Watched => ShutdownAfterData
  BY DEF Watched
<1> QED  BY <1>1, WatchIsKept, PTL
-----------------------------------------------------------------------------
(* A shutdown() that was asked for is not forgotten: what                  *)
(* ShutdownCompletes adds to this is fairness.                             *)

Closing == {"shutdown", "forceClose"}
Closes(q) == \E i \in DOMAIN q : q[i].op \in Closing

\* A thread has stored kDisconnecting and has still to queue its functor.
Asks == \E u \in Users, op \in Closing : pc[u] = <<"queue", op>>

\* A closing connection has its write end shut, or bytes to write before, or a functor
\* that will look at it.
ShutdownOnItsWay ==
  state = "kDisconnecting" =>
    writeShut \/ "out" \in events \/ Closes(batch) \/ Closes(pending) \/ Asks

\* When nothing is left to be done for a closing connection, its write end is shut.
ShutdownIsDone ==
  state = "kDisconnecting" /\ out = <<>> /\ ~Closes(batch) /\ ~Closes(pending) /\ ~Asks
    => writeShut

\* doPendingFunctors() comes after all handlers of an iteration, with no functor left
\* of the batch b before.
TakeLastIn(q, b) == \A i \in DOMAIN q : q[i] = "take" => i = Len(q) /\ b = <<>>
TakesLast == TakeLastIn(todo, batch)

\* What a queue keeps.
LEMMA ClosesStill ==
  ASSUME NEW q \in Seq(Functors)
  PROVE  /\ \A f \in Functors : Closes(q) \/ f.op \in Closing => Closes(Append(q, f))
         /\ q # <<>> /\ Closes(q) => Head(q).op \in Closing \/ Closes(Tail(q))
<1>1. ASSUME NEW f \in Functors, Closes(q) \/ f.op \in Closing
      PROVE  Closes(Append(q, f))
  <2>1. /\ Append(q, f) \in Seq(Functors) /\ Len(Append(q, f)) = Len(q) + 1
        /\ \A i \in 1..Len(q) : Append(q, f)[i] = q[i]
        /\ Append(q, f)[Len(q) + 1] = f
    BY AppendProperties
  <2>2. Len(q) \in Nat /\ DOMAIN q = 1..Len(q) /\ DOMAIN Append(q, f) = 1..(Len(q) + 1)
    BY <2>1, LenProperties
  <2> QED  BY <1>1, <2>1, <2>2 DEF Closes
<1>2. ASSUME q # <<>>, Closes(q), Head(q).op \notin Closing
      PROVE  Closes(Tail(q))
  <2>1. PICK i \in DOMAIN q : q[i].op \in Closing
    BY <1>2 DEF Closes
  <2>2. /\ Len(q) \in Nat \ {0} /\ DOMAIN q = 1..Len(q) /\ Head(q) = q[1]
        /\ Tail(q) \in Seq(Functors) /\ Len(Tail(q)) = Len(q) - 1
        /\ \A j \in 1..Len(Tail(q)) : Tail(q)[j] = q[j + 1]
    BY <1>2, LenProperties, EmptySeq, HeadTailProperties
  <2>3. i # 1
    BY <1>2, <2>1, <2>2
  <2>4. i - 1 \in 1..(Len(q) - 1) /\ (i - 1) + 1 = i
    BY <2>1, <2>2, <2>3
  <2>5. i - 1 \in DOMAIN Tail(q) /\ Tail(q)[i - 1] = q[i]
    BY <2>2, <2>4, LenProperties
  <2> QED  BY <2>1, <2>5 DEF Closes
<1> QED  BY <1>1, <1>2

\* Calls in front of others leave these where they are, seen from the end.
LEMMA TakeStaysLast ==
  ASSUME NEW rest \in Seq(Calls), NEW b, TakeLastIn(rest, b)
  PROVE  /\ TakeLastIn(<<"user">> \o rest, b) /\ TakeLastIn(<<"user", "closeCallback">> \o rest, b)
         /\ rest # <<>> => TakeLastIn(Tail(rest), b)
         /\ rest # <<>> /\ Head(rest) = "take" => Tail(rest) = <<>>
<1>1. Len(rest) \in Nat /\ DOMAIN rest = 1..Len(rest)
  BY LenProperties
<1>2. TakeLastIn(<<"user">> \o rest, b)
  <2> DEFINE t == <<"user">> \o rest
  <2>1. /\ DOMAIN t = 1..(1 + Len(rest)) /\ Len(t) = 1 + Len(rest)
        /\ \A i \in DOMAIN t : t[i] = IF i <= 1 THEN "user" ELSE rest[i - 1]
    BY <1>1
  <2> HIDE DEF t
  <2> SUFFICES ASSUME NEW i \in DOMAIN t, t[i] = "take"
               PROVE  i = Len(t) /\ b = <<>>
    BY DEF TakeLastIn, t
  <2>2. i - 1 \in DOMAIN rest /\ rest[i - 1] = "take"
    BY <1>1, <2>1
  <2> QED  BY <1>1, <2>1, <2>2 DEF TakeLastIn
<1>3. TakeLastIn(<<"user", "closeCallback">> \o rest, b)
  <2> DEFINE t == <<"user", "closeCallback">> \o rest
  <2>1. /\ DOMAIN t = 1..(2 + Len(rest)) /\ Len(t) = 2 + Len(rest) /\ t[1] = "user"
        /\ t[2] = "closeCallback" /\ \A i \in DOMAIN t : i > 2 => t[i] = rest[i - 2]
    BY <1>1
  <2> HIDE DEF t
  <2> SUFFICES ASSUME NEW i \in DOMAIN t, t[i] = "take"
               PROVE  i = Len(t) /\ b = <<>>
    BY DEF TakeLastIn, t
  <2>2. i # 1 /\ i # 2
    BY <2>1
  <2>3. i - 2 \in DOMAIN rest /\ rest[i - 2] = "take"
    BY <1>1, <2>1, <2>2
  <2> QED  BY <1>1, <2>1, <2>3 DEF TakeLastIn
<1>4. ASSUME rest # <<>>
      PROVE  TakeLastIn(Tail(rest), b) /\ (Head(rest) = "take" => Tail(rest) = <<>>)
  <2>1. /\ Head(rest) = rest[1] /\ Len(rest) \in Nat \ {0}
        /\ Tail(rest) \in Seq(Calls) /\ Len(Tail(rest)) = Len(rest) - 1
        /\ \A i \in 1..Len(Tail(rest)) : Tail(rest)[i] = rest[i + 1]
    BY <1>4, HeadTailProperties, EmptySeq
  <2>2. DOMAIN Tail(rest) = 1..(Len(rest) - 1)
    BY <2>1, LenProperties
  <2>3. TakeLastIn(Tail(rest), b)
    <3> SUFFICES ASSUME NEW i \in 1..(Len(rest) - 1), rest[i + 1] = "take"
                 PROVE  i = Len(rest) - 1 /\ b = <<>>
      BY <2>1, <2>2 DEF TakeLastIn
    <3>1. i + 1 \in DOMAIN rest
      BY <1>1
    <3>2. i + 1 = Len(rest) /\ b = <<>>
      BY <3>1 DEF TakeLastIn
    <3>3. \A m \in Nat : i \in 1..(m - 1) /\ i + 1 = m => i = m - 1
      OBVIOUS
    <3>4. i = Len(rest) - 1
      BY <1>1, <3>2, <3>3, Zenon
    <3> QED  BY <3>2, <3>4
  <2>4. Head(rest) = "take" => Len(rest) = 1
    BY <1>1, <2>1 DEF TakeLastIn
  <2> QED  BY <2>1, <2>3, <2>4, EmptySeq
<1> QED  BY <1>2, <1>3, <1>4

\* The handlers of an event come before doPendingFunctors().
LEMMA TakeComesLast ==
  ASSUME NEW revents
  PROVE  TakeLastIn(Callbacks(revents) \o <<"take">>, <<>>)
<1> DEFINE S == Calls \ {"take"}
           Run(name, cond) == IF cond THEN <<name>> ELSE <<>>
<1>1. \A cond, T : \A name \in T : Run(name, cond) \in Seq(T)
  OBVIOUS
<1>2. \A a, b \in Seq(S) : a \o b \in Seq(S)
  BY ConcatProperties
<1>3. "close" \in S /\ "error" \in S /\ "read" \in S /\ "write" \in S
  BY DEF Calls
<1>4. Callbacks(revents) =
        Run("close", "hup" \in revents /\ "in" \notin revents)
        \o Run("error", "err" \in revents) \o Run("read",  "in"  \in revents)
        \o Run("write", "out" \in revents)
  BY DEF Callbacks
<1>5. "take" \notin S
  OBVIOUS
<1> HIDE DEF Run, S
<1>6. Callbacks(revents) \in Seq(S)
  BY <1>1, <1>2, <1>3, <1>4
<1>7. ASSUME NEW q \in Seq(S)
      PROVE  TakeLastIn(q \o <<"take">>, <<>>)
  <2>1. Len(q) \in Nat /\ DOMAIN q = 1..Len(q) /\ \A i \in 1..Len(q) : q[i] # "take"
    BY <1>5, LenProperties, ElementOfSeq
  <2>2. /\ DOMAIN (q \o <<"take">>) = 1..(Len(q) + 1) /\ Len(q \o <<"take">>) = Len(q) + 1
        /\ \A i \in 1..Len(q) : (q \o <<"take">>)[i] = q[i]
    BY <2>1
  <2> QED  BY <2>1, <2>2 DEF TakeLastIn
<1> QED  BY <1>6, <1>7

\* sendInLoop() calls the write complete callback or nothing.
LEMMA SendCalls ==
  ASSUME NEW s, NEW k, NEW rest, SendInLoop(s, k, rest)
  PROVE  todo' \in {rest, <<"user">> \o rest}
<1>1. CASE WriteSome(s, k, rest)
  BY <1>1 DEF WriteSome
<1>2. CASE WriteFails(rest) \/ GiveUp(rest) \/ WriteRefused(s, k, rest) \/ QueueBehind(s, k, rest)
  BY <1>2 DEF WriteFails, GiveUp, WriteRefused, QueueBehind
<1> QED  BY <1>1, <1>2 DEF SendInLoop

\* The calls of a handler or a functor leave doPendingFunctors() the last.
LEMMA AlwaysTakesLast == Spec => []TakesLast
<1>1. Init => TakesLast
  BY EmptySeq DEF Init, TakesLast, TakeLastIn
<1>2. Inv /\ TakesLast /\ [Next]_vars => TakesLast'
  <2> SUFFICES ASSUME Inv, TakesLast, [Next]_vars PROVE TakesLast'
    OBVIOUS
  <2> USE DEF conn, loop, user, owner, kernel, history
  <2>1. todo \in Seq(Calls) /\ TakeLastIn(todo, batch)
    BY DEF Inv, TypeOK, TakesLast
  <2>2. CASE \/ OwnShutdown \/ OwnForceClose \/ OwnerRemoves \/ OwnerGoes
             \/ PeerSends \/ PeerReads \/ PeerCloses \/ PeerResets \/ KernelGivesUp
             \/ UNCHANGED vars \/ \E u \in Users : UserStep(u) \/ UserCall(u)
    <3>1. UNCHANGED <<todo, batch>>
      BY <2>2 DEF OwnShutdown, OwnForceClose, OwnerRemoves, OwnerGoes, PeerSends, PeerReads,
                  PeerCloses, PeerResets, KernelGivesUp, Aborted, vars, UserStep, UserCall, StartSend, QueueSend,
                  StartClosing, SetDisconnecting, QueueClosing
    <3> QED  BY <3>1 DEF TakesLast
  <2>3. CASE \/ HandleError \/ ReadMessage \/ ReadError \/ WriteBuffered \/ WriteEventFails
             \/ CloseEvent \/ ReadEnd \/ TakeDown \/ RemoveChannel \/ CloseCallback
             \/ CallbackReturns
    <3>1. /\ todo # <<>> /\ UNCHANGED batch
          /\ todo' \in {Tail(todo), <<"user">> \o Tail(todo),
                        <<"user", "closeCallback">> \o Tail(todo)}
      BY <2>3 DEF Next1, InCallback, HandleClose, HandleError, ReadMessage, ReadError,
                  WriteBuffered, WriteEventFails, CloseEvent, ReadEnd, TakeDown, RemoveChannel,
                  CloseCallback, CallbackReturns
    <3>2. TakeLastIn(Tail(todo), batch) /\ Tail(todo) \in Seq(Calls)
      BY <2>1, <3>1, TakeStaysLast, TailOf
    <3>3. TakeLastIn(todo', batch)
      BY <3>1, <3>2, TakeStaysLast
    <3> QED  BY <3>1, <3>3 DEF TakesLast
  <2>4. CASE OwnSend
    <3>1. todo' \in {todo, <<"user">> \o todo} /\ UNCHANGED batch
      BY <2>4, SendCalls DEF OwnSend
    <3>2. TakeLastIn(todo', batch)
      BY <2>1, <3>1, TakeStaysLast
    <3> QED  BY <3>1, <3>2 DEF TakesLast
  <2>5. CASE \/ ConnectEstablished \/ RunSend \/ RunShutdown \/ ForceCloseInLoop \/ RunCallback
             \/ ConnectDestroyed
    <3>1. todo = <<>>
      BY <2>5 DEF Starts, ConnectEstablished, RunSend, RunShutdown, ForceCloseInLoop, RunCallback,
                  ConnectDestroyed
    <3>2. todo' \in {<<>>, <<"user">>, <<"user">> \o <<>>, <<"user", "closeCallback">> \o <<>>,
                     <<"remove">>, <<"down", "remove">>}
      <4>1. CASE RunSend
        BY <4>1, SendCalls DEF RunSend
      <4>2. CASE ForceCloseInLoop
        BY <3>1, <4>2 DEF ForceCloseInLoop, HandleClose
      <4>3. CASE ConnectEstablished \/ RunShutdown \/ RunCallback \/ ConnectDestroyed
        BY <3>1, <4>3 DEF ConnectEstablished, RunShutdown, RunCallback, ConnectDestroyed
      <4> QED  BY <2>5, <4>1, <4>2, <4>3
    <3>3. \A i \in DOMAIN todo' : todo'[i] # "take"
      BY <3>2
    <3> QED  BY <3>3 DEF TakesLast, TakeLastIn
  <2>6. CASE Poll
    <3>1. todo' = Callbacks(Revents) \o <<"take">> /\ batch' = <<>>
      BY <2>6 DEF Poll
    <3> QED  BY <3>1, TakeComesLast DEF TakesLast
  <2>7. CASE TakePending
    <3>1. todo # <<>> /\ Head(todo) = "take" /\ todo' = Tail(todo)
      BY <2>7 DEF TakePending, Next1
    <3>2. todo' = <<>>
      BY <2>1, <3>1, TakeStaysLast
    <3> QED  BY <3>2, EmptySeq DEF TakesLast, TakeLastIn
  <2> QED  BY <2>2, <2>3, <2>4, <2>5, <2>6, <2>7 DEF Next, LoopStep, OwnCall, Environment
<1> QED  BY <1>1, <1>2, Invariance, PTL DEF Spec

\* A step keeps a shutdown() on its way when it takes no functor that looks at it,
\* and shuts, watches and asks for as much as before.
LEMMA StaysOnItsWay ==
  ASSUME TypeOK, ShutdownOnItsWay, UNCHANGED <<state, writeShut>>,
         "out" \in events => "out" \in events',
         Asks => Asks',
         pending' = pending \/ \E f \in Functors : pending' = Append(pending, f),
         \/ batch' = batch
         \/ batch # <<>> /\ batch' = Tail(batch) /\ Head(batch).op \notin Closing
  PROVE  ShutdownOnItsWay'
<1>1. Closes(pending) => Closes(pending')
  BY ClosesStill DEF TypeOK
<1>2. Closes(batch) => Closes(batch')
  BY ClosesStill DEF TypeOK
<1> QED  BY <1>1, <1>2 DEF ShutdownOnItsWay

\* A thread that is not about to queue its functor changes nothing about who asks.
LEMMA AsksStill ==
  ASSUME TypeOK, NEW u \in Users, NEW to, pc' = [pc EXCEPT ![u] = to],
         pc[u] \in {<<"idle">>, <<"send">>}, Asks
  PROVE  Asks'
<1>1. PICK v \in Users, op \in Closing : pc[v] = <<"queue", op>>
  BY DEF Asks
<1>2. v # u
  BY <1>1
<1>3. pc'[v] = <<"queue", op>>
  BY <1>1, <1>2 DEF TypeOK
<1> QED  BY <1>3 DEF Asks

\* sendInLoop() at most asks for "out" and queues the high water callback.
LEMMA SendAsks ==
  ASSUME NEW s, NEW k, NEW rest, SendInLoop(s, k, rest)
  PROVE  /\ "out" \in events => "out" \in events'
         /\ pending' = pending \/ \E f \in Functors : pending' = Append(pending, f)
         /\ UNCHANGED writeShut
<1>1. UNCHANGED writeShut
  BY DEF SendInLoop
<1>2. UNCHANGED <<events, pending>> \/ \E bytes : BufferBytes(bytes)
  BY Zenon DEF SendInLoop, WriteFails, GiveUp, WriteSome, WriteRefused, QueueBehind
<1>3. ASSUME NEW bytes, BufferBytes(bytes)
      PROVE  /\ "out" \in events => "out" \in events'
             /\ pending' = pending \/ \E f \in Functors : pending' = Append(pending, f)
  BY <1>3, FunctorTypes DEF BufferBytes, SetEvents
<1> QED  BY <1>1, <1>2, <1>3

\* shutdown() and forceClose() set their functor, or the write end, on its way
\* before or with the store to state_.
LEMMA ClosingStepsKeepWay ==
  ASSUME Inv, ShutdownOnItsWay,
         \/ RunShutdown \/ OwnShutdown \/ OwnForceClose
         \/ \E u \in Users, op \in Closing : SetDisconnecting(u, op) \/ QueueClosing(u, op)
  PROVE  ShutdownOnItsWay'
<1> USE DEF conn, loop, user, owner, kernel, history
<1>1. TypeOK
  BY DEF Inv
<1>2. CASE RunShutdown \/ OwnShutdown
  <2>1. UNCHANGED events /\ ShutdownInLoop("out" \in events)
    BY <1>2 DEF RunShutdown, OwnShutdown
  <2>2. writeShut' \/ "out" \in events'
    BY <2>1, Zenon DEF ShutdownInLoop
  <2> QED  BY <2>2, Zenon DEF ShutdownOnItsWay
<1>3. CASE OwnForceClose \/ \E u \in Users, op \in Closing : QueueClosing(u, op)
  <2>1. PICK op \in Closing : pending' = Append(pending, Functor(op))
    BY <1>3 DEF OwnForceClose, QueueClosing, Closing
  <2>2. Functor(op) \in Functors /\ Functor(op).op \in Closing
    BY FunctorTypes DEF Closing, Functor
  <2>3. Closes(pending')
    BY <1>1, <2>1, <2>2, ClosesStill DEF TypeOK
  <2> QED  BY <2>3, Zenon DEF ShutdownOnItsWay
<1>4. CASE \E u \in Users, op \in Closing : SetDisconnecting(u, op)
  <2>1. PICK u \in Users, op \in Closing : pc' = [pc EXCEPT ![u] = <<"queue", op>>]
    BY <1>4 DEF SetDisconnecting
  <2>2. pc'[u] = <<"queue", op>>
    BY <1>1, <2>1 DEF TypeOK
  <2>3. Asks'
    BY <2>2 DEF Asks
  <2> QED  BY <2>3, Zenon DEF ShutdownOnItsWay
<1> QED  BY <1>2, <1>3, <1>4

\* doPendingFunctors() takes all functors, and handleWrite() shuts behind the last byte.
LEMMA LoopKeepsWay ==
  ASSUME Inv, TakesLast, ShutdownOnItsWay, TakePending \/ WriteBuffered
  PROVE  ShutdownOnItsWay'
<1> USE DEF conn, loop, user, owner, kernel, history
<1>1. TypeOK
  BY DEF Inv
<1>2. CASE TakePending
  <2>1. /\ todo # <<>> /\ Head(todo) = "take" /\ batch' = pending
        /\ UNCHANGED <<state, events, writeShut, pc>>
    BY <1>2 DEF TakePending, Next1
  <2>2. batch = <<>>
    BY <1>1, <2>1, TailOf DEF TakesLast, TakeLastIn, TypeOK
  <2>3. ~Closes(batch)
    BY <2>2, EmptySeq DEF Closes
  <2>4. Closes(pending) => Closes(batch')
    BY <2>1
  <2>5. Asks => Asks'
    BY <2>1 DEF Asks
  <2> QED  BY <2>1, <2>3, <2>4, <2>5, Zenon DEF ShutdownOnItsWay
<1>3. CASE WriteBuffered
  <2>1. PICK n \in 1..Len(out) :
          IF n = Len(out) THEN Drained ELSE UNCHANGED <<events, index, pending, writeShut>>
    BY <1>3 DEF WriteBuffered
  <2>2. UNCHANGED <<state, batch, pc>>
    BY <1>3 DEF WriteBuffered
  <2>3. Asks => Asks'
    BY <2>2 DEF Asks
  <2>4. CASE n = Len(out)
    <3>1. state = "kDisconnecting" => writeShut'
      BY <2>1, <2>4, Zenon DEF Drained, ShutdownInLoop
    <3> QED  BY <2>2, <3>1, Zenon DEF ShutdownOnItsWay
  <2>5. CASE n # Len(out)
    <3>1. UNCHANGED <<events, pending, writeShut>>
      BY <2>1, <2>5
    <3> QED  BY <1>1, <2>2, <2>3, <3>1, StaysOnItsWay
  <2> QED  BY <2>4, <2>5
<1> QED  BY <1>2, <1>3

\* A step of the loop that takes no functor of shutdown() or forceClose(), of the owner
\* and of the peer.
LEMMA OtherStepsKeepWay ==
  ASSUME Inv, ShutdownOnItsWay,
         \/ Poll \/ HandleError \/ ReadMessage \/ ReadError \/ WriteEventFails \/ RemoveChannel
         \/ CloseCallback \/ CallbackReturns \/ RunCallback \/ ConnectDestroyed
         \/ RunSend \/ OwnSend
         \/ OwnerRemoves \/ OwnerGoes \/ PeerSends \/ PeerReads \/ PeerCloses \/ PeerResets \/ KernelGivesUp
         \/ UNCHANGED vars
  PROVE  ShutdownOnItsWay'
<1> USE DEF conn, loop, user, owner, kernel, history
<1>1. TypeOK
  BY DEF Inv
<1>2. CASE \/ Poll \/ HandleError \/ ReadMessage \/ ReadError \/ WriteEventFails \/ RemoveChannel
           \/ CloseCallback \/ CallbackReturns
           \/ PeerSends \/ PeerReads \/ PeerCloses \/ PeerResets \/ KernelGivesUp \/ UNCHANGED vars
  <2>1. UNCHANGED <<state, writeShut, events, pc, pending, batch>>
    BY <1>2 DEF Poll, HandleError, ReadMessage, ReadError, WriteEventFails, RemoveChannel,
                CloseCallback, CallbackReturns, PeerSends, PeerReads, PeerCloses, PeerResets, KernelGivesUp, Aborted, vars
  <2>2. Asks => Asks'
    BY <2>1 DEF Asks
  <2> QED  BY <1>1, <2>1, <2>2, StaysOnItsWay
<1>3. CASE RunCallback \/ ConnectDestroyed
  <2>1. /\ UNCHANGED <<state, writeShut, events, pc, pending>>
        /\ batch # <<>> /\ batch' = Tail(batch) /\ Head(batch).op \notin Closing
    BY <1>3 DEF RunCallback, ConnectDestroyed, Starts, Closing
  <2>2. Asks => Asks'
    BY <2>1 DEF Asks
  <2> QED  BY <1>1, <2>1, <2>2, StaysOnItsWay
<1>4. CASE RunSend
  <2>1. /\ UNCHANGED <<state, pc>>
        /\ batch # <<>> /\ batch' = Tail(batch) /\ Head(batch).op \notin Closing
        /\ SendInLoop(Head(batch).from, cur[Head(batch).from], <<>>)
    BY <1>4 DEF RunSend, Starts, Closing
  <2>2. Asks => Asks'
    BY <2>1 DEF Asks
  <2> QED  BY <1>1, <2>1, <2>2, SendAsks, StaysOnItsWay
<1>5. CASE OwnSend
  <2>1. UNCHANGED <<state, pc, batch>> /\ SendInLoop(Loop, calls[Loop] + 1, todo)
    BY <1>5 DEF OwnSend
  <2>2. Asks => Asks'
    BY <2>1 DEF Asks
  <2> QED  BY <1>1, <2>1, <2>2, SendAsks, StaysOnItsWay
<1>6. CASE OwnerRemoves \/ OwnerGoes
  <2>1. /\ UNCHANGED <<state, writeShut, events, pc, batch>>
        /\ pending' = Append(pending, Functor("destroy"))
    BY <1>6 DEF OwnerRemoves, OwnerGoes
  <2>2. Asks => Asks'
    BY <2>1 DEF Asks
  <2> QED  BY <1>1, <2>1, <2>2, FunctorTypes, StaysOnItsWay
<1> QED  BY <1>2, <1>3, <1>4, <1>5, <1>6

\* send() by another thread, and the tests of state_ before the stores.
LEMMA CallsKeepWay ==
  ASSUME Inv, ShutdownOnItsWay,
         \E u \in Users : \/ StartSend(u) \/ QueueSend(u)
                          \/ \E op \in Closing : StartClosing(u, op)
  PROVE  ShutdownOnItsWay'
<1> USE DEF conn, loop, user, owner, kernel, history
<1>1. TypeOK
  BY DEF Inv
<1>2. PICK u \in Users : \/ StartSend(u) \/ QueueSend(u)
                         \/ \E op \in Closing : StartClosing(u, op)
  OBVIOUS
<1>3. /\ UNCHANGED <<state, writeShut, events, batch>>
      /\ pending' = pending \/ pending' = Append(pending, SendFunctor(u, cur[u]))
      /\ pc[u] \in {<<"idle">>, <<"send">>}
      /\ \E to : pc' = [pc EXCEPT ![u] = to]
  BY <1>2 DEF StartSend, QueueSend, StartClosing
<1>4. SendFunctor(u, cur[u]) \in Functors
  BY <1>1, FunctorTypes DEF TypeOK
<1>5. Asks => Asks'
  BY <1>1, <1>3, AsksStill
<1> QED  BY <1>1, <1>3, <1>4, <1>5, StaysOnItsWay

\* A closing connection never waits for nothing.
LEMMA AlwaysOnItsWay == Spec => []ShutdownOnItsWay
<1>1. Init => ShutdownOnItsWay
  BY DEF Init, ShutdownOnItsWay
<1>2. Inv /\ TakesLast /\ ShutdownOnItsWay /\ [Next]_vars => ShutdownOnItsWay'
  <2> SUFFICES ASSUME Inv, TakesLast, ShutdownOnItsWay, [Next]_vars PROVE ShutdownOnItsWay'
    OBVIOUS
  <2>1. CASE CloseEvent \/ ReadEnd \/ TakeDown \/ ConnectEstablished
    <3>1. state' # "kDisconnecting"
      BY <2>1 DEF CloseEvent, ReadEnd, TakeDown, ConnectEstablished, HandleClose
    <3> QED  BY <3>1 DEF ShutdownOnItsWay
  <2>2. CASE ForceCloseInLoop
    <3>1. state' # "kDisconnecting"
      BY <2>2 DEF ForceCloseInLoop, HandleClose, conn
    <3> QED  BY <3>1 DEF ShutdownOnItsWay
  <2>3. CASE \/ RunShutdown \/ OwnShutdown \/ OwnForceClose
             \/ \E u \in Users, op \in Closing : SetDisconnecting(u, op) \/ QueueClosing(u, op)
    BY <2>3, ClosingStepsKeepWay
  <2>4. CASE TakePending \/ WriteBuffered
    BY <2>4, LoopKeepsWay
  <2>5. CASE \E u \in Users : \/ StartSend(u) \/ QueueSend(u)
                              \/ \E op \in Closing : StartClosing(u, op)
    BY <2>5, CallsKeepWay
  <2>6. CASE \E u \in Users : UserStep(u) \/ UserCall(u)
    BY <2>3, <2>5, <2>6 DEF UserStep, UserCall, Closing
  <2> QED  BY <2>1, <2>2, <2>3, <2>4, <2>6, OtherStepsKeepWay
           DEF Next, LoopStep, OwnCall, Environment
<1> QED  BY <1>1, <1>2, Invariance, AlwaysTakesLast, PTL DEF Spec

\* After shutdown() the write end is shut down as soon as no byte is buffered, no thread
\* is between its store to state_ and its queueInLoop(), and no functor of a shutdown()
\* or forceClose() is left to run (shutdown(), shutdownInLoop(), the end of
\* handleWrite()): the request is never lost between the threads.
THEOREM ShutdownIsNotForgotten == Spec => []ShutdownIsDone
<1>1. ShutdownOnItsWay /\ BufferedIsWatched => ShutdownIsDone
  BY Zenon DEF ShutdownOnItsWay, BufferedIsWatched, ShutdownIsDone
<1> QED  BY <1>1, AlwaysOnItsWay, BytesAreWatched, PTL
-----------------------------------------------------------------------------
(* The end of the peer is not missed: what PeerCloseIsNoticed adds to this *)
(* is fairness.                                                            *)

\* A connection that is up asks for "in" and is in the poller, or was removed from it.
UpIsPolled == ups = 1 /\ downs = 0 => "in" \in events /\ index \in {kAdded, kNew}

\* While a connection is up and not removed, poll() would report that its peer has gone.
PeerEndIsReported ==
  peer # "open" /\ ups = 1 /\ downs = 0 /\ index # kNew => "in" \in Revents

\* What sendInLoop() and handleWrite() change of the interest is "out".
LEMMA WritersKeepIn ==
  ASSUME WriteBuffered \/ RunSend \/ OwnSend
  PROVE  /\ UNCHANGED <<ups, downs>>
         /\ \/ UNCHANGED <<events, index>>
            \/ \E evs : ("in" \in events => "in" \in evs) /\ SetEvents(evs)
<1> USE DEF history
<1>1. CASE WriteBuffered
  <2>1. UNCHANGED <<events, index>> \/ SetEvents(events \ {"out"})
    BY <1>1 DEF WriteBuffered, Drained
  <2>2. "in" \in events => "in" \in events \ {"out"}
    OBVIOUS
  <2>3. UNCHANGED <<ups, downs>>
    BY <1>1 DEF WriteBuffered
  <2> QED  BY <2>1, <2>2, <2>3
<1>2. CASE RunSend \/ OwnSend
  <2>1. PICK s, k, rest : SendInLoop(s, k, rest)
    BY <1>2 DEF RunSend, OwnSend
  <2>2. UNCHANGED <<events, index>> \/ \E bytes : BufferBytes(bytes)
    BY <2>1, Zenon DEF SendInLoop, WriteFails, GiveUp, WriteSome, WriteRefused, QueueBehind
  <2>3. UNCHANGED <<events, index>> \/ SetEvents(events \cup {"out"})
    BY <2>2 DEF BufferBytes
  <2>4. UNCHANGED <<ups, downs>>
    BY <2>1 DEF SendInLoop
  <2>5. "in" \in events => "in" \in events \cup {"out"}
    OBVIOUS
  <2> QED  BY <2>3, <2>4, <2>5
<1> QED  BY <1>1, <1>2

\* What else the connection does but close keeps the interest, or sets "in".
LEMMA OthersKeepIn ==
  ASSUME [Next]_vars, ~WriteBuffered, ~RunSend, ~OwnSend, ~ConnectEstablished,
         ~CloseEvent, ~ReadEnd, ~TakeDown, ~\E rest : HandleClose(rest)
  PROVE  UNCHANGED <<events, ups, downs>> /\ index' \in {index, kNew}
<1> USE DEF conn, loop, user, owner, kernel, history
<1>1. CASE \/ Poll \/ TakePending \/ HandleError \/ ReadMessage \/ ReadError \/ WriteEventFails
           \/ RunCallback \/ RunShutdown \/ ForceCloseInLoop
  BY <1>1 DEF Poll, TakePending, HandleError, ReadMessage, ReadError, WriteEventFails,
              RunCallback, RunShutdown, ForceCloseInLoop
<1>2. CASE \/ ConnectDestroyed \/ RemoveChannel \/ CloseCallback
           \/ CallbackReturns \/ OwnShutdown \/ OwnForceClose
  BY <1>2 DEF ConnectDestroyed, RemoveChannel, CloseCallback, CallbackReturns, OwnShutdown,
              OwnForceClose
<1>3. CASE \E u \in Users : UserStep(u) \/ UserCall(u)
  BY <1>3 DEF UserStep, UserCall, StartSend, QueueSend, StartClosing, SetDisconnecting,
              QueueClosing
<1>4. CASE \/ OwnerRemoves \/ OwnerGoes \/ PeerSends \/ PeerReads \/ PeerCloses \/ PeerResets \/ KernelGivesUp
           \/ UNCHANGED vars
  BY <1>4 DEF OwnerRemoves, OwnerGoes, PeerSends, PeerReads, PeerCloses, PeerResets, KernelGivesUp, Aborted, vars
<1> QED  BY <1>1, <1>2, <1>3, <1>4 DEF Next, LoopStep, OwnCall, Environment

\* An added channel that wants "in" stays added.
LEMMA AddedStays ==
  ASSUME NEW evs, "in" \in evs, SetEvents(evs)
  PROVE  "in" \in events' /\ index' = kAdded
  BY DEF SetEvents, IndexAfterUpdate

\* The channel is watched for reading from the up callback to the down callback.
LEMMA AlwaysPolled == Spec => []UpIsPolled
<1>1. Init => UpIsPolled
  BY DEF Init, UpIsPolled
<1>2. Inv /\ UpIsPolled /\ [Next]_vars => UpIsPolled'
  <2> SUFFICES ASSUME Inv, UpIsPolled, [Next]_vars PROVE UpIsPolled'
    OBVIOUS
  <2>1. downs \in Nat
    BY DEF Inv, TypeOK
  <2>2. CASE WriteBuffered \/ RunSend \/ OwnSend
    BY <2>2, WritersKeepIn, AddedStays DEF UpIsPolled
  <2>3. CASE ConnectEstablished
    <3>1. "in" \in events' /\ index' = kAdded
      BY <2>3, AddedStays DEF ConnectEstablished
    <3> QED  BY <3>1 DEF UpIsPolled
  <2>4. CASE CloseEvent \/ ReadEnd \/ TakeDown \/ \E rest : HandleClose(rest)
    <3>1. downs' = downs + 1
      BY <2>4 DEF CloseEvent, ReadEnd, TakeDown, HandleClose
    <3>2. downs' # 0
      BY <2>1, <3>1
    <3> QED  BY <3>2 DEF UpIsPolled
  <2>5. CASE /\ ~WriteBuffered /\ ~RunSend /\ ~OwnSend /\ ~ConnectEstablished
             /\ ~CloseEvent /\ ~ReadEnd /\ ~TakeDown /\ ~\E rest : HandleClose(rest)
    BY <2>5, OthersKeepIn DEF UpIsPolled
  <2> QED  BY <2>2, <2>3, <2>4, <2>5
<1> QED  BY <1>1, <1>2, Invariance, PTL DEF Spec

\* As long as a connection is up and not removed, the next poll() reports the end or the
\* reset of its peer, whatever was written, buffered or shut down before
\* (enableReading in connectEstablished(), disableWriting in handleWrite()).
THEOREM PeerEndIsNotMissed == Spec => []PeerEndIsReported
<1>1. UpIsPolled => PeerEndIsReported
  BY Zenon DEF UpIsPolled, PeerEndIsReported, Revents, Conditions, Reportable
<1> QED  BY <1>1, AlwaysPolled, PTL
=============================================================================
