--------------------- MODULE TcpConnectionOrderProofs ---------------------
(***************************************************************************)
(* Proofs about the order in which a TcpConnection runs the callbacks of   *)
(* its user, for any number of threads, calls and messages: messages only  *)
(* between up and down, and one up and one down, the latter unless another *)
(* thread's store to state_ comes late or the owner is destroyed first.    *)
(***************************************************************************)
EXTENDS TcpConnectionProofs

(* When the message callback runs.                                          *)

\* Before the up callback the channel is not registered, and nothing but
\* connectEstablished can be the first thing to run.
NotUpYet ==
  ups = 0 =>
    /\ downs = 0 /\ events = {} /\ index = kNew
    /\ todo \in {<<>>, <<"take">>}
    /\ batch # <<>> => todo = <<>>
    /\ IF batch # <<>> THEN batch[1].op = "establish"
                       ELSE pending # <<>> /\ pending[1].op = "establish"

\* The channel asks for "in" only while the connection is up.
ReadsWhileUp == "in" \in events => ups = 1 /\ downs = 0

\* handleRead() is the next handler to run, but for handleError(), and the channel
\* still asks for "in" then.
ReadFirst ==
  \A i \in DOMAIN todo :
    todo[i] = "read" => (i = 1 \/ (i = 2 /\ todo[1] = "error")) /\ "in" \in events

NoRead(q) == \A i \in DOMAIN q : q[i] # "read"

UpInv == NotUpYet /\ ReadsWhileUp /\ ReadFirst

\* Nothing that is pushed in front of other calls reads.
LEMMA PushedReadsNothing ==
  ASSUME NEW rest \in Seq(Calls), NoRead(rest)
  PROVE  /\ NoRead(<<"user">> \o rest) /\ NoRead(<<"user", "closeCallback">> \o rest)
         /\ NoRead(<<>>) /\ NoRead(<<"user">>)
         /\ NoRead(<<"remove">>) /\ NoRead(<<"down", "remove">>)
<1>1. Len(rest) \in Nat /\ DOMAIN rest = 1..Len(rest)
  BY LenProperties
<1>2. NoRead(<<"user">> \o rest)
  BY <1>1 DEF NoRead
<1>3. NoRead(<<"user", "closeCallback">> \o rest)
  BY <1>1 DEF NoRead
<1>4. /\ NoRead(<<>>) /\ NoRead(<<"user">>)
      /\ NoRead(<<"remove">>) /\ NoRead(<<"down", "remove">>)
  BY DEF NoRead
<1> QED  BY <1>2, <1>3, <1>4

\* Behind anything but handleError() nothing reads.
LEMMA TailReadsNothing ==
  ASSUME TypeOK, ReadFirst, todo # <<>>
  PROVE  /\ Head(todo) # "error" => NoRead(Tail(todo))
         /\ Head(todo) \notin {"error", "read"} => NoRead(todo)
         /\ \A i \in DOMAIN Tail(todo) : Tail(todo)[i] = "read" => i = 1 /\ "in" \in events
<1>1. /\ Head(todo) = todo[1] /\ 1 \in DOMAIN todo
      /\ \A i \in DOMAIN Tail(todo) :
           i \in Nat \ {0} /\ i + 1 \in DOMAIN todo /\ Tail(todo)[i] = todo[i + 1]
  BY TailOf DEF TypeOK
<1>2. \A i \in DOMAIN Tail(todo) :
        Tail(todo)[i] = "read" => i = 1 /\ "in" \in events /\ Head(todo) = "error"
  <2> SUFFICES ASSUME NEW i \in DOMAIN Tail(todo), Tail(todo)[i] = "read"
               PROVE  i = 1 /\ "in" \in events /\ Head(todo) = "error"
    OBVIOUS
  <2>1. i \in Nat \ {0} /\ i + 1 \in DOMAIN todo /\ todo[i + 1] = "read"
    BY <1>1
  <2>2. (i + 1 = 1 \/ (i + 1 = 2 /\ todo[1] = "error")) /\ "in" \in events
    BY <2>1 DEF ReadFirst
  <2> QED  BY <1>1, <2>1, <2>2
<1>3. Head(todo) \notin {"error", "read"} => NoRead(todo)
  BY <1>1 DEF ReadFirst, NoRead
<1> QED  BY <1>2, <1>3 DEF NoRead

\* handleRead() behind handleError(), or first.
LEMMA ReadAfterError ==
  ASSUME NEW b \in {<<>>, <<"error">>}, NEW d \in {<<>>, <<"write">>},
         NEW q, q = (((<<>> \o b) \o <<"read">>) \o d) \o <<"take">>
  PROVE  \A i \in DOMAIN q : q[i] = "read" => (i = 1 \/ (i = 2 /\ q[1] = "error"))
<1>1. CASE b = <<>>
  <2>1. q = (((<<>> \o <<>>) \o <<"read">>) \o d) \o <<"take">>
    BY <1>1
  <2>2. \A i \in DOMAIN q : q[i] = "read" => i = 1
    BY <2>1
  <2> QED  BY <2>2
<1>2. CASE b = <<"error">>
  <2>1. q = (((<<>> \o <<"error">>) \o <<"read">>) \o d) \o <<"take">>
    BY <1>2
  <2>2. q[1] = "error" /\ \A i \in DOMAIN q : q[i] = "read" => i = 2
    BY <2>1
  <2> QED  BY <2>2
<1> QED  BY <1>1, <1>2

\* What reads nowhere still does not when it is put together.
LEMMA NoReadJoins ==
  ASSUME NEW s \in Seq(Calls), NEW t \in Seq(Calls), NoRead(s), NoRead(t)
  PROVE  s \o t \in Seq(Calls) /\ NoRead(s \o t)
  BY DEF NoRead

\* What handleEventWithGuard() runs for what epoll reports: a channel that does
\* not ask for "in" is not read, and nothing but handleError() comes before it.
LEMMA CallbackOrder ==
  ASSUME NEW revents, NEW q, q = Callbacks(revents) \o <<"take">>
  PROVE  \A i \in DOMAIN q :
           q[i] = "read" => (i = 1 \/ (i = 2 /\ q[1] = "error")) /\ "in" \in revents
<1> DEFINE a == IF "hup" \in revents /\ "in" \notin revents THEN <<"close">> ELSE <<>>
           b == IF "err" \in revents THEN <<"error">> ELSE <<>>
           c == IF "in" \in revents THEN <<"read">> ELSE <<>>
           d == IF "out" \in revents THEN <<"write">> ELSE <<>>
<1>1. /\ a \in {<<>>, <<"close">>} /\ b \in {<<>>, <<"error">>} /\ d \in {<<>>, <<"write">>}
      /\ "in" \in revents => a = <<>> /\ c = <<"read">>
      /\ "in" \notin revents => c = <<>>
  OBVIOUS
<1>4. q = (((a \o b) \o c) \o d) \o <<"take">>
  BY Zenon DEF Callbacks
<1> HIDE DEF a, b, c, d
<1>2. CASE "in" \in revents
  <2>1. q = (((<<>> \o b) \o <<"read">>) \o d) \o <<"take">>
    BY <1>1, <1>2, <1>4, Zenon
  <2>2. \A i \in DOMAIN q : q[i] = "read" => (i = 1 \/ (i = 2 /\ q[1] = "error"))
    BY <1>1, <2>1, ReadAfterError, Zenon
  <2> QED  BY <1>2, <2>2
<1>3. CASE "in" \notin revents
  <2>1. q = (((a \o b) \o <<>>) \o d) \o <<"take">>
    BY <1>1, <1>3, <1>4, Zenon
  <2>3. \A e \in {<<>>, <<"close">>, <<"error">>, <<"write">>, <<"take">>} :
          e \in Seq(Calls) /\ NoRead(e)
    <3>1. /\ NoRead(<<>>) /\ NoRead(<<"close">>) /\ NoRead(<<"error">>)
          /\ NoRead(<<"write">>) /\ NoRead(<<"take">>)
      BY DEF NoRead
    <3>2. /\ <<>> \in Seq(Calls) /\ <<"close">> \in Seq(Calls) /\ <<"error">> \in Seq(Calls)
          /\ <<"write">> \in Seq(Calls) /\ <<"take">> \in Seq(Calls)
      BY DEF Calls
    <3> QED  BY <3>1, <3>2, Zenon
  <2>2. /\ a \in Seq(Calls) /\ NoRead(a) /\ b \in Seq(Calls) /\ NoRead(b)
        /\ d \in Seq(Calls) /\ NoRead(d)
    BY <1>1, <2>3, Zenon
  <2>4. a \o b \in Seq(Calls) /\ NoRead(a \o b)
    BY <2>2, NoReadJoins, Zenon
  <2>5. (a \o b) \o <<>> \in Seq(Calls) /\ NoRead((a \o b) \o <<>>)
    BY <2>3, <2>4, NoReadJoins, Zenon
  <2>6. ((a \o b) \o <<>>) \o d \in Seq(Calls) /\ NoRead(((a \o b) \o <<>>) \o d)
    BY <2>2, <2>5, NoReadJoins, Zenon
  <2>7. NoRead(q)
    BY <2>1, <2>3, <2>6, NoReadJoins, Zenon
  <2> QED  BY <2>7, <1>3 DEF NoRead
<1> QED  BY <1>2, <1>3

\* Before the up callback only connectEstablished, the way to it, other threads,
\* the owner and the peer can take a step.
LEMMA BeforeUp ==
  ASSUME Inv, NotUpYet, ups = 0, Next
  PROVE  \/ Poll \/ TakePending \/ ConnectEstablished
         \/ \E u \in Users : UserStep(u) \/ UserCall(u)
         \/ OwnerRemoves \/ OwnerGoes \/ PeerSends \/ PeerReads \/ PeerCloses \/ PeerResets \/ KernelGivesUp
<1>1. todo \in {<<>>, <<"take">>}
  BY DEF NotUpYet
<1>2. \A call : Next1(call) => call = "take"
  BY <1>1 DEF Next1
<1>3. \A op : Starts(op) => op = "establish"
  <2>1. batch # <<>> => batch[1].op = "establish"
    BY DEF NotUpYet
  <2>2. batch # <<>> => Head(batch) = batch[1]
    BY TailOf DEF Inv, TypeOK
  <2> QED  BY <2>1, <2>2 DEF Starts
<1>4. ~(CloseEvent \/ HandleError \/ ReadMessage \/ ReadEnd \/ ReadError \/ WriteBuffered)
  BY <1>2 DEF CloseEvent, HandleError, ReadMessage, ReadEnd, ReadError, WriteBuffered
<1>5. ~(WriteEventFails \/ TakeDown \/ RemoveChannel \/ CloseCallback \/ CallbackReturns)
  BY <1>2 DEF WriteEventFails, TakeDown, RemoveChannel, CloseCallback, CallbackReturns, InCallback
<1>6. ~OwnCall
  BY <1>2 DEF OwnCall, OwnSend, OwnShutdown, OwnForceClose, InCallback
<1>7. ~(RunSend \/ RunShutdown \/ ForceCloseInLoop \/ RunCallback \/ ConnectDestroyed)
  BY <1>3 DEF RunSend, RunShutdown, ForceCloseInLoop, RunCallback, ConnectDestroyed
<1> QED  BY <1>4, <1>5, <1>6, <1>7 DEF Next, LoopStep, Environment

\* The up callback is counted by connectEstablished alone.
LEMMA UpsStay ==
  ASSUME [Next]_vars, ~ConnectEstablished
  PROVE  UNCHANGED ups
<1> USE DEF conn, loop, user, owner, kernel, history
<1>1. CASE \/ Poll \/ TakePending \/ HandleError \/ ReadMessage \/ ReadError \/ WriteEventFails
           \/ RunShutdown \/ RunCallback \/ WriteBuffered
  BY <1>1 DEF Poll, TakePending, HandleError, ReadMessage, ReadError, WriteEventFails,
              RunShutdown, RunCallback, WriteBuffered
<1>2. CASE CloseEvent \/ ReadEnd \/ ForceCloseInLoop \/ RunSend \/ OwnSend
  BY <1>2 DEF CloseEvent, ReadEnd, ForceCloseInLoop, HandleClose, RunSend, OwnSend, SendInLoop
<1>3. CASE \/ ConnectDestroyed \/ TakeDown \/ RemoveChannel \/ CloseCallback
           \/ CallbackReturns \/ OwnShutdown \/ OwnForceClose
  BY <1>3 DEF ConnectDestroyed, TakeDown, RemoveChannel, CloseCallback,
              CallbackReturns, OwnShutdown, OwnForceClose
<1>4. CASE \E u \in Users : UserStep(u) \/ UserCall(u)
  BY <1>4 DEF UserStep, UserCall, StartSend, QueueSend, StartClosing, SetDisconnecting,
              QueueClosing
<1>5. CASE \/ OwnerRemoves \/ OwnerGoes \/ PeerSends \/ PeerReads \/ PeerCloses \/ PeerResets \/ KernelGivesUp
           \/ UNCHANGED vars
  BY <1>5 DEF OwnerRemoves, OwnerGoes, PeerSends, PeerReads, PeerCloses, PeerResets, KernelGivesUp, Aborted, vars
<1> QED  BY <1>1, <1>2, <1>3, <1>4, <1>5 DEF Next, LoopStep, OwnCall, Environment

\* Nothing gets in before connectEstablished.
LEMMA NotUpYetIsKept ==
  ASSUME Inv, NotUpYet, [Next]_vars
  PROVE  NotUpYet'
<1> USE DEF conn, loop, user, owner, kernel, history
<1> SUFFICES ASSUME ups' = 0 PROVE NotUpYet'
  BY DEF NotUpYet
<1>1. TypeOK
  BY DEF Inv
<1>2. ~ConnectEstablished
  BY <1>1 DEF ConnectEstablished, TypeOK
<1>3. ups = 0
  BY <1>2, UpsStay
<1>4. /\ downs = 0 /\ events = {} /\ index = kNew
      /\ todo \in {<<>>, <<"take">>}
      /\ batch # <<>> => todo = <<>>
      /\ IF batch # <<>> THEN batch[1].op = "establish"
                         ELSE pending # <<>> /\ pending[1].op = "establish"
  BY <1>3 DEF NotUpYet
<1>5. CASE UNCHANGED vars
  BY <1>3, <1>4, <1>5 DEF NotUpYet, vars
<1>6. CASE Poll
  <2>1. Callbacks({}) \o <<"take">> = <<"take">>
    BY DEF Callbacks
  <2>2. Revents = {}
    BY <1>4 DEF Revents, kNew, kAdded
  <2> QED  BY <1>3, <1>4, <1>6, <2>1, <2>2 DEF NotUpYet, Poll
<1>7. CASE TakePending
  <2>1. todo = <<"take">> /\ batch = <<>> /\ todo' = Tail(todo) /\ batch' = pending
        /\ UNCHANGED <<downs, events, index>>
    BY <1>4, <1>7 DEF TakePending, Next1
  <2>2. todo' = <<>>
    BY <2>1
  <2> QED  BY <1>3, <1>4, <2>1, <2>2 DEF NotUpYet
<1>8. CASE /\ UNCHANGED <<downs, events, index, todo, batch>>
           /\ pending' = pending \/ \E f \in Functors : pending' = Append(pending, f)
  <2>1. pending # <<>> => pending' # <<>> /\ pending'[1] = pending[1]
    <3>1. pending \in Seq(Functors)
      BY <1>1 DEF TypeOK
    <3>2. pending # <<>> => Len(pending) \in Nat \ {0}
      BY <3>1, LenProperties, EmptySeq
    <3>3. \A f \in Functors : Len(Append(pending, f)) = Len(pending) + 1
                              /\ \A i \in 1..Len(pending) : Append(pending, f)[i] = pending[i]
      BY <3>1, AppendProperties
    <3> QED  BY <1>8, <3>1, <3>2, <3>3
  <2> QED  BY <1>3, <1>4, <1>8, <2>1 DEF NotUpYet
<1>9. CASE \/ \E u \in Users : UserStep(u) \/ UserCall(u)
           \/ OwnerRemoves \/ OwnerGoes
  <2>1. UNCHANGED <<downs, events, index, todo, batch>>
    BY <1>9 DEF UserStep, UserCall, StartSend, QueueSend, StartClosing, SetDisconnecting,
                QueueClosing, OwnerRemoves, OwnerGoes
  <2>2. pending' = pending \/ \E f \in Functors : pending' = Append(pending, f)
    BY <1>1, <1>9, FunctorTypes
       DEF UserStep, UserCall, StartSend, QueueSend, StartClosing, SetDisconnecting,
           QueueClosing, OwnerRemoves, OwnerGoes, TypeOK
  <2> QED  BY <1>8, <2>1, <2>2
<1>10. CASE PeerSends \/ PeerReads \/ PeerCloses \/ PeerResets \/ KernelGivesUp
  BY <1>8, <1>10 DEF PeerSends, PeerReads, PeerCloses, PeerResets, KernelGivesUp, Aborted
<1> QED  BY <1>2, <1>3, <1>5, <1>6, <1>7, <1>9, <1>10, BeforeUp

\* sendInLoop() asks for nothing but "out".
LEMMA SendAsksForOut ==
  ASSUME NEW s, NEW k, NEW rest, SendInLoop(s, k, rest)
  PROVE  /\ events' \in {events, events \cup {"out"}} /\ UNCHANGED <<ups, downs>>
         /\ todo' \in {rest, <<"user">> \o rest}
<1>1. \A bytes : BufferBytes(bytes) => events' \in {events, events \cup {"out"}}
  BY DEF BufferBytes, SetEvents
<1>2. CASE WriteFails(rest) \/ GiveUp(rest)
  BY <1>2 DEF SendInLoop, WriteFails, GiveUp
<1>3. CASE WriteSome(s, k, rest) \/ WriteRefused(s, k, rest) \/ QueueBehind(s, k, rest)
  BY <1>1, <1>3 DEF SendInLoop, WriteSome, WriteRefused, QueueBehind
<1> QED  BY <1>2, <1>3 DEF SendInLoop

\* handleWrite() takes "out" back.
LEMMA WriteAsksForLess ==
  ASSUME WriteBuffered
  PROVE  events' \in {events, events \ {"out"}} /\ UNCHANGED <<ups, downs>>
<1>1. events' \in {events, events \ {"out"}}
  BY DEF WriteBuffered, Drained, SetEvents
<1> QED  BY <1>1 DEF WriteBuffered, history

\* Only connectEstablished asks for "in", and only once.
LEMMA ReadsWhileUpIsKept ==
  ASSUME Inv, NotUpYet, ReadsWhileUp, [Next]_vars
  PROVE  ReadsWhileUp'
<1> USE DEF ReadsWhileUp
<1>1. TypeOK /\ EstablishFirst
  BY DEF Inv
<1>2. CASE RunSend \/ OwnSend
  <2>1. PICK s, k, rest : SendInLoop(s, k, rest)
    BY <1>2 DEF RunSend, OwnSend
  <2> QED  BY <2>1, SendAsksForOut
<1>3. CASE WriteBuffered
  BY <1>3, WriteAsksForLess
<1>4. CASE CloseEvent \/ ReadEnd \/ TakeDown \/ \E rest : HandleClose(rest)
  BY <1>4 DEF CloseEvent, ReadEnd, TakeDown, HandleClose, SetEvents
<1>5. CASE ConnectEstablished
  <2>1. Head(batch) = batch[1] /\ 1 \in DOMAIN batch /\ Head(batch).op = "establish"
    BY <1>1, <1>5, TailOf DEF ConnectEstablished, Starts, TypeOK
  <2>2. ups = 0
    BY <1>1, <2>1 DEF EstablishFirst
  <2>3. downs = 0
    BY <2>2 DEF NotUpYet
  <2> QED  BY <1>5, <2>2, <2>3 DEF ConnectEstablished
<1>6. CASE RunShutdown \/ OwnShutdown
  BY <1>6 DEF RunShutdown, OwnShutdown, conn, history
<1>7. CASE /\ ~WriteBuffered /\ ~RunSend /\ ~OwnSend /\ ~RunShutdown /\ ~OwnShutdown
           /\ ~CloseEvent /\ ~ReadEnd /\ ~TakeDown /\ ~\E rest : HandleClose(rest)
           /\ ~ConnectEstablished
  <2>1. UNCHANGED <<events, downs>>
    BY <1>7, OthersKeepWatch
  <2>2. UNCHANGED ups
    BY <1>7, UpsStay
  <2> QED  BY <2>1, <2>2
<1> QED  BY <1>2, <1>3, <1>4, <1>5, <1>6, <1>7

\* Nothing gets in between the report of an event and handleRead().
LEMMA ReadFirstIsKept ==
  ASSUME Inv, ReadFirst, [Next]_vars
  PROVE  ReadFirst'
<1> USE DEF conn, loop, user, owner, kernel, history
<1>1. TypeOK
  BY DEF Inv
<1>2. NoRead(todo') => ReadFirst'
  BY DEF NoRead, ReadFirst
<1>3. CASE Poll
  <2>1. /\ todo' = Callbacks(Revents) \o <<"take">> /\ UNCHANGED events
        /\ "in" \in Revents => "in" \in events
    BY <1>3 DEF Poll, Revents, Reportable
  <2>2. PICK q : q = Callbacks(Revents) \o <<"take">>
    OBVIOUS
  <2>3. \A i \in DOMAIN q :
          q[i] = "read" => (i = 1 \/ (i = 2 /\ q[1] = "error")) /\ "in" \in Revents
    BY <2>2, CallbackOrder
  <2> QED  BY <2>1, <2>2, <2>3 DEF ReadFirst
<1>4. CASE HandleError
  <2>1. todo # <<>> /\ todo' = Tail(todo) /\ UNCHANGED events
    BY <1>4 DEF HandleError, Next1
  <2> QED  BY <1>1, <2>1, TailReadsNothing DEF ReadFirst
<1>5. CASE \/ TakePending \/ CloseEvent \/ ReadMessage \/ ReadEnd \/ ReadError
           \/ WriteBuffered \/ WriteEventFails \/ TakeDown \/ RemoveChannel \/ CloseCallback
           \/ CallbackReturns
  <2>1. todo # <<>> /\ Head(todo) # "error"
    BY <1>5 DEF TakePending, CloseEvent, ReadMessage, ReadEnd, ReadError, WriteBuffered,
                WriteEventFails, TakeDown, RemoveChannel, CloseCallback, CallbackReturns,
                InCallback, Next1
  <2>2. todo' \in {Tail(todo), <<"user">> \o Tail(todo), <<"user", "closeCallback">> \o Tail(todo)}
    BY <1>5 DEF TakePending, CloseEvent, ReadMessage, ReadEnd, ReadError, WriteBuffered,
                WriteEventFails, TakeDown, RemoveChannel, CloseCallback, CallbackReturns,
                HandleClose
  <2>3. Tail(todo) \in Seq(Calls) /\ NoRead(Tail(todo))
    BY <1>1, <2>1, TailOf, TailReadsNothing DEF TypeOK
  <2> QED  BY <1>2, <2>2, <2>3, PushedReadsNothing
<1>6. CASE \/ ConnectEstablished \/ RunSend \/ RunShutdown \/ ForceCloseInLoop
           \/ RunCallback \/ ConnectDestroyed
  <2>1. todo = <<>>
    BY <1>6 DEF ConnectEstablished, RunSend, RunShutdown, ForceCloseInLoop, RunCallback,
                ConnectDestroyed, Starts
  <2>2. todo' \in {<<>>, <<"user">>, <<"user">> \o <<>>, <<"user", "closeCallback">> \o <<>>,
                   <<"remove">>, <<"down", "remove">>}
    <3>1. CASE RunSend
      BY <3>1, SendAsksForOut DEF RunSend
    <3>2. CASE ~RunSend
      BY <1>6, <2>1, <3>2 DEF ConnectEstablished, RunShutdown, ForceCloseInLoop, RunCallback,
                ConnectDestroyed, HandleClose
    <3> QED  BY <3>1, <3>2
  <2>3. <<>> \in Seq(Calls) /\ NoRead(<<>>)
    BY EmptySeq DEF NoRead
  <2>4. NoRead(todo')
    BY <2>2, <2>3, PushedReadsNothing
  <2> QED  BY <1>2, <2>4
<1>7. CASE OwnSend
  <2>1. todo # <<>> /\ Head(todo) = "user" /\ todo' \in {todo, <<"user">> \o todo}
    BY <1>7, SendAsksForOut DEF OwnSend, InCallback, Next1
  <2>2. todo \in Seq(Calls) /\ NoRead(todo)
    BY <1>1, <2>1, TailReadsNothing DEF TypeOK
  <2> QED  BY <1>2, <2>1, <2>2, PushedReadsNothing
<1>8. CASE UNCHANGED <<todo, events>>
  BY <1>8 DEF ReadFirst
<1>9. CASE \/ OwnShutdown \/ OwnForceClose
           \/ \E u \in Users : UserStep(u) \/ UserCall(u)
  BY <1>8, <1>9 DEF OwnShutdown, OwnForceClose, UserStep, UserCall, StartSend, QueueSend,
                    StartClosing, SetDisconnecting, QueueClosing
<1>10. CASE \/ OwnerRemoves \/ OwnerGoes \/ PeerSends \/ PeerReads \/ PeerCloses \/ PeerResets \/ KernelGivesUp
            \/ UNCHANGED vars
  BY <1>8, <1>10 DEF OwnerRemoves, OwnerGoes, PeerSends, PeerReads, PeerCloses, PeerResets, KernelGivesUp, Aborted, vars
<1> QED  BY <1>3, <1>4, <1>5, <1>6, <1>7, <1>9, <1>10 DEF Next, LoopStep, OwnCall, Environment

\* A connection is read only while it is up.
LEMMA UpInvariance == Spec => []UpInv
<1>1. Init => UpInv
  <2> SUFFICES ASSUME Init PROVE UpInv
    OBVIOUS
  <2>1. NotUpYet
    BY DEF Init, NotUpYet, Functor
  <2>2. ReadsWhileUp /\ ReadFirst
    BY DEF Init, ReadsWhileUp, ReadFirst
  <2> QED  BY <2>1, <2>2 DEF UpInv
<1>2. Inv /\ UpInv /\ [Next]_vars => UpInv'
  BY NotUpYetIsKept, ReadsWhileUpIsKept, ReadFirstIsKept DEF UpInv
<1> QED  BY <1>1, <1>2, Invariance, PTL DEF Spec

\* handleRead() hands a message to the message callback only after the up callback
\* and before the down callback, whatever events epoll reports together, whoever
\* closes the connection and however often.
THEOREM MessagesOnlyWhileUp == Spec => MessagesWhileUp
<1>1. Inv /\ UpInv /\ [Next]_vars => [MessageStep => ups = 1 /\ downs = 0]_vars
  <2> SUFFICES ASSUME Inv, UpInv, Next, MessageStep PROVE ups = 1 /\ downs = 0
    BY DEF vars, conn, loop, user, owner, kernel, history, MessageStep
  <2>1. TypeOK
    BY DEF Inv
  <2>2. ReadMessage
    <3> USE DEF conn, loop, user, owner, kernel, history, MessageStep
    <3>1. ~(Poll \/ TakePending \/ CloseEvent \/ HandleError \/ ReadEnd \/ ReadError)
      BY DEF Poll, TakePending, CloseEvent, HandleError, ReadEnd, ReadError
    <3>2. ~(WriteBuffered \/ WriteEventFails \/ ConnectEstablished \/ RunSend \/ RunShutdown)
      BY DEF WriteBuffered, WriteEventFails, ConnectEstablished, RunSend, RunShutdown, SendInLoop
    <3>3. ~(ForceCloseInLoop \/ RunCallback \/ ConnectDestroyed \/ TakeDown \/ RemoveChannel)
      BY DEF ForceCloseInLoop, RunCallback, ConnectDestroyed, TakeDown, RemoveChannel
    <3>4. ~(CloseCallback \/ CallbackReturns \/ OwnSend \/ OwnShutdown \/ OwnForceClose)
      BY DEF CloseCallback, CallbackReturns, OwnSend, OwnShutdown, OwnForceClose, SendInLoop
    <3>5. ~\E u \in Users : UserStep(u) \/ UserCall(u)
      BY DEF UserStep, UserCall, StartSend, QueueSend, StartClosing, SetDisconnecting, QueueClosing
    <3>6. ~(OwnerRemoves \/ OwnerGoes \/ PeerSends \/ PeerReads \/ PeerCloses \/ PeerResets \/ KernelGivesUp)
      BY DEF OwnerRemoves, OwnerGoes, PeerSends, PeerReads, PeerCloses, PeerResets, KernelGivesUp, Aborted
    <3> QED  BY <3>1, <3>2, <3>3, <3>4, <3>5, <3>6 DEF Next, LoopStep, OwnCall, Environment
  <2>3. Head(todo) = todo[1] /\ 1 \in DOMAIN todo /\ Head(todo) = "read"
    BY <2>1, <2>2, TailOf DEF ReadMessage, Next1, TypeOK
  <2>4. "in" \in events
    BY <2>3 DEF UpInv, ReadFirst
  <2> QED  BY <2>4 DEF UpInv, ReadsWhileUp
<1> QED  BY <1>1, Invariance, UpInvariance, PTL DEF Spec, MessagesWhileUp
-----------------------------------------------------------------------------
(* States and the down callback go one way.                                 *)

Lacks(q, call) == \A i \in DOMAIN q : q[i] # call
NoDestroy(q)   == \A i \in DOMAIN q : q[i].op # "destroy"

\* The parts of what holds until a store of another thread comes late or the owner goes
\* first: no other thread is in a call before the up callback; the channel is registered
\* exactly while the connection is up; closing is reported first, and is followed by the
\* owner's part; and the owner has nothing to do before that.
UsersOrder == ups = 0 => \A u \in Users : pc[u] = <<"idle">>

StateOrder ==
  /\ ups = 0 <=> state = "kConnecting"
  /\ downs = 0 => state # "kDisconnected"
  /\ downs = 0 /\ ups = 1 => index = kAdded /\ "in" \in events
  /\ downs > 0 =>
       ups = 1 /\ downs = 1 /\ state = "kDisconnected" /\ index # kAdded /\ events = {}

TodoOrder ==
  /\ Lacks(todo, "down")
  /\ \A i \in DOMAIN todo : todo[i] = "close" => i = 1 /\ downs = 0
  /\ downs = 0 => Lacks(todo, "closeCallback") /\ Lacks(todo, "remove")

QueueOrder == downs = 0 => removals = 0 /\ NoDestroy(batch) /\ NoDestroy(pending)

Order   == UsersOrder /\ StateOrder /\ TodoOrder /\ QueueOrder
Orderly == ~Meddled => Order

\* What can run in which state.
LEMMA WhileOrderly ==
  ASSUME Inv, UpInv, Order
  PROVE  /\ ~Next1("down")
         /\ Next1("closeCallback") \/ Next1("remove") => downs # 0
         /\ Next1("close") \/ Next1("read") => ups = 1 /\ downs = 0
         /\ state \in {"kConnected", "kDisconnecting"} \/ "out" \in events => ups = 1 /\ downs = 0
         /\ Starts("destroy") \/ removals # 0 => downs # 0
         /\ Starts("establish") => ups = 0 /\ downs = 0
         /\ Starts("send") \/ Next1("user") => ups = 1
<1>1. TypeOK /\ EstablishFirst
  BY DEF Inv
<1>2. ups \in {0, 1} /\ downs \in Nat
  BY <1>1 DEF TypeOK
<1>3. todo # <<>> => Head(todo) = todo[1] /\ 1 \in DOMAIN todo
  BY <1>1, TailOf DEF TypeOK
<1>4. batch # <<>> => Head(batch) = batch[1] /\ 1 \in DOMAIN batch
  BY <1>1, TailOf DEF TypeOK
<1>5. ~Next1("down") /\ (Next1("closeCallback") \/ Next1("remove") => downs # 0)
  BY <1>3 DEF Order, TodoOrder, Lacks, Next1
<1>6. ups = 0 => ~Next1("close") /\ ~Next1("read") /\ ~Next1("user")
  BY DEF UpInv, NotUpYet, Next1
<1>7. Next1("close") => downs = 0
  BY <1>3 DEF Order, TodoOrder, Next1
<1>8. Next1("read") => downs = 0
  BY <1>3 DEF UpInv, ReadFirst, ReadsWhileUp, Next1
<1>9. state \in {"kConnected", "kDisconnecting"} => ups = 1 /\ downs = 0
  BY <1>2 DEF Order, StateOrder
<1>10. "out" \in events => ups = 1 /\ downs = 0
  BY <1>2 DEF Order, StateOrder, UpInv, NotUpYet
<1>11. Starts("destroy") \/ removals # 0 => downs # 0
  BY <1>4 DEF Order, QueueOrder, NoDestroy, Starts
<1>12. Starts("establish") => ups = 0 /\ downs = 0
  BY <1>1, <1>4 DEF EstablishFirst, Starts, UpInv, NotUpYet
<1>13. Starts("send") => ups # 0
  BY <1>4 DEF Starts, UpInv, NotUpYet
<1> QED  BY <1>2, <1>5, <1>6, <1>7, <1>8, <1>9, <1>10, <1>11, <1>12, <1>13

\* handleClose() of a connection that is up.
LEMMA CloseInOrder ==
  ASSUME TypeOK, StateOrder, ups = 1, downs = 0, NEW rest, HandleClose(rest)
  PROVE  StateOrder' /\ downs' = 1
<1>1. downs' = 1 /\ UNCHANGED ups /\ state' = "kDisconnected" /\ events' = {}
  BY DEF HandleClose, SetEvents
<1>2. index' = kDeleted
  BY DEF HandleClose, SetEvents, IndexAfterUpdate, StateOrder
<1> QED  BY <1>1, <1>2 DEF StateOrder, kDeleted, kAdded

\* An update that asks for something registers the channel.
LEMMA AsksForSome ==
  ASSUME NEW evs, NEW e \in evs, SetEvents(evs)
  PROVE  events' = evs /\ index' = kAdded
BY DEF SetEvents, IndexAfterUpdate

\* sendInLoop() leaves a closed connection alone, and an open one registered.
LEMMA SendInOrder ==
  ASSUME TypeOK, StateOrder, ups = 1, NEW s, NEW k, NEW rest, SendInLoop(s, k, rest),
         UNCHANGED state
  PROVE  StateOrder'
<1>1. UNCHANGED <<ups, downs>>
  BY SendAsksForOut
<1>2. CASE downs = 0
  <2>1. index = kAdded /\ "in" \in events
    BY <1>2 DEF StateOrder
  <2>2. \A bytes : BufferBytes(bytes) => index' = kAdded /\ "in" \in events'
    <3> SUFFICES ASSUME NEW bytes, BufferBytes(bytes) PROVE index' = kAdded /\ "in" \in events'
      OBVIOUS
    <3>1. UNCHANGED <<events, index>> \/ SetEvents(events \cup {"out"})
      BY DEF BufferBytes
    <3>2. SetEvents(events \cup {"out"}) => events' = events \cup {"out"} /\ index' = kAdded
      BY AsksForSome
    <3> QED  BY <2>1, <3>1, <3>2
  <2>3. index' = kAdded /\ "in" \in events'
    BY <2>1, <2>2 DEF SendInLoop, WriteFails, GiveUp, WriteSome, WriteRefused, QueueBehind
  <2> QED  BY <1>1, <1>2, <2>3 DEF StateOrder
<1>3. CASE downs # 0
  <2>1. state = "kDisconnected"
    BY <1>3 DEF StateOrder, TypeOK
  <2>2. UNCHANGED <<events, index>>
    BY <2>1 DEF SendInLoop, WriteFails, GiveUp, WriteSome, WriteRefused, QueueBehind, MayWrite
  <2> QED  BY <1>1, <2>2 DEF StateOrder
<1> QED  BY <1>2, <1>3

\* handleWrite() leaves an open connection registered.
LEMMA WriteInOrder ==
  ASSUME TypeOK, StateOrder, ups = 1, downs = 0, WriteBuffered
  PROVE  StateOrder'
<1>1. index = kAdded /\ "in" \in events
  BY DEF StateOrder
<1>2. Drained \/ UNCHANGED <<events, index>>
  BY DEF WriteBuffered
<1>3. index' = kAdded /\ "in" \in events'
  <2>1. CASE Drained
    <3>1. SetEvents(events \ {"out"}) /\ "in" \in events \ {"out"}
      BY <1>1, <2>1 DEF Drained
    <3> QED  BY <3>1, AsksForSome
  <2> QED  BY <1>1, <1>2, <2>1
<1>4. UNCHANGED <<state, ups, downs>>
  BY DEF WriteBuffered, history
<1> QED  BY <1>3, <1>4 DEF StateOrder

\* The rest of the loop's calls, of other threads' steps, the owner and the peer leave
\* state_ alone.
LEMMA OthersInOrder ==
  ASSUME \/ Poll \/ TakePending \/ HandleError \/ ReadMessage \/ ReadError \/ WriteEventFails
         \/ RunShutdown \/ RunCallback \/ ConnectDestroyed \/ CloseCallback \/ CallbackReturns
         \/ \E u \in Users : \/ QueueSend(u) \/ UserCall(u)
                             \/ \E op \in {"shutdown", "forceClose"} : QueueClosing(u, op)
         \/ OwnerRemoves \/ OwnerGoes \/ PeerSends \/ PeerReads \/ PeerCloses \/ PeerResets \/ KernelGivesUp
         \/ UNCHANGED vars
  PROVE  UNCHANGED <<state, events, index, ups, downs>>
<1> USE DEF conn, loop, user, owner, kernel, history
<1>1. CASE \/ Poll \/ TakePending \/ HandleError \/ ReadMessage \/ ReadError \/ WriteEventFails
  BY <1>1 DEF Poll, TakePending, HandleError, ReadMessage, ReadError, WriteEventFails
<1>2. CASE \/ RunShutdown \/ RunCallback \/ ConnectDestroyed \/ CloseCallback \/ CallbackReturns
  BY <1>2 DEF RunShutdown, RunCallback, ConnectDestroyed, CloseCallback, CallbackReturns
<1>3. CASE \E u \in Users : \/ QueueSend(u) \/ UserCall(u)
                            \/ \E op \in {"shutdown", "forceClose"} : QueueClosing(u, op)
  BY <1>3 DEF UserCall, StartSend, QueueSend, StartClosing, QueueClosing
<1>4. CASE \/ OwnerRemoves \/ OwnerGoes \/ PeerSends \/ PeerReads \/ PeerCloses \/ PeerResets \/ KernelGivesUp
           \/ UNCHANGED vars
  BY <1>4 DEF OwnerRemoves, OwnerGoes, PeerSends, PeerReads, PeerCloses, PeerResets, KernelGivesUp, Aborted, vars
<1> QED  BY <1>1, <1>2, <1>3, <1>4

\* A store of another thread's shutdown() or forceClose() that does not come late finds
\* the connection up.
LEMMA StoreInOrder ==
  ASSUME Inv, Order, ~late',
         NEW u \in Users, NEW op \in {"shutdown", "forceClose"}, SetDisconnecting(u, op)
  PROVE  /\ StateOrder'
         /\ state \in {"kConnected", "kDisconnecting"} /\ state' = "kDisconnecting"
<1>1. /\ pc[u] = <<"set", op>> /\ state' = "kDisconnecting" /\ state # "kDisconnected"
      /\ UNCHANGED <<events, index, ups, downs>>
  BY DEF SetDisconnecting
<1>2. state \in States /\ ups \in {0, 1} /\ downs \in Nat /\ StateOrder
  BY DEF Inv, TypeOK, Order
<1>3. ups = 1
  BY <1>1, <1>2 DEF Order, UsersOrder
<1>4. downs = 0
  BY <1>1, <1>2 DEF StateOrder
<1>5. state # "kConnecting"
  BY <1>2, <1>3, <1>4 DEF StateOrder, States
<1> QED  BY <1>1, <1>2, <1>3, <1>4, <1>5 DEF StateOrder, States

\* What each step does to state_, and that StateOrder survives it.
LEMMA StateOrderIsKept ==
  ASSUME Inv, UpInv, Order, ~late', [Next]_vars
  PROVE  /\ StateOrder'
         /\ \/ UNCHANGED state
            \/ state' = "kDisconnected"
            \/ state = "kConnecting" /\ state' = "kConnected"
            \/ state \in {"kConnected", "kDisconnecting"} /\ state' = "kDisconnecting"
<1>1. TypeOK /\ StateOrder
  BY DEF Inv, Order
<1>2. ASSUME NEW rest, HandleClose(rest), ups = 1, downs = 0
      PROVE  StateOrder' /\ state' = "kDisconnected"
  <2>1. StateOrder'
    BY <1>1, <1>2, CloseInOrder
  <2> QED  BY <1>2, <2>1 DEF HandleClose
<1>3. CASE CloseEvent \/ ReadEnd
  <2>1. HandleClose(Tail(todo)) /\ (Next1("close") \/ Next1("read"))
    BY <1>3 DEF CloseEvent, ReadEnd
  <2> QED  BY <1>2, <2>1, WhileOrderly
<1>4. CASE ForceCloseInLoop
  <2>1. CASE state \in {"kConnected", "kDisconnecting"}
    <3>1. HandleClose(<<>>)
      BY <1>4, <2>1 DEF ForceCloseInLoop
    <3> QED  BY <1>2, <2>1, <3>1, WhileOrderly
  <2>2. CASE state \notin {"kConnected", "kDisconnecting"}
    <3>1. UNCHANGED <<state, events, index, ups, downs>>
      BY <1>4, <2>2 DEF ForceCloseInLoop, conn, history
    <3> QED  BY <1>1, <3>1 DEF StateOrder
  <2> QED  BY <2>1, <2>2
<1>5. CASE RunSend \/ OwnSend
  <2>1. PICK s, k, rest : SendInLoop(s, k, rest)
    BY <1>5 DEF RunSend, OwnSend
  <2>2. UNCHANGED state /\ (Starts("send") \/ Next1("user"))
    BY <1>5 DEF RunSend, OwnSend, InCallback
  <2>3. ups = 1
    BY <2>2, WhileOrderly
  <2> QED  BY <1>1, <2>1, <2>2, <2>3, SendInOrder
<1>6. CASE WriteBuffered
  <2>1. "out" \in events /\ UNCHANGED state
    BY <1>6 DEF WriteBuffered
  <2>2. ups = 1 /\ downs = 0
    BY <2>1, WhileOrderly
  <2> QED  BY <1>1, <1>6, <2>1, <2>2, WriteInOrder
<1>7. CASE ConnectEstablished
  <2>1. ups = 0 /\ downs = 0
    BY <1>7, WhileOrderly DEF ConnectEstablished
  <2>2. state = "kConnecting"
    BY <1>1, <2>1 DEF StateOrder
  <2>3. SetEvents(events \cup {"in"})
    BY <1>7 DEF ConnectEstablished
  <2>4. "in" \in events' /\ index' = kAdded
    BY <2>3, AsksForSome
  <2>5. state' = "kConnected" /\ ups' = 1 /\ downs' = 0
    BY <1>7, <2>1 DEF ConnectEstablished
  <2> QED  BY <2>2, <2>4, <2>5 DEF StateOrder
<1>8. CASE RemoveChannel
  <2>1. downs # 0 /\ index' = kNew /\ UNCHANGED <<state, events, ups, downs>>
    BY <1>8, WhileOrderly DEF RemoveChannel, history
  <2> QED  BY <1>1, <2>1 DEF StateOrder, kNew, kAdded
<1>9. CASE OwnShutdown \/ OwnForceClose
  <2>1. /\ state \in {"kConnected", "kDisconnecting"} /\ state' = "kDisconnecting"
        /\ UNCHANGED <<events, index, ups, downs>>
    BY <1>9 DEF OwnShutdown, OwnForceClose, history
  <2>2. ups = 1 /\ downs = 0
    BY <2>1, WhileOrderly
  <2> QED  BY <1>1, <2>1, <2>2 DEF StateOrder
<1>10. CASE UNCHANGED <<state, events, index, ups, downs>>
  BY <1>1, <1>10 DEF StateOrder
<1>11. CASE TakeDown
  BY <1>11, WhileOrderly DEF TakeDown
<1>12. CASE \E u \in Users, op \in {"shutdown", "forceClose"} : SetDisconnecting(u, op)
  BY <1>12, StoreInOrder
<1> QED  BY <1>3, <1>4, <1>5, <1>6, <1>7, <1>8, <1>9, <1>10, <1>11, <1>12, OthersInOrder
         DEF Next, LoopStep, OwnCall, UserStep, Environment

\* The calls that an event can lead to, and sequences of them that close at once
\* or not at all.
Handlers == {"close", "error", "read", "write", "take"}
ClosesFirst(s, revents) ==
  s \in Seq(Handlers) /\ \A i \in DOMAIN s : s[i] = "close" => i = 1 /\ revents # {}

LEMMA ClosesFirstStill ==
  ASSUME NEW revents, NEW s, ClosesFirst(s, revents), NEW t \in Seq(Handlers \ {"close"})
  PROVE  ClosesFirst(s \o t, revents)
<1>1. s \in Seq(Handlers) /\ t \in Seq(Handlers)
  <2>1. \A i \in 1..Len(t) : t[i] \in Handlers
    BY ElementOfSeq
  <2>2. t \in [1..Len(t) -> Handlers] /\ Len(t) \in Nat
    BY <2>1, LenProperties
  <2>3. t \in Seq(Handlers)
    BY <2>2, SeqDef
  <2> QED  BY <2>3 DEF ClosesFirst
<1>2. /\ s \o t \in Seq(Handlers) /\ Len(s \o t) = Len(s) + Len(t)
      /\ \A i \in 1..(Len(s) + Len(t)) :
           (s \o t)[i] = IF i <= Len(s) THEN s[i] ELSE t[i - Len(s)]
  BY <1>1, ConcatProperties
<1>3. Len(s) \in Nat /\ Len(t) \in Nat /\ DOMAIN s = 1..Len(s) /\ DOMAIN (s \o t) = 1..(Len(s) + Len(t))
  BY <1>1, <1>2, LenProperties
<1>4. \A i \in 1..Len(t) : t[i] # "close"
  <2>1. \A i \in 1..Len(t) : t[i] \in Handlers \ {"close"}
    BY ElementOfSeq
  <2> QED  BY <2>1
<1>5. ASSUME NEW i \in DOMAIN (s \o t), (s \o t)[i] = "close"
      PROVE  i = 1 /\ revents # {}
  <2>1. CASE i <= Len(s)
    <3>1. i \in DOMAIN s /\ s[i] = "close"
      BY <1>2, <1>3, <1>5, <2>1
    <3> QED  BY <3>1 DEF ClosesFirst
  <2>2. CASE ~(i <= Len(s))
    <3>1. i - Len(s) \in 1..Len(t) /\ t[i - Len(s)] = "close"
      BY <1>2, <1>3, <1>5, <2>2
    <3> QED  BY <1>4, <3>1
  <2> QED  BY <2>1, <2>2
<1> QED  BY <1>2, <1>5 DEF ClosesFirst

\* handleEventWithGuard() makes such a sequence.
LEMMA CallbackNames ==
  ASSUME NEW revents
  PROVE  ClosesFirst(Callbacks(revents) \o <<"take">>, revents)
<1> DEFINE Run(name, cond) == IF cond THEN <<name>> ELSE <<>>
<1>1. \A cond, S : \A name \in S : Run(name, cond) \in Seq(S)
  OBVIOUS
<1>2. /\ "error" \in Handlers \ {"close"} /\ "read" \in Handlers \ {"close"}
      /\ "write" \in Handlers \ {"close"} /\ <<"take">> \in Seq(Handlers \ {"close"})
  BY DEF Handlers
<1>3. ClosesFirst(Run("close", "hup" \in revents /\ "in" \notin revents), revents)
  <2>1. "hup" \in revents => ClosesFirst(<<"close">>, revents)
    BY DEF ClosesFirst, Handlers
  <2>2. ClosesFirst(<<>>, revents)
    BY EmptySeq DEF ClosesFirst
  <2> QED  BY <2>1, <2>2
<1>4. Callbacks(revents) =
        Run("close", "hup" \in revents /\ "in" \notin revents)
        \o Run("error", "err" \in revents) \o Run("read",  "in"  \in revents)
        \o Run("write", "out" \in revents)
  BY DEF Callbacks
<1> HIDE DEF Run
<1>5. /\ Run("error", "err" \in revents) \in Seq(Handlers \ {"close"})
      /\ Run("read",  "in"  \in revents) \in Seq(Handlers \ {"close"})
      /\ Run("write", "out" \in revents) \in Seq(Handlers \ {"close"})
  BY <1>1, <1>2
<1>6. ClosesFirst(Callbacks(revents), revents)
  BY <1>3, <1>4, <1>5, ClosesFirstStill
<1> QED  BY <1>2, <1>6, ClosesFirstStill

\* What follows the first call, and what is pushed in front of it.
LEMMA LacksStill ==
  ASSUME NEW rest \in Seq(Calls), NEW call, Lacks(rest, call), call # "user"
  PROVE  /\ rest # <<>> => Lacks(Tail(rest), call)
         /\ Lacks(<<"user">> \o rest, call)
         /\ Lacks(<<>>, call) /\ Lacks(<<"user">>, call)
<1>1. Len(rest) \in Nat /\ DOMAIN rest = 1..Len(rest)
  BY LenProperties
<1>2. rest # <<>> => Lacks(Tail(rest), call)
  BY TailOf DEF Lacks
<1>3. Lacks(<<"user">> \o rest, call)
  BY <1>1 DEF Lacks
<1>4. Lacks(<<>>, call) /\ Lacks(<<"user">>, call)
  BY DEF Lacks
<1> QED  BY <1>2, <1>3, <1>4

\* What handleClose() pushes.
LEMMA LacksClosing ==
  ASSUME NEW rest \in Seq(Calls), NEW call, Lacks(rest, call), call \notin {"user", "closeCallback"}
  PROVE  Lacks(<<"user", "closeCallback">> \o rest, call)
<1>1. Len(rest) \in Nat /\ DOMAIN rest = 1..Len(rest)
  BY LenProperties
<1> QED  BY <1>1 DEF Lacks

\* The down callback is never taken back.
LEMMA DownsGrow ==
  ASSUME [Next]_vars
  PROVE  downs' \in {downs, downs + 1}
<1> USE DEF conn, loop, user, owner, kernel, history
<1>1. CASE CloseEvent \/ ReadEnd \/ TakeDown \/ \E rest : HandleClose(rest)
  BY <1>1 DEF CloseEvent, ReadEnd, TakeDown, HandleClose
<1>2. CASE RunSend \/ OwnSend
  BY <1>2 DEF RunSend, OwnSend, SendInLoop
<1>3. CASE WriteBuffered \/ RunShutdown \/ OwnShutdown
  BY <1>3 DEF WriteBuffered, RunShutdown, OwnShutdown
<1> QED  BY <1>1, <1>2, <1>3, OthersKeepWatch

\* The order of the calls.
LEMMA TodoOrderIsKept ==
  ASSUME Inv, UpInv, Order, [Next]_vars
  PROVE  TodoOrder'
<1> USE DEF conn, loop, user, owner, kernel, history
<1>1. TypeOK /\ StateOrder /\ TodoOrder
  BY DEF Inv, Order
<1>2. downs \in Nat /\ downs' \in {downs, downs + 1} /\ todo \in Seq(Calls)
  BY <1>1, DownsGrow DEF TypeOK
<1>3. (/\ Lacks(todo', "down") /\ Lacks(todo', "close")
       /\ downs' = 0 => Lacks(todo', "closeCallback") /\ Lacks(todo', "remove"))
      => TodoOrder'
  BY DEF TodoOrder, Lacks
<1>4. CASE UNCHANGED <<todo, downs>>
  BY <1>1, <1>4 DEF TodoOrder, Lacks
<1>5. CASE Poll
  <2>1. PICK q : q = Callbacks(Revents) \o <<"take">>
    OBVIOUS
  <2>2. todo' = q /\ UNCHANGED downs
    BY <1>5, <2>1 DEF Poll
  <2>3. \A i \in DOMAIN q : q[i] \in Handlers /\ (q[i] = "close" => i = 1 /\ Revents # {})
    <3>1. ClosesFirst(q, Revents)
      BY <2>1, CallbackNames
    <3>2. \A i \in DOMAIN q : q[i] \in Handlers
      BY <3>1, ElementOfSeq, LenProperties DEF ClosesFirst
    <3> QED  BY <3>1, <3>2 DEF ClosesFirst
  <2>4. Revents # {} => downs = 0
    BY <1>1, <1>2 DEF Revents, StateOrder
  <2>5. Lacks(q, "down") /\ Lacks(q, "closeCallback") /\ Lacks(q, "remove")
    BY <2>3 DEF Lacks, Handlers
  <2> QED  BY <2>2, <2>3, <2>4, <2>5 DEF TodoOrder, Lacks
<1>6. todo # <<>> => Tail(todo) \in Seq(Calls) /\ Lacks(Tail(todo), "close")
  <2> SUFFICES ASSUME todo # <<>> PROVE Tail(todo) \in Seq(Calls) /\ Lacks(Tail(todo), "close")
    OBVIOUS
  <2>1. /\ Tail(todo) \in Seq(Calls)
        /\ \A i \in DOMAIN Tail(todo) :
             i \in Nat \ {0} /\ i + 1 \in DOMAIN todo /\ Tail(todo)[i] = todo[i + 1]
    BY <1>2, TailOf
  <2>2. \A i \in DOMAIN Tail(todo) : Tail(todo)[i] # "close"
    BY <1>1, <2>1 DEF TodoOrder
  <2> QED  BY <2>1, <2>2 DEF Lacks
<1>7. todo # <<>> => Lacks(Tail(todo), "down")
  BY <1>1, <1>2, LacksStill DEF TodoOrder
<1>8. todo # <<>> /\ downs = 0 => Lacks(Tail(todo), "closeCallback") /\ Lacks(Tail(todo), "remove")
  BY <1>1, <1>2, LacksStill DEF TodoOrder
<1>9. CASE \/ TakePending \/ HandleError \/ ReadMessage \/ ReadError \/ WriteBuffered
           \/ WriteEventFails \/ RemoveChannel \/ CloseCallback \/ CallbackReturns
  <2>1. todo # <<>> /\ todo' \in {Tail(todo), <<"user">> \o Tail(todo)}
    BY <1>9 DEF TakePending, HandleError, ReadMessage, ReadError, WriteBuffered, InCallback,
                WriteEventFails, RemoveChannel, CloseCallback, CallbackReturns, Next1
  <2>2. Lacks(todo', "down") /\ Lacks(todo', "close")
    BY <1>6, <1>7, <2>1, LacksStill
  <2>3. downs = 0 => Lacks(todo', "closeCallback") /\ Lacks(todo', "remove")
    BY <1>6, <1>8, <2>1, LacksStill
  <2>4. downs' = 0 => downs = 0
    BY <1>2
  <2> QED  BY <1>3, <2>2, <2>3, <2>4
<1>10. CASE CloseEvent \/ ReadEnd
  <2>1. todo # <<>> /\ todo' = <<"user", "closeCallback">> \o Tail(todo) /\ downs' = downs + 1
    BY <1>10 DEF CloseEvent, ReadEnd, HandleClose, Next1
  <2>2. Lacks(todo', "down") /\ Lacks(todo', "close")
    BY <1>6, <1>7, <2>1, LacksClosing
  <2>3. downs' # 0
    BY <1>2, <2>1
  <2> QED  BY <1>3, <2>2, <2>3
<1>11. /\ <<>> \in Seq(Calls) /\ \A call : Lacks(<<>>, call)
       /\ \A call : call # "user" => Lacks(<<"user">>, call) /\ Lacks(<<"user">> \o <<>>, call)
  <2>1. <<>> \in Seq(Calls) /\ \A call : Lacks(<<>>, call)
    BY EmptySeq DEF Lacks
  <2> QED  BY <2>1, LacksStill
<1>12. CASE ConnectEstablished \/ RunSend \/ RunCallback
  <2>1. todo' \in {<<>>, <<"user">>, <<"user">> \o <<>>}
    <3>1. CASE RunSend
      BY <3>1, SendAsksForOut DEF RunSend
    <3>2. CASE ConnectEstablished \/ RunCallback
      BY <3>2 DEF ConnectEstablished, RunCallback
    <3> QED  BY <1>12, <3>1, <3>2
  <2> QED  BY <1>3, <1>11, <2>1
<1>13. CASE ForceCloseInLoop
  <2>1. CASE HandleClose(<<>>)
    <3>1. todo' = <<"user", "closeCallback">> \o <<>> /\ downs' = downs + 1
      BY <2>1 DEF HandleClose
    <3>2. Lacks(todo', "down") /\ Lacks(todo', "close")
      BY <1>11, <3>1, LacksClosing
    <3>3. downs' # 0
      BY <1>2, <3>1
    <3> QED  BY <1>3, <3>2, <3>3
  <2> QED  BY <1>4, <1>13, <2>1 DEF ForceCloseInLoop
<1>14. CASE ConnectDestroyed
  <2>1. downs # 0
    BY <1>14, WhileOrderly DEF ConnectDestroyed
  <2>2. state # "kConnected" /\ UNCHANGED downs
    BY <1>1, <1>2, <1>14, <2>1 DEF StateOrder, ConnectDestroyed
  <2>3. todo' = <<"remove">>
    BY <1>14, <2>2 DEF ConnectDestroyed
  <2>4. Lacks(todo', "down") /\ Lacks(todo', "close")
    BY <2>3 DEF Lacks
  <2> QED  BY <1>3, <2>1, <2>2, <2>4
<1>15. CASE OwnSend
  <2>1. /\ todo # <<>> /\ Head(todo) = "user" /\ todo' \in {todo, <<"user">> \o todo}
        /\ UNCHANGED downs
    BY <1>15, SendAsksForOut DEF OwnSend, InCallback, Next1
  <2>2. todo[1] = "user"
    BY <1>2, <2>1, TailOf
  <2>3. Lacks(todo, "close") /\ Lacks(todo, "down")
    BY <1>1, <2>2 DEF TodoOrder, Lacks
  <2>4. Lacks(todo', "down") /\ Lacks(todo', "close")
    BY <1>2, <2>1, <2>3, LacksStill
  <2>5. downs = 0 => Lacks(todo', "closeCallback") /\ Lacks(todo', "remove")
    BY <1>1, <1>2, <2>1, LacksStill DEF TodoOrder
  <2> QED  BY <1>3, <2>1, <2>4, <2>5
<1>16. CASE RunShutdown \/ OwnShutdown \/ OwnForceClose
  BY <1>4, <1>16 DEF RunShutdown, OwnShutdown, OwnForceClose
<1>17. CASE \E u \in Users : UserStep(u) \/ UserCall(u)
  BY <1>4, <1>17 DEF UserStep, UserCall, StartSend, QueueSend, StartClosing, SetDisconnecting,
                     QueueClosing
<1>18. CASE \/ OwnerRemoves \/ OwnerGoes \/ PeerSends \/ PeerReads \/ PeerCloses \/ PeerResets \/ KernelGivesUp
            \/ UNCHANGED vars
  BY <1>4, <1>18 DEF OwnerRemoves, OwnerGoes, PeerSends, PeerReads, PeerCloses, PeerResets, KernelGivesUp, Aborted, vars
<1>19. CASE TakeDown
  BY <1>19, WhileOrderly DEF TakeDown
<1> QED  BY <1>5, <1>9, <1>10, <1>12, <1>13, <1>14, <1>15, <1>16, <1>17, <1>18, <1>19
         DEF Next, LoopStep, OwnCall, Environment

\* The queues of functors.
LEMMA QueueOrderIsKept ==
  ASSUME Inv, UpInv, Order, [Next]_vars, held' # "gone"
  PROVE  QueueOrder'
<1> USE DEF conn, loop, user, owner, kernel, history
<1> SUFFICES ASSUME downs' = 0 PROVE QueueOrder'
  BY DEF QueueOrder
<1>1. TypeOK
  BY DEF Inv
<1>2. downs = 0
  BY <1>1, DownsGrow DEF TypeOK
<1>3. removals = 0 /\ NoDestroy(batch) /\ NoDestroy(pending)
  BY <1>2 DEF Order, QueueOrder
<1>4. ~OwnerRemoves /\ ~CloseCallback
  BY <1>2, <1>3, WhileOrderly DEF OwnerRemoves, CloseCallback
<1>5. ~OwnerGoes
  BY DEF OwnerGoes
<1>6. /\ NoDestroy(<<>>)
      /\ batch # <<>> => NoDestroy(Tail(batch))
      /\ \A f \in Functors : f.op # "destroy" => NoDestroy(Append(pending, f))
  <2>1. batch # <<>> => NoDestroy(Tail(batch))
    BY <1>1, <1>3, TailOf DEF NoDestroy, TypeOK
  <2>2. ASSUME NEW f \in Functors, f.op # "destroy"
        PROVE  NoDestroy(Append(pending, f))
    <3>1. /\ Len(Append(pending, f)) = Len(pending) + 1
          /\ \A i \in 1..Len(pending) : Append(pending, f)[i] = pending[i]
          /\ Append(pending, f)[Len(pending) + 1] = f /\ Append(pending, f) \in Seq(Functors)
      BY <1>1, AppendProperties DEF TypeOK
    <3>2. /\ Len(pending) \in Nat /\ DOMAIN pending = 1..Len(pending)
          /\ DOMAIN Append(pending, f) = 1..(Len(pending) + 1)
      BY <1>1, <3>1, LenProperties DEF TypeOK
    <3> QED  BY <1>3, <2>2, <3>1, <3>2 DEF NoDestroy
  <2> QED  BY <2>1, <2>2 DEF NoDestroy
<1>7. /\ \A op \in {"shutdown", "forceClose", "writeComplete", "highWater"} :
           NoDestroy(Append(pending, Functor(op)))
      /\ \A u \in Users, k \in Nat : NoDestroy(Append(pending, SendFunctor(u, k)))
  BY <1>6, FunctorTypes DEF Functor, SendFunctor
<1>8. ASSUME UNCHANGED removals, NoDestroy(batch'), NoDestroy(pending')
      PROVE  QueueOrder'
  BY <1>3, <1>8 DEF QueueOrder, NoDestroy
<1>9. CASE UNCHANGED <<removals, batch, pending>>
  BY <1>3, <1>9 DEF QueueOrder, NoDestroy
<1>10. CASE \/ Poll \/ CloseEvent \/ HandleError \/ ReadMessage \/ ReadEnd \/ ReadError
            \/ WriteEventFails \/ TakeDown \/ RemoveChannel \/ CallbackReturns \/ OwnShutdown
  BY <1>9, <1>10 DEF Poll, CloseEvent, HandleError, ReadMessage, ReadEnd, ReadError,
              WriteEventFails, TakeDown, RemoveChannel, CallbackReturns, OwnShutdown
<1>11. CASE TakePending
  <2>1. UNCHANGED removals /\ batch' = pending /\ pending' = <<>>
    BY <1>11 DEF TakePending
  <2> QED  BY <1>3, <1>6, <1>8, <2>1
<1>12. CASE WriteBuffered
  <2>1. UNCHANGED <<removals, batch>>
    BY <1>12 DEF WriteBuffered
  <2>2. pending' = pending \/ pending' = Append(pending, Functor("writeComplete"))
    BY <1>12 DEF WriteBuffered, Drained
  <2> QED  BY <1>3, <1>7, <1>8, <2>1, <2>2
<1>13. CASE \/ ConnectEstablished \/ RunShutdown \/ ForceCloseInLoop \/ RunCallback
            \/ ConnectDestroyed
  <2>1. batch # <<>> /\ batch' = Tail(batch) /\ UNCHANGED <<removals, pending>>
    BY <1>13 DEF ConnectEstablished, RunShutdown, ForceCloseInLoop, RunCallback,
                 ConnectDestroyed, Starts
  <2> QED  BY <1>3, <1>6, <1>8, <2>1
<1>14. CASE RunSend \/ OwnSend
  <2>1. PICK s, k, rest : SendInLoop(s, k, rest)
    BY <1>14 DEF RunSend, OwnSend
  <2>2. pending' = pending \/ pending' = Append(pending, Functor("highWater"))
    <3>1. \A bytes : BufferBytes(bytes)
            => pending' = pending \/ pending' = Append(pending, Functor("highWater"))
      BY DEF BufferBytes
    <3> QED  BY <2>1, <3>1 DEF SendInLoop, WriteFails, GiveUp, WriteSome, WriteRefused, QueueBehind
  <2>3. UNCHANGED removals
    BY <1>14 DEF RunSend, OwnSend
  <2>4. NoDestroy(batch')
    <3>1. CASE RunSend
      <4>1. batch # <<>> /\ batch' = Tail(batch)
        BY <3>1 DEF RunSend, Starts
      <4> QED  BY <1>6, <4>1
    <3>2. CASE OwnSend
      <4>1. batch' = batch
        BY <3>2 DEF OwnSend
      <4> QED  BY <1>3, <4>1
    <3> QED  BY <1>14, <3>1, <3>2
  <2> QED  BY <1>3, <1>7, <1>8, <2>2, <2>3, <2>4
<1>15. CASE OwnForceClose \/ \E u \in Users : UserStep(u) \/ UserCall(u)
  <2>1. UNCHANGED <<removals, batch>>
    BY <1>15 DEF OwnForceClose, UserStep, UserCall, StartSend, QueueSend, StartClosing,
                 SetDisconnecting, QueueClosing
  <2>2. \/ pending' = pending
        \/ \E op \in {"shutdown", "forceClose"} : pending' = Append(pending, Functor(op))
        \/ \E u \in Users : pending' = Append(pending, SendFunctor(u, cur[u]))
    BY <1>15 DEF OwnForceClose, UserStep, UserCall, StartSend, QueueSend, StartClosing,
                 SetDisconnecting, QueueClosing
  <2>3. \A u \in Users : cur[u] \in Nat
    BY <1>1 DEF TypeOK
  <2> QED  BY <1>3, <1>7, <1>8, <2>1, <2>2, <2>3
<1>16. CASE PeerSends \/ PeerReads \/ PeerCloses \/ PeerResets \/ KernelGivesUp \/ UNCHANGED vars
  BY <1>9, <1>16 DEF PeerSends, PeerReads, PeerCloses, PeerResets, KernelGivesUp, Aborted, vars
<1> QED  BY <1>4, <1>5, <1>10, <1>11, <1>12, <1>13, <1>14, <1>15, <1>16
         DEF Next, LoopStep, OwnCall, Environment

\* No other thread has the connection before the up callback.
LEMMA UsersOrderIsKept ==
  ASSUME TypeOK, UsersOrder, [Next]_vars
  PROVE  UsersOrder'
<1> USE DEF conn, loop, user, owner, kernel, history
<1> SUFFICES ASSUME ups' = 0 PROVE \A u \in Users : pc'[u] = <<"idle">>
  BY DEF UsersOrder
<1>1. ~ConnectEstablished
  BY DEF ConnectEstablished, TypeOK
<1>2. ups = 0 /\ \A u \in Users : pc[u] = <<"idle">>
  BY <1>1, UpsStay DEF UsersOrder
<1>3. ~\E u \in Users : UserStep(u) \/ UserCall(u)
  BY <1>2 DEF UserStep, UserCall, StartSend, QueueSend, StartClosing, SetDisconnecting,
              QueueClosing
<1>4. CASE \/ Poll \/ CloseEvent \/ HandleError \/ ReadMessage \/ ReadEnd \/ ReadError
           \/ WriteEventFails \/ TakeDown \/ RemoveChannel \/ CallbackReturns \/ TakePending
           \/ WriteBuffered \/ CloseCallback
  BY <1>2, <1>4 DEF Poll, CloseEvent, HandleError, ReadMessage, ReadEnd, ReadError,
              WriteEventFails, TakeDown, RemoveChannel, CallbackReturns, TakePending,
              WriteBuffered, CloseCallback
<1>5. CASE \/ RunSend \/ RunShutdown \/ ForceCloseInLoop \/ RunCallback \/ ConnectDestroyed
           \/ OwnSend \/ OwnShutdown \/ OwnForceClose
  BY <1>2, <1>5 DEF RunSend, RunShutdown, ForceCloseInLoop, RunCallback, ConnectDestroyed,
              OwnSend, OwnShutdown, OwnForceClose
<1>6. CASE \/ OwnerRemoves \/ OwnerGoes \/ PeerSends \/ PeerReads \/ PeerCloses \/ PeerResets
           \/ KernelGivesUp \/ UNCHANGED vars
  BY <1>2, <1>6 DEF OwnerRemoves, OwnerGoes, PeerSends, PeerReads, PeerCloses, PeerResets,
              KernelGivesUp, Aborted, vars
<1> QED  BY <1>1, <1>3, <1>4, <1>5, <1>6 DEF Next, LoopStep, OwnCall, Environment

\* A store that came late, and an owner that went first, are never undone.
LEMMA MeddledForGood ==
  ASSUME [Next]_vars, ~Meddled'
  PROVE  ~Meddled /\ ~late' /\ held' # "gone"
<1> USE DEF conn, loop, user, owner, kernel, history
<1> SUFFICES (late => late') /\ (held = "gone" => held' = "gone")
  BY DEF Meddled
<1>1. CASE UNCHANGED <<late, held>>
  BY <1>1
<1>2. CASE CloseEvent \/ ReadEnd
  <2>1. \A rest : HandleClose(rest) => UNCHANGED late
    BY DEF HandleClose
  <2> QED  BY <1>1, <1>2, <2>1 DEF CloseEvent, ReadEnd
<1>3. CASE \/ Poll \/ HandleError \/ ReadMessage \/ ReadError
           \/ WriteEventFails \/ TakeDown \/ RemoveChannel \/ CallbackReturns \/ TakePending
           \/ WriteBuffered \/ CloseCallback
  BY <1>1, <1>3 DEF Poll, HandleError, ReadMessage, ReadError,
              WriteEventFails, TakeDown, RemoveChannel, CallbackReturns, TakePending,
              WriteBuffered, CloseCallback
<1>4. CASE \/ ConnectEstablished \/ RunSend \/ RunShutdown \/ ForceCloseInLoop \/ RunCallback
           \/ ConnectDestroyed \/ OwnSend \/ OwnShutdown \/ OwnForceClose
  BY <1>4 DEF ConnectEstablished, RunSend, RunShutdown, ForceCloseInLoop, RunCallback,
              ConnectDestroyed, HandleClose, SendInLoop, OwnSend, OwnShutdown, OwnForceClose
<1>5. CASE \E u \in Users : UserStep(u) \/ UserCall(u)
  <2>1. late' = late \/ late' = (late \/ state = "kDisconnected")
    BY <1>5 DEF UserStep, UserCall, StartSend, QueueSend, StartClosing, SetDisconnecting,
                QueueClosing
  <2>2. UNCHANGED held
    BY <1>5 DEF UserStep, UserCall, StartSend, QueueSend, StartClosing, SetDisconnecting,
                QueueClosing
  <2>3. late => late'
    BY <2>1, Zenon
  <2> QED  BY <2>2, <2>3
<1>6. CASE \/ OwnerRemoves \/ OwnerGoes \/ PeerSends \/ PeerReads \/ PeerCloses \/ PeerResets
           \/ KernelGivesUp \/ UNCHANGED vars
  BY <1>6 DEF OwnerRemoves, OwnerGoes, PeerSends, PeerReads, PeerCloses, PeerResets,
              KernelGivesUp, Aborted, vars
<1> QED  BY <1>2, <1>3, <1>4, <1>5, <1>6 DEF Next, LoopStep, OwnCall, Environment

\* All of it together.
LEMMA OrderInvariance == Spec => []Orderly
<1>1. Init => Orderly
  <2> SUFFICES ASSUME Init PROVE Order
    BY DEF Orderly
  <2>1. UsersOrder /\ TodoOrder
    BY DEF Init, UsersOrder, TodoOrder, Lacks
  <2>2. StateOrder
    BY DEF Init, StateOrder
  <2>3. QueueOrder
    BY DEF Init, QueueOrder, NoDestroy, Functor
  <2> QED  BY <2>1, <2>2, <2>3 DEF Order
<1>2. Inv /\ UpInv /\ Orderly /\ [Next]_vars => Orderly'
  <2> SUFFICES ASSUME Inv, UpInv, Orderly, [Next]_vars, ~Meddled' PROVE Order'
    BY DEF Orderly
  <2>1. Order /\ ~late' /\ held' # "gone"
    BY MeddledForGood DEF Orderly
  <2>2. TypeOK /\ UsersOrder
    BY <2>1 DEF Inv, Order
  <2> QED  BY <2>1, <2>2, UsersOrderIsKept, StateOrderIsKept, TodoOrderIsKept, QueueOrderIsKept
           DEF Order
<1> QED  BY <1>1, <1>2, Invariance, UpInvariance, PTL DEF Spec

\* state_ goes one way, and the down callback runs once and after the up callback,
\* however many of the peer, the loop's callbacks, other threads and the kernel end the
\* connection (handleClose(), forceCloseInLoop(), connectDestroyed()).  Two things are
\* excepted: another thread whose shutdown() or forceClose() tested state_ before the
\* connection went down and stores to it afterwards, and an owner that is destroyed first.
THEOREM StatesGoOneWay == Spec => OneWay
<1>1. Inv /\ Inv' /\ UpInv /\ Orderly /\ [Next]_vars
        => [~Meddled' => Rank[state] <= Rank[state'] /\ downs' <= ups']_vars
  <2> SUFFICES ASSUME Inv, Inv', UpInv, Orderly, [Next]_vars, ~Meddled'
               PROVE  Rank[state] <= Rank[state'] /\ downs' <= ups'
    OBVIOUS
  <2>1. Order /\ ~late'
    BY MeddledForGood DEF Orderly
  <2>2. state \in States /\ state' \in States /\ ups' \in 0..1 /\ downs' \in Nat
    BY DEF Inv, TypeOK
  <2>3. /\ StateOrder'
        /\ \/ UNCHANGED state
           \/ state' = "kDisconnected"
           \/ state = "kConnecting" /\ state' = "kConnected"
           \/ state \in {"kConnected", "kDisconnecting"} /\ state' = "kDisconnecting"
    BY <2>1, StateOrderIsKept
  <2>4. downs' <= ups'
    BY <2>2, <2>3 DEF StateOrder
  <2>5. /\ Rank["kConnecting"] = 0 /\ Rank["kConnected"] = 1
        /\ Rank["kDisconnecting"] = 2 /\ Rank["kDisconnected"] = 3
    BY DEF Rank, States
  <2>6. Rank[state] <= Rank[state']
    BY <2>2, <2>3, <2>5 DEF States
  <2> QED  BY <2>4, <2>6
<1> QED  BY <1>1, Invariance, UpInvariance, OrderInvariance, PTL DEF Spec, OneWay
=============================================================================
