-------------------------- MODULE TcpClientProofs --------------------------
(***************************************************************************)
(* Proofs about TcpClient, for any number of attempts: every socket has    *)
(* one owner and is closed once, the client has one socket at a time, and  *)
(* a connector that was stopped leaves no attempt open.                    *)
(***************************************************************************)
EXTENDS TcpClient, SequenceTheorems, FiniteSetTheorems, TLAPS

Functors == Ops \X (Attempts \cup {None})

\* Functors of which no two can be waiting.
Same(f, g) == f = g /\ f[1] \in {"start", "destroy"}
NoRepeat(s) == \A i, j \in DOMAIN s : i < j => ~Same(s[i], s[j])
Queues(b, q) ==
  /\ b \in Seq(Functors) /\ q \in Seq(Functors)
  /\ NoRepeat(b) /\ NoRepeat(q)
  /\ \A f \in ToSet(b), g \in ToSet(q) : ~Same(f, g)

\* A socket that is connecting or connected.
Live(a) == fd[a] \in {"connecting", "owned", "up"}

\* The invariant, beside TypeOK: where both threads are ...
Places ==
  /\ pc \in {<<"idle">>, <<"end">>, <<"queue", "start">>, <<"queue", "stop">>}
            \cup ({"destroy"} \X (Attempts \cup {None}) \X BOOLEAN)
  /\ at \in {"poll", "events"} => batch = <<>>
  /\ at \in {"poll", "undefined"} => todo = "return" /\ handling = None
  /\ handling # None => at = "events"
  /\ todo \in {"newConnection", "establish"} => handling # None

\* ... which sockets state_ of the connector stands for ...
Sockets ==
  /\ \A a \in Attempts : a > made => fd[a] = "unused"
  /\ \A a, b \in Attempts : Live(a) /\ Live(b) => a = b
  /\ state = "kDisConnected" =>
       /\ \A a \in Attempts : ~Live(a)
       /\ watched = {} /\ todo \in {"return", "start"}
  /\ state = "kConnecting" =>
       /\ todo = "return"
       /\ \E a \in Attempts : fd[a] = "connecting" /\ watched = {a} /\ channel \in {a, None}
  /\ state = "kConnected" =>
       /\ watched = {} /\ todo # "start"
       /\ todo = "restart" => \A a \in Attempts : ~Live(a)
       /\ todo = "newConnection" => fd[handling] = "connecting"
       /\ todo = "establish" => fd[handling] = "owned"
       /\ \A a \in Attempts : fd[a] = "connecting" => todo = "newConnection" \/ at = "undefined"

\* ... that start() is called once, and nothing happens before ...
Starting ==
  "connect" \notin did \/ pc = <<"queue", "start">> \/ \E f \in Queued : f[1] = "start"
StartOnce ==
  /\ Starting => todo = "return" /\ state = "kDisConnected"
  /\ pc = <<"queue", "start">> \/ "connect" \notin did => \A f \in Queued : f[1] # "start"
  /\ "connect" \notin did => pc # <<"queue", "start">>
  /\ \A f \in Queued : f[1] = "start" => f[2] = None

\* ... that connectDestroyed() is for a connection that is down ...
DestroyOnce ==
  /\ \A f \in Queued : f[1] = "destroy" => f[2] \in Attempts /\ fd[f[2]] = "down"
  /\ \A a \in Attempts : fd[a] # "doubly"

\* ... whose a connection is ...
Owner ==
  /\ conn # None => fd[conn] \in {"owned", "up"}
  /\ IF gone
     THEN conn = None /\ pc = <<"end">>
     ELSE /\ \A a \in Attempts : fd[a] \in {"owned", "up"} => conn = a
          /\ \A a \in Attempts : closeCb[a] = "client"
          /\ \A f \in Queued : f[1] \notin {"setClose", "forceClose"}
  /\ \A f \in Queued : f[1] \in {"setClose", "forceClose"} => f[2] \in Attempts

\* ... and that a connector that is to stop will.
Stopping ==
  ~connect /\ state = "kConnecting" /\ channel # None
    => pc = <<"queue", "stop">> \/ \E f \in Queued : f[1] = "stop"

Inv ==
  /\ TypeOK /\ Queues(batch, pending) /\ Places
  /\ Sockets /\ StartOnce /\ DestroyOnce /\ Owner /\ Stopping
-----------------------------------------------------------------------------
(* Queues of functors.                                                     *)

LEMMA EmptyQueue == ToSet(<<>>) = {} /\ NoRepeat(<<>>) /\ <<>> \in Seq(Functors)
  BY DEF ToSet, NoRepeat

\* What one functor more changes.
LEMMA Appended ==
  ASSUME NEW q \in Seq(Functors), NEW f \in Functors
  PROVE  /\ Append(q, f) \in Seq(Functors) /\ ToSet(Append(q, f)) = ToSet(q) \cup {f}
         /\ NoRepeat(q) /\ (\A g \in ToSet(q) : ~Same(g, f)) => NoRepeat(Append(q, f))
<1>1. /\ Append(q, f) \in Seq(Functors) /\ Len(Append(q, f)) = Len(q) + 1
      /\ \A i \in 1..Len(q) : Append(q, f)[i] = q[i]
      /\ Append(q, f)[Len(q) + 1] = f
  BY AppendProperties
<1>2. Len(q) \in Nat /\ DOMAIN q = 1..Len(q) /\ DOMAIN Append(q, f) = 1..(Len(q) + 1)
  BY <1>1, LenProperties
<1>3. ASSUME NoRepeat(q), \A g \in ToSet(q) : ~Same(g, f)
      PROVE  NoRepeat(Append(q, f))
  <2> SUFFICES ASSUME NEW i \in 1..(Len(q) + 1), NEW j \in 1..(Len(q) + 1), i < j
               PROVE  ~Same(Append(q, f)[i], Append(q, f)[j])
    BY <1>2 DEF NoRepeat
  <2>1. i \in 1..Len(q) /\ Append(q, f)[i] = q[i] /\ q[i] \in ToSet(q)
    BY <1>1, <1>2 DEF ToSet
  <2>2. CASE j = Len(q) + 1
    BY <1>1, <1>3, <2>1, <2>2
  <2>3. CASE j # Len(q) + 1
    <3>1. j \in 1..Len(q) /\ Append(q, f)[j] = q[j]
      BY <1>1, <1>2, <2>3
    <3> QED  BY <1>2, <1>3, <2>1, <3>1 DEF NoRepeat
  <2> QED  BY <2>2, <2>3
<1> QED  BY <1>1, <1>2, <1>3 DEF ToSet

\* What remains without the first functor.
LEMMA HeadTaken ==
  ASSUME NEW b \in Seq(Functors), b # <<>>
  PROVE  /\ Head(b) \in Functors /\ Tail(b) \in Seq(Functors)
         /\ ToSet(b) = {Head(b)} \cup ToSet(Tail(b))
         /\ NoRepeat(b) => NoRepeat(Tail(b)) /\ \A f \in ToSet(Tail(b)) : ~Same(Head(b), f)
<1>1. /\ Head(b) \in Functors /\ Tail(b) \in Seq(Functors) /\ Len(Tail(b)) = Len(b) - 1
      /\ \A i \in 1..Len(Tail(b)) : Tail(b)[i] = b[i + 1]
  BY HeadTailProperties
<1>2. Len(b) \in Nat \ {0} /\ DOMAIN b = 1..Len(b) /\ Head(b) = b[1]
  BY LenProperties, EmptySeq
<1>3. DOMAIN Tail(b) = 1..(Len(b) - 1) /\ \A i \in 1..(Len(b) - 1) : Tail(b)[i] = b[i + 1]
  BY <1>1, LenProperties
<1>4. 1 \in DOMAIN b /\ \A i \in 1..(Len(b) - 1) : i + 1 \in DOMAIN b /\ 1 < i + 1
  BY <1>2
<1>5. ASSUME NEW f \in ToSet(b) PROVE f = Head(b) \/ f \in ToSet(Tail(b))
  <2>1. PICK i \in 1..Len(b) : f = b[i]
    BY <1>2 DEF ToSet
  <2>2. CASE i = 1
    BY <1>2, <2>1, <2>2
  <2>3. CASE i # 1
    <3>1. i - 1 \in 1..(Len(b) - 1) /\ (i - 1) + 1 = i
      BY <1>2, <2>3
    <3>2. Tail(b)[i - 1] = f
      BY <1>3, <2>1, <3>1
    <3> QED  BY <1>3, <3>1, <3>2 DEF ToSet
  <2> QED  BY <2>2, <2>3
<1>6. Head(b) \in ToSet(b) /\ \A f \in ToSet(Tail(b)) : f \in ToSet(b)
  BY <1>2, <1>3, <1>4 DEF ToSet
<1>7. ASSUME NoRepeat(b) PROVE NoRepeat(Tail(b))
  <2> SUFFICES ASSUME NEW i \in 1..(Len(b) - 1), NEW j \in 1..(Len(b) - 1), i < j
               PROVE  ~Same(b[i + 1], b[j + 1])
    BY <1>3 DEF NoRepeat
  <2>1. i + 1 \in DOMAIN b /\ j + 1 \in DOMAIN b /\ i + 1 < j + 1
    BY <1>2, <1>4
  <2> QED  BY <1>7, <2>1 DEF NoRepeat
<1>8. ASSUME NoRepeat(b), NEW f \in ToSet(Tail(b)) PROVE ~Same(Head(b), f)
  <2>1. PICK i \in 1..(Len(b) - 1) : f = b[i + 1]
    BY <1>3 DEF ToSet
  <2> QED  BY <1>2, <1>4, <1>8, <2>1 DEF NoRepeat
<1> QED  BY <1>1, <1>5, <1>6, <1>7, <1>8

\* A functor of the batch has started.
LEMMA Takes ==
  ASSUME Queues(batch, pending), batch # <<>>, batch' = Tail(batch), pending' = pending
  PROVE  /\ Queues(batch, pending)' /\ Head(batch) \in Functors
         /\ Queued = Queued' \cup {Head(batch)}
         /\ \A f \in Queued' : ~Same(Head(batch), f)
<1>1. batch \in Seq(Functors)
  BY DEF Queues
<1>2. /\ Head(batch) \in Functors /\ batch' \in Seq(Functors)
      /\ ToSet(batch) = {Head(batch)} \cup ToSet(batch')
      /\ NoRepeat(batch) => NoRepeat(batch') /\ \A f \in ToSet(batch') : ~Same(Head(batch), f)
  BY <1>1, HeadTaken
<1>3. Queues(batch', pending')
  BY <1>2 DEF Queues
<1> QED  BY <1>2, <1>3 DEF Queues, Queued

\* A functor has been queued.
LEMMA Adds ==
  ASSUME Queues(batch, pending), NEW f \in Functors, \A g \in Queued : ~Same(g, f),
         pending' = Append(pending, f), batch' = batch
  PROVE  Queues(batch, pending)' /\ Queued' = Queued \cup {f}
<1>1. pending \in Seq(Functors)
  BY DEF Queues
<1>2. /\ pending' \in Seq(Functors) /\ ToSet(pending') = ToSet(pending) \cup {f}
      /\ NoRepeat(pending) /\ (\A g \in ToSet(pending) : ~Same(g, f)) => NoRepeat(pending')
  BY <1>1, Appended
<1>3. Queues(batch', pending')
  BY <1>2 DEF Queues, Queued
<1> QED  BY <1>2, <1>3 DEF Queued

\* A functor of the batch has queued another.
LEMMA TakesAndAdds ==
  ASSUME Queues(batch, pending), batch # <<>>, batch' = Tail(batch),
         NEW f \in Functors, \A g \in Queued : ~Same(g, f), pending' = Append(pending, f)
  PROVE  /\ Queues(batch, pending)' /\ Head(batch) \in Queued
         /\ Queued' \subseteq Queued \cup {f}
         /\ Queued \cup {f} \subseteq Queued' \cup {Head(batch)}
<1>1. batch \in Seq(Functors) /\ pending \in Seq(Functors)
  BY DEF Queues
<1>2. /\ batch' \in Seq(Functors) /\ ToSet(batch) = {Head(batch)} \cup ToSet(batch')
      /\ NoRepeat(batch) => NoRepeat(batch')
  BY <1>1, HeadTaken
<1>3. /\ pending' \in Seq(Functors) /\ ToSet(pending') = ToSet(pending) \cup {f}
      /\ NoRepeat(pending) /\ (\A g \in ToSet(pending) : ~Same(g, f)) => NoRepeat(pending')
  BY <1>1, Appended
<1>4. Queues(batch', pending')
  BY <1>2, <1>3 DEF Queues, Queued
<1> QED  BY <1>2, <1>3, <1>4 DEF Queued

\* The functors waiting are functors.
LEMMA QueuedTypes ==
  ASSUME NEW b, NEW q, Queues(b, q)
  PROVE  ToSet(b) \cup ToSet(q) \subseteq Functors
<1>1. \A s \in Seq(Functors) : ToSet(s) \subseteq Functors
  BY ElementOfSeq, LenProperties DEF ToSet
<1> QED  BY <1>1 DEF Queues
-----------------------------------------------------------------------------
(* The invariant is inductive.                                             *)

\* Steps that leave the functors alone.
LEMMA QuietQueue ==
  ASSUME Queues(batch, pending), UNCHANGED <<batch, pending>>
  PROVE  Queues(batch, pending)' /\ Queued' = Queued
  BY DEF Queues, Queued

LEMMA AttemptsAreNumbers ==
  /\ Attempts \subseteq Nat \ {0} /\ None \notin Attempts
  /\ \A k \in 0..MaxAttempts : k < MaxAttempts => k + 1 \in Attempts /\ k + 1 \in 0..MaxAttempts
  BY AttemptsAssumption DEF Attempts, None

LEMMA InvInitially == Init => Inv
<1> SUFFICES ASSUME Init PROVE Inv
  OBVIOUS
<1> USE DEF Init
<1>1. Queues(batch, pending) /\ Queued = {}
  BY EmptyQueue DEF Queues, Queued
<1>2. Places
  BY DEF Places
<1>3. TypeOK
  <2>1. pc[1] = "idle" /\ 0 \in 0..MaxAttempts
    BY AttemptsAssumption
  <2>2. /\ fd \in [Attempts -> {"unused"}] /\ closeCb \in [Attempts -> {"client"}]
        /\ {None} \subseteq Attempts \cup {None}
    OBVIOUS
  <2> QED  BY <1>1, <2>1, <2>2 DEF TypeOK
<1>4. Sockets
  BY AttemptsAreNumbers DEF Sockets, Live
<1>5. StartOnce /\ DestroyOnce /\ Stopping
  BY <1>1 DEF StartOnce, Starting, DestroyOnce, Stopping
<1>6. Owner
  BY <1>1 DEF Owner, None
<1> QED  BY <1>1, <1>2, <1>3, <1>4, <1>5, <1>6 DEF Inv

\* Undefined behaviour stops the loop, and nothing else.
LEMMA UndefinedStep ==
  ASSUME Inv, Undefined
  PROVE  Inv'
<1> USE DEF Undefined, client, connector, sockets, user
<1>1. Queues(batch, pending)' /\ Queued' = Queued
  BY QuietQueue DEF Inv
<1>2. Places'
  BY DEF Inv, Places
<1>3. TypeOK'
  BY <1>1 DEF Inv, TypeOK
<1>4. Sockets'
  BY DEF Inv, Sockets, Live
<1>5. (StartOnce /\ DestroyOnce /\ Owner /\ Stopping)'
  BY <1>1 DEF Inv, StartOnce, Starting, DestroyOnce, Owner, Stopping
<1> QED  BY <1>1, <1>2, <1>3, <1>4, <1>5 DEF Inv

\* startInLoop() and connect()
LEMMA ConnectingSteps ==
  ASSUME Inv, DoNotConnect \/ Connecting \/ Refused \/ Fails
  PROVE  Inv'
<1> USE DEF client, connector, sockets, user
<1>1. Queues(batch, pending)' /\ Queued' = Queued
  BY QuietQueue DEF Inv, DoNotConnect, Connecting, Refused, Fails
<1>2. TypeOK /\ Places /\ Sockets /\ StartOnce /\ todo = "start"
  BY DEF Inv, DoNotConnect, Connecting, Refused, Fails, Attempt
<1>3. /\ UNCHANGED <<reconnect, wanted, conn, gone, connect, kept, closeCb, at, active, handling,
                     batch, pending, pc, did>>
      /\ todo' \in {"return", "start"}
  BY DEF DoNotConnect, Connecting, Refused, Fails
<1>4. state = "kDisConnected" /\ watched = {} /\ \A a \in Attempts : ~Live(a)
  BY <1>2 DEF Sockets, TypeOK
<1>5. Places'
  BY <1>2, <1>3 DEF Places
<1>6. CASE DoNotConnect
  <2>1. UNCHANGED <<state, channel, made, fd, watched>> /\ todo' = "return"
    BY <1>6 DEF DoNotConnect
  <2>2. TypeOK' /\ Sockets'
    BY <1>1, <1>2, <1>3, <1>4, <2>1 DEF TypeOK, Sockets, Live
  <2>3. (StartOnce /\ DestroyOnce /\ Owner /\ Stopping)'
    BY <1>1, <1>3, <2>1 DEF Inv, StartOnce, Starting, DestroyOnce, Owner, Stopping
  <2> QED  BY <1>1, <1>5, <2>2, <2>3 DEF Inv
<1>7. CASE Connecting \/ Refused \/ Fails
  <2> DEFINE a == made + 1
  <2>1. PICK result \in {"connecting", "closed", "failed"} :
          /\ connect /\ a \in Attempts /\ made' = a /\ a \in 0..MaxAttempts
          /\ fd' = [fd EXCEPT ![a] = result]
          /\ result = "connecting" => /\ todo' = "return" /\ state' = "kConnecting"
                                      /\ channel' = a /\ watched' = {a}
          /\ result # "connecting" => /\ UNCHANGED <<channel, watched>>
                                      /\ state' = "kDisConnected"
    BY <1>2, <1>4, <1>7, AttemptsAreNumbers DEF Connecting, Refused, Fails, Attempt, TypeOK
  <2> HIDE DEF a
  <2>2. fd \in [Attempts -> {"unused", "connecting", "failed", "owned", "up", "down", "removed",
                             "closed", "doubly"}] /\ fd[a] = "unused"
    BY <1>2, <2>1, AttemptsAreNumbers DEF TypeOK, Sockets, a
  <2>3. TypeOK'
    <3> DEFINE Fates == {"unused", "connecting", "failed", "owned", "up", "down", "removed",
                         "closed", "doubly"}
    <3>1. fd' \in [Attempts -> Fates]
      <4>1. fd \in [Attempts -> Fates] /\ result \in Fates
        BY <2>2
      <4> HIDE DEF Fates
      <4> QED  BY <2>1, <4>1
    <3>2. {channel'} \subseteq Attempts \cup {None} /\ watched' \subseteq Attempts
      BY <1>2, <2>1 DEF TypeOK
    <3>3. made' \in 0..MaxAttempts
          /\ state' \in {"kDisConnected", "kConnecting", "kConnected"}
      BY <2>1
    <3>4. todo' \in {"return", "start", "restart", "newConnection", "establish"}
          /\ at' # "poll"
      BY <1>2, <1>3 DEF TypeOK
    <3>5. {conn, kept, handling} \subseteq Attempts \cup {None}
      BY <1>2 DEF TypeOK
    <3>6. {conn', channel', kept', handling'} \subseteq Attempts \cup {None}
      BY <1>3, <3>2, <3>5
    <3>7. Queued' \subseteq Ops \X (Attempts \cup {None})
      BY <1>1, <1>2 DEF TypeOK
    <3> QED  BY <1>2, <1>3, <3>1, <3>2, <3>3, <3>4, <3>6, <3>7 DEF TypeOK
  <2>4. Sockets'
    <3>1. \A b \in Attempts : b > made' => b > made /\ b # a
      <4>1. made \in Nat /\ made' = made + 1 /\ a = made + 1
        BY <1>2, <2>1 DEF TypeOK, a
      <4>2. \A b \in Attempts : b \in Nat
        BY AttemptsAreNumbers
      <4> QED  BY <4>1, <4>2
    <3>2. \A b \in Attempts : b > made' => fd'[b] = "unused"
      BY <1>2, <2>1, <2>2, <3>1 DEF Sockets
    <3>3. \A b \in Attempts : Live(b)' => b = a /\ result = "connecting"
      BY <1>4, <2>1, <2>2 DEF Live
    <3> QED  BY <1>3, <1>4, <2>1, <2>2, <3>2, <3>3 DEF Sockets
  <2>5. StartOnce'
    BY <1>1, <1>2, <1>3 DEF StartOnce, Starting
  <2>6. DestroyOnce'
    BY <1>1, <2>1, <2>2 DEF Inv, DestroyOnce
  <2>7. Owner'
    BY <1>1, <1>3, <2>1, <2>2 DEF Inv, Owner
  <2>8. Stopping'
    BY <1>1, <1>3, <2>1 DEF Stopping
  <2> QED  BY <1>1, <1>5, <2>3, <2>4, <2>5, <2>6, <2>7, <2>8 DEF Inv
<1> QED  BY <1>6, <1>7

\* newConnection(), connectEstablished() and the way back; restart().
LEMMA HandlerSteps ==
  ASSUME Inv, NewConnection \/ Establish \/ HandlerReturns \/ Restart
  PROVE  Inv'
<1> USE DEF client, connector, sockets, user
<1>1. Queues(batch, pending)' /\ Queued' = Queued
  BY QuietQueue DEF Inv, NewConnection, Establish, HandlerReturns, Restart
<1>2. TypeOK /\ Places /\ Sockets /\ StartOnce
  BY DEF Inv
<1>3. CASE NewConnection
  <2>1. handling \in Attempts /\ fd[handling] = "connecting"
    BY <1>2, <1>3 DEF NewConnection, TypeOK, Places, Sockets, None
  <2>2. state = "kConnected" /\ watched = {}
    BY <1>2, <1>3 DEF NewConnection, TypeOK, Sockets
  <2>3. TypeOK' /\ Places'
    BY <1>1, <1>2, <1>3, <2>1 DEF NewConnection, TypeOK, Places
  <2>4. Sockets'
    BY <1>2, <1>3, <2>1, <2>2 DEF NewConnection, TypeOK, Sockets, Live
  <2>5. StartOnce' /\ DestroyOnce' /\ Stopping'
    BY <1>1, <1>2, <1>3, <2>1, <2>2
    DEF NewConnection, Inv, TypeOK, StartOnce, Starting, DestroyOnce, Stopping
  <2>6. Owner'
    BY <1>1, <1>2, <1>3, <2>1, <2>2 DEF NewConnection, Inv, TypeOK, Sockets, Live, Owner
  <2> QED  BY <1>1, <2>3, <2>4, <2>5, <2>6 DEF Inv
<1>4. CASE Establish
  <2>1. handling \in Attempts /\ fd[handling] = "owned"
    BY <1>2, <1>4 DEF Establish, TypeOK, Places, Sockets, None
  <2>2. state = "kConnected" /\ watched = {}
    BY <1>2, <1>4 DEF Establish, TypeOK, Sockets
  <2>3. TypeOK' /\ Places'
    BY <1>1, <1>2, <1>4, <2>1 DEF Establish, TypeOK, Places
  <2>4. Sockets'
    BY <1>2, <1>4, <2>1, <2>2 DEF Establish, TypeOK, Sockets, Live
  <2>5. StartOnce' /\ DestroyOnce' /\ Stopping'
    BY <1>1, <1>2, <1>4, <2>1, <2>2
    DEF Establish, Inv, TypeOK, StartOnce, Starting, DestroyOnce, Stopping
  <2>6. Owner'
    BY <1>1, <1>2, <1>4, <2>1, <2>2 DEF Establish, Inv, TypeOK, Sockets, Live, Owner
  <2> QED  BY <1>1, <2>3, <2>4, <2>5, <2>6 DEF Inv
<1>5. CASE HandlerReturns
  <2>1. TypeOK' /\ Places' /\ Sockets'
    BY <1>1, <1>2, <1>5 DEF HandlerReturns, TypeOK, Places, Sockets, Live
  <2>2. (StartOnce /\ DestroyOnce /\ Owner /\ Stopping)'
    BY <1>1, <1>5 DEF HandlerReturns, Inv, StartOnce, Starting, DestroyOnce, Owner, Stopping
  <2> QED  BY <1>1, <2>1, <2>2 DEF Inv
<1>6. CASE Restart
  <2>1. TypeOK' /\ Places' /\ Sockets'
    BY <1>1, <1>2, <1>6 DEF Restart, TypeOK, Places, Sockets, Live
  <2>2. (StartOnce /\ DestroyOnce /\ Owner /\ Stopping)'
    BY <1>1, <1>6 DEF Restart, Inv, StartOnce, Starting, DestroyOnce, Owner, Stopping
  <2> QED  BY <1>1, <2>1, <2>2 DEF Inv
<1> QED  BY <1>3, <1>4, <1>5, <1>6

\* The functors that run without queueing another.
LEMMA FunctorSteps ==
  ASSUME Inv, StartFunctor \/ ResetFunctor \/ SetCloseCallback \/ ConnectDestroyed
  PROVE  Inv'
<1> USE DEF client, connector, sockets, user
<1>1. /\ at = "functors" /\ todo = "return" /\ handling = None
      /\ batch # <<>> /\ batch' = Tail(batch) /\ pending' = pending
  BY DEF StartFunctor, ResetFunctor, SetCloseCallback, ConnectDestroyed, Starts, Free
<1>2. PICK f \in Functors :
        /\ f = Head(batch) /\ Queues(batch, pending)'
        /\ Queued = Queued' \cup {f} /\ \A g \in Queued' : ~Same(f, g)
  BY <1>1, Takes DEF Inv
<1>3. TypeOK /\ Places /\ Sockets /\ StartOnce /\ DestroyOnce /\ Owner /\ Stopping
  BY DEF Inv
<1>4. CASE StartFunctor
  <2>1. f[1] = "start" /\ f[2] = None /\ f \in Queued
    BY <1>2, <1>3, <1>4 DEF StartFunctor, Starts, StartOnce
  <2>2. state = "kDisConnected" /\ "connect" \in did /\ pc # <<"queue", "start">>
    BY <1>3, <2>1 DEF StartOnce, Starting
  <2>3. \A g \in Queued' : g[1] # "start"
    <3> SUFFICES ASSUME NEW g \in Queued', g[1] = "start" PROVE FALSE
      OBVIOUS
    <3>1. g[2] = None /\ g \in Functors
      BY <1>2, <1>3, QueuedTypes DEF StartOnce, Inv, Queued
    <3>2. g = f
      BY <1>2, <2>1, <3>1 DEF Functors
    <3> QED  BY <1>2, <2>1, <3>2 DEF Same
  <2>4. TypeOK' /\ Places' /\ Sockets'
    BY <1>1, <1>2, <1>3, <1>4, <2>2 DEF StartFunctor, TypeOK, Places, Sockets, Live
  <2>5. (StartOnce /\ DestroyOnce /\ Owner /\ Stopping)'
    BY <1>2, <1>3, <1>4, <2>1, <2>2, <2>3
       DEF StartFunctor, StartOnce, Starting, DestroyOnce, Owner, Stopping
  <2> QED  BY <1>2, <2>4, <2>5 DEF Inv
<1>5. CASE ResetFunctor
  <2>1. f[1] = "reset"
    BY <1>2, <1>5 DEF ResetFunctor, Starts
  <2>2. TypeOK' /\ Places' /\ Sockets'
    BY <1>1, <1>2, <1>3, <1>5 DEF ResetFunctor, TypeOK, Places, Sockets, Live
  <2>3. (StartOnce /\ DestroyOnce /\ Owner /\ Stopping)'
    BY <1>2, <1>3, <1>5, <2>1
       DEF ResetFunctor, StartOnce, Starting, DestroyOnce, Owner, Stopping
  <2> QED  BY <1>2, <2>2, <2>3 DEF Inv
<1>6. CASE SetCloseCallback
  <2>1. f[1] = "setClose" /\ f \in Queued /\ f[2] = Of
    BY <1>2, <1>6 DEF SetCloseCallback, Starts, Of
  <2>2. gone
    BY <1>3, <2>1 DEF Owner
  <2>3. closeCb' \in [Attempts -> {"client", "detail"}]
    BY <1>3, <1>6 DEF SetCloseCallback, TypeOK
  <2>4. TypeOK' /\ Places'
    BY <1>1, <1>2, <1>3, <1>6, <2>3 DEF SetCloseCallback, TypeOK, Places
  <2>5. Sockets'
    BY <1>3, <1>6 DEF SetCloseCallback, Sockets, Live
  <2>6. (StartOnce /\ DestroyOnce /\ Owner /\ Stopping)'
    BY <1>2, <1>3, <1>6, <2>1, <2>2
       DEF SetCloseCallback, StartOnce, Starting, DestroyOnce, Owner, Stopping
  <2> QED  BY <1>2, <2>4, <2>5, <2>6 DEF Inv
<1>7. CASE ConnectDestroyed
  <2>1. f[1] = "destroy" /\ f \in Queued /\ f[2] = Of /\ Of \in Attempts /\ fd[Of] = "down"
    BY <1>2, <1>3, <1>7 DEF ConnectDestroyed, Starts, Of, DestroyOnce
  <2>2. fd' = [fd EXCEPT ![Of] = "removed"]
    BY <1>7, <2>1 DEF ConnectDestroyed
  <2>3. TypeOK'
    <3> DEFINE Fates == {"unused", "connecting", "failed", "owned", "up", "down", "removed",
                         "closed", "doubly"}
    <3>1. fd' \in [Attempts -> Fates]
      <4>1. fd \in [Attempts -> Fates] /\ "removed" \in Fates
        BY <1>3 DEF TypeOK
      <4> HIDE DEF Fates
      <4> QED  BY <2>2, <4>1
    <3>2. UNCHANGED <<reconnect, wanted, conn, gone, connect, state, channel, made, watched, kept,
                      closeCb, at, handling, active, todo, pc, did>>
      BY <1>7 DEF ConnectDestroyed
    <3>3. Queued' \subseteq Queued /\ at' # "poll"
      BY <1>1, <1>2, <3>2
    <3> QED  BY <1>3, <3>1, <3>2, <3>3 DEF TypeOK
  <2>8. Places'
    BY <1>1, <1>2, <1>3, <1>7 DEF ConnectDestroyed, Places
  <2>4. Sockets'
    BY <1>3, <1>7, <2>1, <2>2 DEF ConnectDestroyed, TypeOK, Sockets, Live
  <2>5. DestroyOnce'
    <3>1. ASSUME NEW g \in Queued', g[1] = "destroy"
          PROVE  g[2] \in Attempts /\ fd'[g[2]] = "down"
      <4>1. g \in Functors /\ g[2] \in Attempts /\ fd[g[2]] = "down" /\ ~Same(f, g)
        BY <1>2, <1>3, <3>1, QueuedTypes DEF DestroyOnce, Inv, Queued
      <4>2. g[2] # Of
        BY <2>1, <3>1, <4>1 DEF Same, Functors
      <4> QED  BY <1>3, <2>2, <4>1, <4>2 DEF TypeOK
    <3>2. \A a \in Attempts : fd'[a] # "doubly"
      BY <1>3, <2>1, <2>2 DEF DestroyOnce, TypeOK
    <3> QED  BY <3>1, <3>2 DEF DestroyOnce
  <2>6. Owner'
    BY <1>2, <1>3, <1>7, <2>1, <2>2 DEF ConnectDestroyed, TypeOK, Owner
  <2>7. (StartOnce /\ Stopping)'
    BY <1>2, <1>3, <1>7, <2>1 DEF ConnectDestroyed, StartOnce, Starting, Stopping
  <2> QED  BY <1>2, <2>3, <2>4, <2>5, <2>6, <2>7, <2>8 DEF Inv
<1> QED  BY <1>4, <1>5, <1>6, <1>7

\* loop(): poll() and the functors.
LEMMA LoopSteps ==
  ASSUME Inv,
         \/ \E A \in SUBSET (watched \cup Ups) : Poll(A)
         \/ TakePending \/ EndBatch
  PROVE  Inv'
<1> USE DEF client, connector, sockets, user
<1>1. TypeOK /\ Places /\ Queues(batch, pending)
  BY DEF Inv
<1>2. /\ UNCHANGED <<client, connector, sockets, handling, todo, user>>
      /\ todo = "return" /\ handling = None
      /\ at' \in {"poll", "events", "functors"} /\ at \in {"poll", "events", "functors"}
      /\ at' = "events" => batch' = batch /\ batch = <<>>
      /\ at' = "poll" => batch' = <<>>
  BY <1>1 DEF Poll, TakePending, EndBatch, Free, Places
<1>3. Queues(batch, pending)' /\ Queued' = Queued
  <2>1. CASE UNCHANGED <<batch, pending>>
    BY <1>1, <2>1, QuietQueue
  <2>2. CASE TakePending
    <3>1. batch = <<>> /\ batch' = pending /\ pending' = <<>>
      BY <1>1, <2>2 DEF TakePending, Places
    <3>2. Queues(batch', pending')
      BY <1>1, <3>1, EmptyQueue DEF Queues
    <3> QED  BY <3>1, <3>2, EmptyQueue DEF Queues, Queued
  <2> QED  BY <2>1, <2>2 DEF Poll, EndBatch
<1>4. active' \subseteq Attempts
  BY <1>1 DEF Poll, TakePending, EndBatch, TypeOK, Ups
<1>5. TypeOK' /\ Places'
  BY <1>1, <1>2, <1>3, <1>4 DEF TypeOK, Places
<1>6. Sockets'
  BY <1>2 DEF Inv, Sockets, Live
<1>7. (StartOnce /\ DestroyOnce /\ Owner /\ Stopping)'
  BY <1>2, <1>3 DEF Inv, StartOnce, Starting, DestroyOnce, Owner, Stopping
<1> QED  BY <1>3, <1>5, <1>6, <1>7 DEF Inv

\* The calls of the user's thread, and the steps of the destructor that queue nothing.
LEMMA CallSteps ==
  ASSUME Inv, Connect \/ Disconnect \/ Stop \/ Destroy \/ StopConnector
  PROVE  Inv'
<1> USE DEF client, connector, sockets, loop
<1>1. Queues(batch, pending)' /\ Queued' = Queued
  BY QuietQueue DEF Inv, Connect, Disconnect, Stop, Destroy, StopConnector
<1>2. TypeOK /\ Places /\ Sockets /\ StartOnce
  BY DEF Inv
<1>3. /\ UNCHANGED <<reconnect, conn, gone, state, channel, sockets, loop>>
      /\ wanted' \in BOOLEAN /\ connect' \in BOOLEAN
  BY <1>2 DEF Connect, Disconnect, Stop, Destroy, StopConnector, TypeOK
<1>4. did' \subseteq {"connect", "disconnect", "stop", "destroy"}
  <2>1. did \subseteq {"connect", "disconnect", "stop", "destroy"}
    BY <1>2 DEF TypeOK
  <2>2. \A op : Calls(op) => did' = did \cup {op}
    BY DEF Calls
  <2>3. \/ Calls("connect") \/ Calls("disconnect") \/ Calls("stop") \/ Calls("destroy")
        \/ did' = did
    BY DEF Connect, Disconnect, Stop, Destroy, StopConnector
  <2> HIDE DEF Calls
  <2> QED  BY <2>1, <2>2, <2>3
<1>5. pc' \in {<<"idle">>, <<"queue", "start">>, <<"queue", "stop">>}
             \cup ({"destroy"} \X (Attempts \cup {None}) \X BOOLEAN)
  <2>1. CASE Destroy
    <3>1. \E b \in BOOLEAN : pc' = <<"destroy", conn, b>>
      BY <2>1 DEF Destroy
    <3> QED  BY <1>2, <3>1 DEF TypeOK
  <2>2. CASE ~Destroy
    <3>1. pc' \in {<<"idle">>, <<"queue", "start">>, <<"queue", "stop">>}
      BY <2>2 DEF Connect, Disconnect, Stop, StopConnector, Calls
    <3> QED  BY <3>1
  <2> QED  BY <2>1, <2>2
<1>6. TypeOK' /\ Places'
  BY <1>1, <1>2, <1>3, <1>4, <1>5 DEF TypeOK, Places
<1>7. Sockets'
  BY <1>2, <1>3 DEF Sockets, Live
<1>8. StartOnce'
  <2>1. CASE Connect
    BY <1>1, <1>2, <1>3, <2>1 DEF Connect, Calls, StartOnce, Starting
  <2>2. CASE ~Connect
    <3>1. "connect" \in did' <=> "connect" \in did
      BY <2>2 DEF Disconnect, Stop, Destroy, StopConnector, Calls
    <3>2. pc' # <<"queue", "start">> \/ pc' = pc
      BY <2>2 DEF Disconnect, Stop, Destroy, StopConnector, Calls
    <3> QED  BY <1>1, <1>2, <1>3, <3>1, <3>2 DEF StartOnce, Starting
  <2> QED  BY <2>1, <2>2
<1>9. (DestroyOnce /\ Owner)'
  <2>1. pc # <<"end">>
    BY DEF Connect, Disconnect, Stop, Destroy, StopConnector, Calls
  <2> QED  BY <1>1, <1>3, <2>1 DEF Inv, DestroyOnce, Owner
<1>10. Stopping'
  <2>1. connect' \/ pc' = <<"queue", "stop">> \/ (connect' = connect /\ pc # <<"queue", "stop">>)
    BY DEF Connect, Disconnect, Stop, Destroy, StopConnector, Calls
  <2> QED  BY <1>1, <1>3, <2>1 DEF Inv, Stopping
<1> QED  BY <1>1, <1>6, <1>7, <1>8, <1>9, <1>10 DEF Inv

\* The functors of the user's thread.
LEMMA QueueSteps ==
  ASSUME Inv, QueueStartOrStop
  PROVE  Inv'
<1> USE DEF client, connector, sockets, QueueStartOrStop
<1>1. TypeOK /\ Places /\ Sockets /\ StartOnce /\ DestroyOnce /\ Owner /\ Stopping
  BY DEF Inv
<1>2. PICK op \in {"start", "stop"} : pc = <<"queue", op>>
  BY <1>1 DEF Places
<1>3. pc' \in {<<"idle">>, <<"end">>} /\ gone' \in BOOLEAN /\ (conn' = conn \/ (gone' /\ conn' = None))
  OBVIOUS
<1>4. op = "start" => \A g \in Queued : g[1] # "start"
  BY <1>1, <1>2 DEF StartOnce
<1>5. /\ Queues(batch, pending)' /\ Queued' = Queued \cup {<<op, None>>}
      /\ <<op, None>> \in Functors
  <2>1. <<op, None>> \in Functors /\ \A g \in Queued : ~Same(g, <<op, None>>)
    BY <1>4 DEF Same, Functors, Ops
  <2>2. pending' = Append(pending, <<op, None>>) /\ batch' = batch
    BY <1>2 DEF Queue
  <2> QED  BY <2>1, <2>2, Adds DEF Inv
<1>6. TypeOK' /\ Places'
  BY <1>1, <1>3, <1>5 DEF TypeOK, Places, Functors
<1>7. Sockets'
  BY <1>1 DEF Sockets, Live
<1>8. StartOnce'
  BY <1>1, <1>2, <1>3, <1>5 DEF StartOnce, Starting
<1>9. DestroyOnce'
  BY <1>1, <1>5 DEF DestroyOnce
<1>10. Owner'
  <2>1. ~gone
    <3>1. pc[1] = "queue"
      BY <1>2
    <3>2. gone => pc[1] = "end"
      BY <1>1 DEF Owner
    <3> QED  BY <3>1, <3>2
  <2>2. (gone' /\ pc' = <<"end">> /\ conn' = None) \/ (~gone' /\ conn' = conn)
    OBVIOUS
  <2>3. UNCHANGED <<fd, closeCb>>
    OBVIOUS
  <2>4. \A f \in Queued' : f[1] \notin {"setClose", "forceClose"}
    BY <1>1, <1>5, <2>1 DEF Owner
  <2> HIDE DEF QueueStartOrStop
  <2> QED  BY <1>1, <2>1, <2>2, <2>3, <2>4 DEF Owner
<1>11. Stopping'
  BY <1>1, <1>2, <1>5 DEF Stopping
<1> QED  BY <1>5, <1>6, <1>7, <1>8, <1>9, <1>10, <1>11 DEF Inv

\* The destructor with a connection: setCloseCallback() and perhaps forceClose().
LEMMA LeaveQueues ==
  ASSUME Inv, LeaveConnection
  PROVE  /\ Queues(batch, pending)' /\ Queued \subseteq Queued'
         /\ \A h \in Queued' :
              \/ h \in Queued
              \/ h \in Functors /\ h[1] \in {"setClose", "forceClose"} /\ h[2] \in Attempts
<1> USE DEF client, connector, sockets, LeaveConnection
<1>1. Places
  BY DEF Inv
<1>2. pc[2] \in Attempts /\ pc # <<"queue", "start">> /\ pc # <<"queue", "stop">>
  BY <1>1 DEF Places
<1> DEFINE f == <<"setClose", pc[2]>>
           g == <<"forceClose", pc[2]>>
<1>3. f \in Functors /\ g \in Functors /\ \A h : ~Same(h, f) /\ ~Same(h, g)
  BY <1>2 DEF Functors, Ops, Same
<1>4. pending \in Seq(Functors) /\ batch \in Seq(Functors)
  BY DEF Inv, Queues
<1>5. /\ Append(pending, f) \in Seq(Functors)
      /\ Append(pending, f) = pending \o <<f>>
      /\ Append(Append(pending, f), g) = (pending \o <<f>>) \o <<g>>
      /\ (pending \o <<f>>) \o <<>> = pending \o <<f>>
  <2> HIDE DEF f, g
  <2>1. Append(pending, f) \in Seq(Functors) /\ Append(pending, f) = pending \o <<f>>
    BY <1>3, <1>4, AppendProperties, AppendIsConcat
  <2>2. Append(Append(pending, f), g) = Append(pending, f) \o <<g>>
    BY <1>3, <2>1, AppendIsConcat
  <2>3. Append(pending, f) \o <<>> = Append(pending, f)
    BY <2>1, ConcatEmptySeq
  <2> QED  BY <2>1, <2>2, <2>3
<1>6. \/ pending' = Append(pending, f)
      \/ pending' = Append(Append(pending, f), g)
  BY <1>5
<1>7. /\ Queues(batch, pending)'
      /\ Queued' = Queued \cup {f} \/ Queued' = Queued \cup {f, g}
  <2> HIDE DEF f, g
  <2>1. /\ ToSet(Append(pending, f)) = ToSet(pending) \cup {f}
        /\ NoRepeat(pending) => NoRepeat(Append(pending, f))
    BY <1>3, <1>4, Appended
  <2>2. /\ Append(Append(pending, f), g) \in Seq(Functors)
        /\ ToSet(Append(Append(pending, f), g)) = ToSet(Append(pending, f)) \cup {g}
        /\ NoRepeat(Append(pending, f)) => NoRepeat(Append(Append(pending, f), g))
    BY <1>3, <1>5, Appended
  <2>3. /\ pending' \in Seq(Functors)
        /\ NoRepeat(pending) => NoRepeat(pending')
        /\ ToSet(pending') = ToSet(pending) \cup {f} \/ ToSet(pending') = ToSet(pending) \cup {f, g}
    BY <1>5, <1>6, <2>1, <2>2
  <2>4. Queues(batch', pending')
    <3>1. \A h \in ToSet(batch), k \in ToSet(pending') : ~Same(h, k)
      BY <1>3, <2>3 DEF Inv, Queues
    <3>2. batch' = batch /\ Queues(batch, pending)
      BY DEF Inv
    <3> HIDE DEF LeaveConnection
    <3> QED  BY <2>3, <3>1, <3>2 DEF Queues
  <2>5. Queued' = ToSet(batch) \cup ToSet(pending') /\ Queued = ToSet(batch) \cup ToSet(pending)
    BY DEF Queued
  <2> HIDE DEF LeaveConnection
  <2> QED  BY <2>3, <2>4, <2>5 DEF Queues
<1>8. /\ Queued \subseteq Queued'
      /\ \A h \in Queued' :
           \/ h \in Queued
           \/ h \in Functors /\ h[1] \in {"setClose", "forceClose"} /\ h[2] \in Attempts
  <2>1. /\ f[1] = "setClose" /\ f[2] \in Attempts
        /\ g[1] = "forceClose" /\ g[2] \in Attempts
    BY <1>2
  <2> HIDE DEF f, g, LeaveConnection
  <2> QED  BY <1>3, <1>7, <2>1
<1> QED  BY <1>7, <1>8

LEMMA LeaveStep ==
  ASSUME Inv, LeaveConnection
  PROVE  Inv'
<1> USE DEF client, connector, sockets, LeaveConnection
<1>1. TypeOK /\ Places /\ Sockets /\ StartOnce /\ DestroyOnce /\ Owner /\ Stopping
  BY DEF Inv
<1>2. pc # <<"queue", "start">> /\ pc # <<"queue", "stop">>
  BY <1>1 DEF Places
<1>3. Queues(batch, pending)'
  BY LeaveQueues
<1>4. /\ Queued \subseteq Queued'
      /\ \A h \in Queued' :
           \/ h \in Queued
           \/ h \in Functors /\ h[1] \in {"setClose", "forceClose"} /\ h[2] \in Attempts
  BY LeaveQueues
<1>5. TypeOK' /\ Places'
  <2>1. Queued' \subseteq Functors
    BY <1>3, QueuedTypes DEF Queued
  <2> QED  BY <1>1, <2>1 DEF TypeOK, Places, Functors
<1>6. Sockets'
  BY <1>1 DEF Sockets, Live
<1>7. StartOnce'
  <2>1. pc' # <<"queue", "start">> /\ Starting' => Starting
    BY <1>1, <1>4 DEF Starting
  <2> QED  BY <1>1, <1>2, <1>4, <2>1 DEF StartOnce, Starting
<1>8. DestroyOnce'
  BY <1>1, <1>4 DEF DestroyOnce
<1>9. Owner'
  BY <1>1, <1>4 DEF Owner
<1>10. Stopping'
  BY <1>1, <1>2, <1>4 DEF Stopping
<1> QED  BY <1>3, <1>5, <1>6, <1>7, <1>8, <1>9, <1>10 DEF Inv

\* removeAndResetChannel() and its functor.
LEMMA ResetQueued ==
  ASSUME Inv, Queue("reset", None), batch' = batch \/ (batch # <<>> /\ batch' = Tail(batch))
  PROVE  /\ Queues(batch, pending)' /\ Queued' \subseteq Queued \cup {<<"reset", None>>}
         /\ \A f \in Queued : f \in Queued' \/ (f = Head(batch) /\ batch' # batch)
<1>1. <<"reset", None>> \in Functors /\ \A g \in Queued : ~Same(g, <<"reset", None>>)
  BY DEF Functors, Ops, Same
<1>2. pending' = Append(pending, <<"reset", None>>)
  BY DEF Queue
<1>3. CASE batch' = batch
  BY <1>1, <1>2, <1>3, Adds DEF Inv
<1>4. CASE batch # <<>> /\ batch' = Tail(batch)
  <2>1. batch' # batch
    BY <1>4, LenProperties, HeadTailProperties DEF Inv, Queues
  <2> QED  BY <1>1, <1>2, <1>4, <2>1, TakesAndAdds DEF Inv
<1> QED  BY <1>3, <1>4

\* handleWrite()
LEMMA AttemptEnds ==
  ASSUME Inv, NEW a \in Attempts, AttemptFails(a) \/ AttemptSucceeds(a)
  PROVE  Inv'
<1> USE DEF client, user
<1>1. TypeOK /\ Places /\ Sockets /\ StartOnce /\ DestroyOnce /\ Owner /\ Stopping
  BY DEF Inv
<1>2. /\ at = "events" /\ todo = "return" /\ state = "kConnecting" /\ a \in watched
      /\ UNCHANGED <<client, connect, channel, made, kept, closeCb, at, batch, user>>
      /\ active' \subseteq active /\ handling' = a
      /\ watched' = watched \ {a} /\ Queue("reset", None)
  BY DEF AttemptFails, AttemptSucceeds, Writable, Free, Disarm
<1>3. watched = {a} /\ fd[a] = "connecting" /\ \A b \in Attempts : Live(b) => b = a
  BY <1>1, <1>2 DEF Sockets, Live
<1>4. Closed(a) = [fd EXCEPT ![a] = "closed"]
  BY <1>3 DEF Closed
<1>5. /\ Queues(batch, pending)' /\ Queued \subseteq Queued'
      /\ Queued' \subseteq Queued \cup {<<"reset", None>>}
  BY <1>2, ResetQueued
<1>6. \/ /\ fd' = [fd EXCEPT ![a] = "closed"]
         /\ \/ state' = "kDisConnected" /\ todo' \in {"return", "start"}
            \/ state' = "kConnected" /\ todo' = "return"
      \/ fd' = fd /\ state' = "kConnected" /\ todo' = "newConnection"
  BY <1>2, <1>4 DEF AttemptFails, AttemptSucceeds, Retry
<1>7. fd' \in [Attempts -> {"unused", "connecting", "failed", "owned", "up", "down", "removed",
                            "closed", "doubly"}]
  BY <1>1, <1>6 DEF TypeOK
<1>8. TypeOK' /\ Places'
  <2>1. Queued' \subseteq Functors
    BY <1>5, QueuedTypes DEF Queued
  <2>2. a # None
    BY AttemptsAreNumbers
  <2> QED  BY <1>1, <1>2, <1>6, <1>7, <2>1, <2>2 DEF TypeOK, Places, Functors
<1>9. Sockets'
  <2>1. \A b \in Attempts : Live(b)' => b = a /\ fd' = fd
    BY <1>1, <1>3, <1>6 DEF Live, TypeOK
  <2>2. \A b \in Attempts : b > made' => fd'[b] = "unused"
    BY <1>1, <1>2, <1>3, <1>6 DEF Sockets, TypeOK
  <2>3. \A b \in Attempts : fd'[b] = "connecting" => todo' = "newConnection"
    BY <1>1, <1>3, <1>6 DEF TypeOK, Live
  <2>4. watched' = {}
    BY <1>2, <1>3
  <2> QED  BY <1>2, <1>3, <1>6, <2>1, <2>2, <2>3, <2>4 DEF Sockets
<1>10. StartOnce'
  BY <1>1, <1>2, <1>5 DEF StartOnce, Starting
<1>11. DestroyOnce'
  BY <1>1, <1>3, <1>5, <1>6 DEF DestroyOnce, TypeOK
<1>12. Owner'
  BY <1>1, <1>2, <1>3, <1>5, <1>6 DEF Owner, TypeOK
<1>13. Stopping'
  BY <1>6 DEF Stopping
<1> QED  BY <1>5, <1>8, <1>9, <1>10, <1>11, <1>12, <1>13 DEF Inv

\* stopInLoop()
LEMMA StopStep ==
  ASSUME Inv, StopInLoop
  PROVE  Inv'
<1> USE DEF client, user
<1>1. TypeOK /\ Places /\ Sockets /\ StartOnce /\ DestroyOnce /\ Owner /\ Stopping
  BY DEF Inv
<1>2. /\ at = "functors" /\ todo = "return" /\ handling = None
      /\ batch # <<>> /\ batch' = Tail(batch) /\ Head(batch)[1] = "stop"
      /\ UNCHANGED <<client, connect, channel, made, kept, closeCb, at, active, handling, user>>
  BY DEF StopInLoop, Starts, Free
<1>3. CASE state = "kConnecting"
  <2>1. channel \in Attempts /\ watched = {channel} /\ fd[channel] = "connecting"
    BY <1>1, <1>3 DEF StopInLoop, Sockets, None
  <2>2. /\ Queue("reset", None) /\ watched' = {}
        /\ fd' = [fd EXCEPT ![channel] = "closed"]
        /\ state' = "kDisConnected" /\ todo' \in {"return", "start"}
    BY <1>3, <2>1 DEF StopInLoop, Disarm, Retry, Closed
  <2>3. /\ Queues(batch, pending)' /\ Queued' \subseteq Queued \cup {<<"reset", None>>}
        /\ \A f \in Queued : f \in Queued' \/ f[1] = "stop"
    BY <1>2, <2>2, ResetQueued
  <2>4. fd' \in [Attempts -> {"unused", "connecting", "failed", "owned", "up", "down", "removed",
                              "closed", "doubly"}]
    BY <1>1, <2>2 DEF TypeOK
  <2>5. TypeOK' /\ Places'
    <3>1. Queued' \subseteq Functors
      BY <2>3, QueuedTypes DEF Queued
    <3> QED  BY <1>1, <1>2, <2>2, <2>4, <3>1 DEF TypeOK, Places, Functors
  <2>6. Sockets'
    <3>1. \A b \in Attempts : ~Live(b)'
      BY <1>1, <2>1, <2>2 DEF Live, TypeOK, Sockets
    <3>2. \A b \in Attempts : b > made' => fd'[b] = "unused"
      BY <1>1, <1>2, <2>1, <2>2 DEF Sockets, TypeOK
    <3> QED  BY <1>2, <2>2, <3>1, <3>2 DEF Sockets
  <2>7. StartOnce'
    BY <1>1, <1>2, <1>3, <2>3 DEF StartOnce, Starting
  <2>8. DestroyOnce'
    BY <1>1, <2>1, <2>2, <2>3 DEF DestroyOnce, TypeOK
  <2>9. Owner'
    BY <1>1, <1>2, <2>1, <2>2, <2>3 DEF Owner, TypeOK
  <2>10. Stopping'
    BY <2>2 DEF Stopping
  <2> QED  BY <2>3, <2>5, <2>6, <2>7, <2>8, <2>9, <2>10 DEF Inv
<1>4. CASE state # "kConnecting"
  <2>1. UNCHANGED <<state, fd, watched, todo, pending>>
    BY <1>4 DEF StopInLoop
  <2>2. /\ Queues(batch, pending)' /\ Queued' \subseteq Queued
        /\ \A f \in Queued : f \in Queued' \/ f[1] = "stop"
    BY <1>2, <2>1, Takes DEF Inv
  <2>3. TypeOK' /\ Places'
    BY <1>1, <1>2, <2>1, <2>2 DEF TypeOK, Places
  <2>4. Sockets'
    BY <1>1, <1>2, <2>1 DEF Sockets, Live
  <2>5. StartOnce'
    BY <1>1, <1>2, <2>1, <2>2 DEF StartOnce, Starting
  <2>6. (DestroyOnce /\ Owner /\ Stopping)'
    BY <1>1, <1>2, <1>4, <2>1, <2>2 DEF DestroyOnce, Owner, Stopping
  <2> QED  BY <2>2, <2>3, <2>4, <2>5, <2>6 DEF Inv
<1> QED  BY <1>3, <1>4

\* A connection goes down, in a handler or in forceCloseInLoop().
LEMMA DownStep ==
  ASSUME Inv, NEW a \in Attempts, GoesDown(a), fd[a] = "up", ~CloseCbDangles(a),
         at \in {"events", "functors"}, todo = "return", handling = None,
         UNCHANGED <<reconnect, wanted, gone, connector, made, watched, closeCb, at, handling, user>>,
         active' \subseteq active,
         \/ at = "events" /\ batch' = batch
         \/ at = "functors" /\ batch # <<>> /\ batch' = Tail(batch) /\ Head(batch)[1] = "forceClose"
  PROVE  Inv'
<1> USE DEF connector, user
<1>1. TypeOK /\ Places /\ Sockets /\ StartOnce /\ DestroyOnce /\ Owner /\ Stopping
  BY DEF Inv
<1> DEFINE f == <<"destroy", a>>
<1>2. f \in Functors /\ f[1] = "destroy" /\ f[2] = a /\ \A g \in Queued : ~Same(g, f)
  <2>1. f \notin Queued
    BY <1>1 DEF DestroyOnce
  <2> QED  BY <2>1 DEF Functors, Ops, Same
<1>3. pending' = Append(pending, f)
  BY DEF GoesDown, Queue
<1> HIDE DEF f
<1>4. /\ Queues(batch, pending)' /\ Queued' \subseteq Queued \cup {f}
      /\ \A g \in Queued : g \in Queued' \/ g[1] = "forceClose"
  <2>1. CASE batch' = batch
    BY <1>2, <1>3, <2>1, Adds DEF Inv
  <2>2. CASE batch # <<>> /\ batch' = Tail(batch) /\ Head(batch)[1] = "forceClose"
    BY <1>2, <1>3, <2>2, TakesAndAdds DEF Inv
  <2> QED  BY <2>1, <2>2
<1>5. /\ fd' = [fd EXCEPT ![a] = "down"]
      /\ kept' \in {kept, None} /\ conn' \in {conn, None} /\ todo' \in {"return", "restart"}
      /\ closeCb[a] = "client" => conn' = None
      /\ closeCb[a] # "client" => UNCHANGED <<conn, todo>>
  BY DEF GoesDown
<1>6. state = "kConnected" /\ watched = {} /\ \A b \in Attempts : Live(b) => b = a
  BY <1>1 DEF Sockets, Live, TypeOK
<1>7. conn' = None
  <2>1. CASE gone
    BY <1>1, <1>5, <2>1 DEF Owner
  <2>2. CASE ~gone
    BY <1>1, <1>5, <2>2 DEF Owner
  <2> QED  BY <2>1, <2>2
<1>8. TypeOK' /\ Places'
  <2>1. Queued' \subseteq Functors
    BY <1>4, QueuedTypes DEF Queued
  <2>2. fd' \in [Attempts -> {"unused", "connecting", "failed", "owned", "up", "down", "removed",
                              "closed", "doubly"}]
    BY <1>1, <1>5 DEF TypeOK
  <2> QED  BY <1>1, <1>5, <1>7, <2>1, <2>2 DEF TypeOK, Places, Functors
<1>9. Sockets'
  <2>1. \A b \in Attempts : ~Live(b)'
    BY <1>1, <1>5, <1>6 DEF Live, TypeOK
  <2>2. \A b \in Attempts : b > made' => fd'[b] = "unused"
    BY <1>1, <1>5 DEF Sockets, TypeOK
  <2>3. \A b \in Attempts : fd'[b] # "connecting"
    BY <2>1 DEF Live
  <2> QED  BY <1>5, <1>6, <2>1, <2>2, <2>3 DEF Sockets
<1>10. StartOnce'
  <2>1. ~Starting
    BY <1>1, <1>6 DEF StartOnce
  <2>2. ~Starting'
    BY <1>2, <1>4, <2>1 DEF Starting
  <2> QED  BY <1>1, <1>2, <1>4, <2>2 DEF StartOnce, Starting
<1>11. DestroyOnce'
  BY <1>1, <1>2, <1>4, <1>5 DEF DestroyOnce, TypeOK
<1>12. Owner'
  <2>1. \A b \in Attempts : fd'[b] \notin {"owned", "up"}
    BY <1>1, <1>5, <1>6 DEF Live, TypeOK
  <2> QED  BY <1>1, <1>2, <1>4, <1>7, <2>1 DEF Owner
<1>13. Stopping'
  BY <1>6 DEF Stopping
<1> QED  BY <1>4, <1>8, <1>9, <1>10, <1>11, <1>12, <1>13 DEF Inv

\* The two ways for a connection to go down.
LEMMA CloseSteps ==
  ASSUME Inv, ForceClose \/ \E a \in Attempts : PeerCloses(a)
  PROVE  Inv'
<1>1. CASE \E a \in Attempts : PeerCloses(a)
  <2>1. PICK a \in Attempts : PeerCloses(a)
    BY <1>1
  <2> QED  BY <2>1, DownStep DEF PeerCloses, Ended, Free
<1>2. CASE ForceClose
  <2> USE DEF connector, user
  <2>1. /\ at = "functors" /\ todo = "return" /\ handling = None
        /\ batch # <<>> /\ batch' = Tail(batch) /\ Head(batch)[1] = "forceClose" /\ Of = Head(batch)[2]
        /\ UNCHANGED <<reconnect, wanted, gone, connector, made, watched, closeCb, at, active,
                        handling, user>>
    BY <1>2 DEF ForceClose, Starts, Free, Of
  <2>2. Of \in Attempts
    <3>1. Head(batch) \in Queued
      BY <2>1, HeadTaken DEF Inv, Queues, Queued
    <3> QED  BY <2>1, <3>1 DEF Inv, Owner
  <2>3. CASE fd[Of] = "up"
    BY <1>2, <2>1, <2>2, <2>3, DownStep DEF ForceClose
  <2>4. CASE fd[Of] # "up"
    <3>1. UNCHANGED <<fd, kept, pending, conn, todo>>
      BY <1>2, <2>4 DEF ForceClose
    <3>2. /\ Queues(batch, pending)' /\ Queued' \subseteq Queued
          /\ \A f \in Queued : f \in Queued' \/ f[1] = "forceClose"
      BY <2>1, <3>1, Takes DEF Inv
    <3>3. (TypeOK /\ Places)'
      BY <2>1, <3>1, <3>2 DEF Inv, TypeOK, Places
    <3>4. Sockets'
      BY <2>1, <3>1 DEF Inv, Sockets, Live
    <3>5. (StartOnce /\ DestroyOnce /\ Owner /\ Stopping)'
      BY <2>1, <3>1, <3>2 DEF Inv, StartOnce, Starting, DestroyOnce, Owner, Stopping
    <3> QED  BY <3>2, <3>3, <3>4, <3>5 DEF Inv
  <2> QED  BY <2>3, <2>4
<1> QED  BY <1>1, <1>2

LEMMA Invariance == Spec => []Inv
<1>1. Inv /\ [Next]_vars => Inv'
  <2> SUFFICES ASSUME Inv, [Next]_vars PROVE Inv'
    OBVIOUS
  <2>1. CASE \/ StartFunctor \/ ResetFunctor \/ SetCloseCallback \/ ConnectDestroyed
    BY <2>1, FunctorSteps
  <2>2. CASE DoNotConnect \/ Connecting \/ Refused \/ Fails
    BY <2>2, ConnectingSteps
  <2>3. CASE NewConnection \/ Establish \/ HandlerReturns \/ Restart
    BY <2>3, HandlerSteps
  <2>4. CASE UsesDestroyed \/ CloseUsesDestroyed \/ \E a \in Attempts : DanglingEvent(a)
    BY <2>4, UndefinedStep DEF UsesDestroyed, CloseUsesDestroyed, DanglingEvent
  <2>5. CASE StopInLoop
    BY <2>5, StopStep
  <2>6. CASE ForceClose \/ \E a \in Attempts : PeerCloses(a)
    BY <2>6, CloseSteps
  <2>7. CASE \E a \in Attempts : AttemptFails(a) \/ AttemptSucceeds(a)
    BY <2>7, AttemptEnds
  <2>8. CASE \/ \E A \in SUBSET (watched \cup Ups) : Poll(A)
             \/ TakePending \/ EndBatch
    BY <2>8, LoopSteps
  <2>9. CASE Connect \/ Disconnect \/ Stop \/ Destroy \/ StopConnector
    BY <2>9, CallSteps
  <2>10. CASE QueueStartOrStop
    BY <2>10, QueueSteps
  <2>11. CASE LeaveConnection
    BY <2>11, LeaveStep
  <2>12. CASE UNCHANGED vars
    <3> USE <2>12 DEF vars, client, connector, sockets, loop, user
    <3>1. Queues(batch, pending)' /\ Queued' = Queued
      BY QuietQueue DEF Inv
    <3>2. (TypeOK /\ Places /\ Sockets)'
      BY <3>1 DEF Inv, TypeOK, Places, Sockets, Live
    <3>3. (StartOnce /\ DestroyOnce /\ Owner /\ Stopping)'
      BY <3>1 DEF Inv, StartOnce, Starting, DestroyOnce, Owner, Stopping
    <3> QED  BY <3>1, <3>2, <3>3 DEF Inv
  <2> QED
    BY <2>1, <2>2, <2>3, <2>4, <2>5, <2>6, <2>7, <2>8, <2>9, <2>10, <2>11, <2>12
       DEF Next, LoopStep, UserStep
<1> QED  BY <1>1, InvInitially, PTL DEF Spec

\* Types: both threads are at places that fit together, and loop() comes back to
\* poll() only with every functor of doPendingFunctors() done.
THEOREM TypeCorrect == Spec => []TypeOK
<1>1. Inv => TypeOK
  BY DEF Inv
<1> QED  BY <1>1, Invariance, PTL

\* Whatever attempts fail and however retry(), restart() of a reconnect, stop(),
\* disconnect() and ~TcpClient overlap: a socket is closed once, by the connector
\* or by its connection, never while the poller watches it, and the client has one
\* at a time (Connector.cc, and TcpClient.cc:123-172).
THEOREM OneOwnerForEachSocket == Spec => []SocketsAreOwned
<1>1. ASSUME Inv PROVE SocketsAreOwned
  <2>1. TypeOK /\ Sockets /\ DestroyOnce /\ Owner
    BY <1>1 DEF Inv
  <2>2. ClosedOnce
    BY <2>1 DEF ClosedOnce, DestroyOnce, Sockets, TypeOK
  <2>3. OneAtATime
    <3>1. \A a, b \in Busy : a = b
      BY <2>1 DEF Busy, Ups, Sockets, Live
    <3>2. CASE Busy = {}
      BY <3>2, FS_EmptySet DEF OneAtATime
    <3>3. CASE Busy # {}
      <4>1. PICK a \in Busy : Busy = {a}
        BY <3>1, <3>3
      <4>2. Cardinality(Busy) = 1
        BY <4>1, FS_Singleton, Zenon
      <4> QED  BY <4>2 DEF OneAtATime
    <3> QED  BY <3>2, <3>3
  <2>4. ConnectionIsOwned
    BY <2>1, AttemptsAreNumbers DEF ConnectionIsOwned, Owner
  <2> QED  BY <2>2, <2>3, <2>4 DEF SocketsAreOwned
<1> QED  BY <1>1, Invariance, PTL

\* A connector that was told to stop, by stop() or by ~TcpClient, and has done what
\* was queued for it has no attempt open, unless a queued resetChannel() has
\* destroyed the channel that stopInLoop() would have closed.
THEOREM StoppedConnectorIsQuiet == Spec => []StoppedIsQuiet
<1>1. ASSUME Inv PROVE StoppedIsQuiet
  <2> SUFFICES ASSUME at = "poll", pending = <<>>, ~connect, pc[1] \in {"idle", "end"},
                      NEW a \in Attempts, fd[a] = "connecting"
               PROVE  channel # a
    BY DEF StoppedIsQuiet
  <2>1. TypeOK /\ Places /\ Sockets /\ Stopping
    BY <1>1 DEF Inv
  <2>2. Queued = {} /\ pc # <<"queue", "stop">> /\ todo = "return"
    BY <2>1, EmptyQueue DEF Places, Queued
  <2>3. state = "kConnecting"
    BY <2>1, <2>2 DEF TypeOK, Sockets, Live
  <2> QED  BY <2>1, <2>2, <2>3, AttemptsAreNumbers DEF Stopping
<1> QED  BY <1>1, Invariance, PTL
-----------------------------------------------------------------------------
(* A client that is to connect never waits for nothing: what Perseveres    *)
(* adds to this is fairness.                                               *)

\* The client is to connect, and nothing that its connector cannot help has happened.
Wishes == ToConnect /\ (\A a \in Attempts : fd[a] # "failed") /\ at # "undefined"

\* An attempt is in progress, or the next one is still to be made.
Trying ==
  \/ state = "kConnecting" \/ todo \in {"start", "restart", "newConnection"}
  \/ pc = <<"queue", "start">> \/ \E f \in Queued : f[1] = "start"

\* The client is destroyed only by its destructor.
Leaves == gone \/ pc[1] = "destroy" => "destroy" \in did

Persevering == Leaves /\ (Wishes => Trying)

\* When loop() sleeps with nothing queued, a client that is to connect has an attempt
\* whose end the poller is watching for.
SleepsOnAttempt ==
  at = "poll" /\ pending = <<>> /\ pc # <<"queue", "start">> /\ Wishes => watched # {}

\* Steps of the loop's thread that make a next attempt, or find that there is none.
LEMMA AttemptsPersevere ==
  ASSUME Inv, Persevering,
         \/ DoNotConnect \/ Connecting \/ Refused \/ Fails
         \/ \E a \in Attempts : AttemptFails(a) \/ AttemptSucceeds(a)
         \/ StartFunctor \/ Restart \/ NewConnection
  PROVE  Persevering'
<1> USE DEF client, connector, sockets, user
<1>1. Leaves'
  <2>1. gone' = gone /\ pc' = pc /\ did' = did
    BY DEF DoNotConnect, Connecting, Refused, Fails, AttemptFails, AttemptSucceeds, StartFunctor,
           Restart, NewConnection
  <2> QED  BY <2>1 DEF Persevering, Leaves
<1>2. CASE Connecting \/ StartFunctor \/ Restart
  BY <1>1, <1>2 DEF Connecting, StartFunctor, Restart, Persevering, Trying
<1>3. CASE DoNotConnect
  BY <1>1, <1>3 DEF DoNotConnect, Persevering, Wishes, ToConnect
<1>4. CASE Refused \/ \E a \in Attempts : AttemptFails(a) \/ AttemptSucceeds(a)
  <2>1. connect' = connect /\ (connect => todo' \in {"start", "newConnection"})
    BY <1>4 DEF Refused, AttemptFails, AttemptSucceeds, Attempt, Retry
  <2> QED  BY <1>1, <2>1 DEF Persevering, Wishes, ToConnect, Trying
<1>5. CASE Fails
  <2>1. made' \in Attempts /\ fd' = [fd EXCEPT ![made'] = "failed"]
    BY <1>5, AttemptsAreNumbers DEF Fails, Attempt, Inv, TypeOK
  <2>2. fd'[made'] = "failed"
    BY <2>1 DEF Inv, TypeOK
  <2> QED  BY <1>1, <2>1, <2>2 DEF Persevering, Wishes
<1>6. CASE NewConnection
  <2>1. conn' = handling /\ handling # None
    BY <1>6 DEF NewConnection, Inv, Places
  <2> QED  BY <1>1, <2>1 DEF Persevering, Wishes, ToConnect
<1> QED  BY <1>2, <1>3, <1>4, <1>5, <1>6

\* Functors other than startInLoop() leave it in the queue.
LEMMA FunctorsPersevere ==
  ASSUME Inv, Persevering, ResetFunctor \/ SetCloseCallback \/ ConnectDestroyed \/ StopInLoop
  PROVE  Persevering'
<1> USE DEF client, connector, sockets, user
<1>1. /\ batch # <<>> /\ batch' = Tail(batch) /\ Head(batch)[1] # "start"
      /\ UNCHANGED <<reconnect, wanted, conn, gone, connect, pc, did, at>>
  BY DEF ResetFunctor, SetCloseCallback, ConnectDestroyed, StopInLoop, Starts
<1>2. Leaves'
  BY <1>1 DEF Persevering, Leaves
<1>3. CASE StopInLoop /\ state = "kConnecting"
  <2>1. connect => todo' = "start"
    BY <1>3 DEF StopInLoop, Retry
  <2> QED  BY <1>1, <1>2, <2>1 DEF Persevering, Wishes, ToConnect, Trying
<1>4. CASE ~(StopInLoop /\ state = "kConnecting")
  <2>1. pending' = pending /\ todo' = todo /\ state' = state
    BY <1>4 DEF ResetFunctor, SetCloseCallback, ConnectDestroyed, StopInLoop
  <2>2. \A f \in Queued : f[1] = "start" => f \in Queued'
    BY <1>1, <2>1, Takes DEF Inv
  <2>3. Trying => Trying'
    BY <1>1, <2>1, <2>2 DEF Trying
  <2>4. Wishes' => Wishes
    <3>1. CASE ConnectDestroyed
      <4>1. Head(batch) \in Queued
        BY <1>1, HeadTaken DEF Inv, Queues, Queued
      <4>2. Of \in Attempts /\ fd[Of] = "down" /\ fd' = [fd EXCEPT ![Of] = "removed"]
        BY <3>1, <4>1 DEF ConnectDestroyed, Starts, Of, Inv, DestroyOnce
      <4>3. fd'[Of] = "removed" /\ \A a \in Attempts : fd'[a] = fd[a] \/ fd[a] = "down"
        BY <4>2 DEF Inv, TypeOK
      <4> QED  BY <1>1, <4>2, <4>3 DEF Wishes, ToConnect
    <3>2. CASE ResetFunctor \/ SetCloseCallback \/ StopInLoop
      <4>1. fd' = fd
        BY <1>4, <3>2 DEF ResetFunctor, SetCloseCallback, StopInLoop
      <4> QED  BY <1>1, <4>1 DEF Wishes, ToConnect
    <3> QED  BY <3>1, <3>2
  <2> QED  BY <1>2, <2>3, <2>4 DEF Persevering
<1> QED  BY <1>3, <1>4

\* A connection that goes down is followed by restart(), or by nothing if the client
\* does not reconnect.
LEMMA DownPerseveres ==
  ASSUME Inv, Persevering, NEW a \in Attempts, GoesDown(a), todo = "return",
         UNCHANGED <<reconnect, wanted, gone, connect, did, pc, state>>
  PROVE  Persevering'
<1>1. Leaves'
  BY DEF Persevering, Leaves
<1>2. ASSUME Wishes' PROVE Trying'
  <2>1. fd'[a] = "down"
    BY DEF GoesDown, Inv, TypeOK
  <2>2. reconnect /\ wanted
    BY <1>2, <2>1 DEF Wishes, ToConnect
  <2>3. closeCb[a] = "client"
    BY <1>2 DEF Wishes, ToConnect, Persevering, Leaves, Inv, Owner
  <2>4. todo' = "restart"
    BY <2>2, <2>3 DEF GoesDown
  <2> QED  BY <2>4 DEF Trying
<1> QED  BY <1>1, <1>2 DEF Persevering

LEMMA ClosePerseveres ==
  ASSUME Inv, Persevering, ForceClose \/ \E a \in Attempts : PeerCloses(a)
  PROVE  Persevering'
<1> USE DEF connector, user
<1>1. CASE \E a \in Attempts : PeerCloses(a)
  <2>1. PICK a \in Attempts : PeerCloses(a)
    BY <1>1
  <2> QED  BY <2>1, DownPerseveres DEF PeerCloses, Ended, Free
<1>2. CASE ForceClose
  <2>1. /\ todo = "return" /\ batch # <<>> /\ batch' = Tail(batch) /\ Head(batch)[1] = "forceClose"
        /\ UNCHANGED <<reconnect, wanted, gone, connect, state, at, did, pc>>
    BY <1>2 DEF ForceClose, Starts, Free
  <2>2. Of \in Attempts
    <3>1. Head(batch) \in Queued
      BY <2>1, HeadTaken DEF Inv, Queues, Queued
    <3> QED  BY <2>1, <3>1 DEF Inv, Owner, Of
  <2>3. CASE fd[Of] = "up"
    BY <1>2, <2>1, <2>2, <2>3, DownPerseveres DEF ForceClose
  <2>4. CASE fd[Of] # "up"
    <3>1. UNCHANGED <<fd, pending, conn, todo>>
      BY <1>2, <2>4 DEF ForceClose
    <3>2. \A f \in Queued : f[1] = "start" => f \in Queued'
      BY <2>1, <3>1, Takes DEF Inv
    <3> QED  BY <2>1, <3>1, <3>2 DEF Persevering, Leaves, Wishes, ToConnect, Trying
  <2> QED  BY <2>3, <2>4
<1> QED  BY <1>1, <1>2

\* What else the loop's thread does.
LEMMA LoopPerseveres ==
  ASSUME Inv, Persevering,
         \/ HandlerReturns \/ TakePending \/ EndBatch
         \/ \E A \in SUBSET (watched \cup Ups) : Poll(A)
  PROVE  Persevering'
<1> USE DEF client, connector, sockets, user
<1>1. /\ UNCHANGED <<client, connector, sockets, user, todo>> /\ at # "undefined"
  <2>1. at # "undefined"
    BY DEF HandlerReturns, TakePending, EndBatch, Poll, Inv, Places
  <2> QED  BY <2>1 DEF HandlerReturns, TakePending, EndBatch, Poll
<1>2. Queued' = Queued
  <2>1. CASE TakePending
    <3>1. batch = <<>> /\ batch' = pending /\ pending' = <<>>
      BY <2>1 DEF TakePending, Inv, Places
    <3> QED  BY <3>1, EmptyQueue DEF Queued
  <2>2. CASE UNCHANGED <<batch, pending>>
    BY <2>2 DEF Queued
  <2>3. TakePending \/ UNCHANGED <<batch, pending>>
    BY DEF HandlerReturns, EndBatch, Poll
  <2> QED  BY <2>1, <2>2, <2>3
<1>3. Leaves' /\ (Trying => Trying')
  BY <1>1, <1>2 DEF Persevering, Leaves, Trying
<1>4. Wishes' => Wishes
  BY <1>1 DEF Wishes, ToConnect
<1> QED  BY <1>3, <1>4 DEF Persevering

\* Calls of the user's thread: what they queue starts the connector, or the client is
\* not to connect any more.
LEMMA CallsPersevere ==
  ASSUME Inv, Persevering,
         \/ Connect \/ Disconnect \/ Stop \/ Destroy \/ StopConnector
         \/ LeaveConnection \/ QueueStartOrStop
  PROVE  Persevering'
<1> USE DEF client, connector, sockets, user, loop
<1>1. CASE Connect
  BY <1>1 DEF Connect, Calls, Persevering, Leaves, Trying
<1>2. CASE Disconnect
  BY <1>2 DEF Disconnect, Calls, Persevering, Leaves, Wishes, ToConnect
<1>3. CASE Stop
  BY <1>3 DEF Stop, Calls, Persevering, Leaves, Wishes, ToConnect
<1>4. CASE Destroy
  BY <1>4 DEF Destroy, Calls, Persevering, Leaves, Wishes, ToConnect
<1>5. CASE StopConnector \/ LeaveConnection
  <2>1. pc[1] = "destroy" /\ did' = did
    BY <1>5 DEF StopConnector, LeaveConnection
  <2> QED  BY <2>1 DEF Persevering, Leaves, Wishes, ToConnect
<1>6. CASE QueueStartOrStop
  <2>1. /\ did' = did /\ pc' \in {<<"idle">>, <<"end">>}
        /\ UNCHANGED <<reconnect, wanted, connect, state, fd, at, todo, batch>>
        /\ pending' = Append(pending, <<pc[2], None>>)
    BY <1>6 DEF QueueStartOrStop, Queue
  <2>2. Leaves' /\ ("destroy" \notin did => conn' = conn)
    <3>1. gone' <=> "destroy" \in did
      BY <1>6, Zenon DEF QueueStartOrStop
    <3>2. ~gone' => conn' = conn
      BY <1>6 DEF QueueStartOrStop
    <3>3. pc'[1] # "destroy"
      BY <2>1
    <3> QED  BY <2>1, <3>1, <3>2, <3>3 DEF Leaves
  <2>3. pc[2] \in {"start", "stop"} /\ (pc = <<"queue", "start">> => pc[2] = "start")
    BY <1>6 DEF QueueStartOrStop, Inv, Places
  <2>4. <<pc[2], None>> \in Functors
    BY <2>3 DEF Functors, Ops
  <2>5. \A g \in Queued : ~Same(g, <<pc[2], None>>)
    <3>1. pc[2] = "start" => \A g \in Queued : g[1] # "start"
      BY <1>6 DEF QueueStartOrStop, Inv, Places, StartOnce
    <3> QED  BY <2>3, <3>1 DEF Same
  <2>6. Queued' = Queued \cup {<<pc[2], None>>}
    BY <2>1, <2>4, <2>5, Adds DEF Inv
  <2>7. Trying => Trying'
    BY <2>1, <2>3, <2>6 DEF Trying
  <2>8. Wishes' => Wishes
    BY <2>1, <2>2 DEF Wishes, ToConnect
  <2> QED  BY <2>2, <2>7, <2>8 DEF Persevering
<1> QED  BY <1>1, <1>2, <1>3, <1>4, <1>5, <1>6

LEMMA AlwaysPersevering == Spec => []Persevering
<1>1. Init => Persevering
  BY DEF Init, Persevering, Leaves, Wishes, ToConnect
<1>2. Inv /\ Persevering /\ [Next]_vars => Persevering'
  <2> SUFFICES ASSUME Inv, Persevering, [Next]_vars
               PROVE  Persevering'
    OBVIOUS
  <2>1. CASE UsesDestroyed \/ CloseUsesDestroyed \/ \E a \in Attempts : DanglingEvent(a)
    <3>1. Undefined
      BY <2>1 DEF UsesDestroyed, CloseUsesDestroyed, DanglingEvent
    <3> QED  BY <3>1 DEF Undefined, client, user, Persevering, Leaves, Wishes
  <2>2. CASE UNCHANGED vars
    BY <2>2 DEF vars, client, connector, sockets, loop, user, Persevering, Leaves, Wishes, ToConnect,
                Trying, Queued
  <2>3. CASE Establish
    <3>1. /\ handling \in Attempts /\ fd[handling] = "owned"
          /\ UNCHANGED <<client, connector, at, pc, did, batch, pending>>
          /\ fd' = [fd EXCEPT ![handling] = "up"]
      BY <2>3 DEF Establish, user, Inv, Places, TypeOK, Sockets
    <3>2. gone \/ (conn = handling /\ conn # None)
      BY <3>1, AttemptsAreNumbers DEF Inv, Owner
    <3> QED  BY <3>1, <3>2 DEF client, connector, Persevering, Leaves, Wishes, ToConnect
  <2> QED
    BY <2>1, <2>2, <2>3, AttemptsPersevere, FunctorsPersevere, ClosePerseveres, LoopPerseveres,
       CallsPersevere DEF Next, LoopStep, UserStep
<1> QED  BY <1>1, <1>2, Invariance, PTL DEF Spec

\* Whatever attempts fail, however often a connection goes down and is restarted, and
\* wherever disconnect() and stop() fall: as long as the client is to connect, loop()
\* goes to sleep with nothing queued only when the poller watches an attempt.
THEOREM NeverAsleepForNothing == Spec => []SleepsOnAttempt
<1>1. ASSUME Inv, Persevering PROVE SleepsOnAttempt
  <2> SUFFICES ASSUME at = "poll", pending = <<>>, pc # <<"queue", "start">>, Wishes
               PROVE  watched # {}
    BY DEF SleepsOnAttempt
  <2>1. batch = <<>> /\ todo = "return"
    BY <1>1 DEF Inv, Places
  <2>2. Queued = {}
    BY <2>1, EmptyQueue DEF Queued
  <2>3. state = "kConnecting"
    BY <1>1, <2>1, <2>2 DEF Persevering, Trying
  <2> QED  BY <1>1, <2>3 DEF Inv, Sockets
<1> QED  BY <1>1, Invariance, AlwaysPersevering, PTL
-----------------------------------------------------------------------------
(* A destroyed client leaves nothing that waits for nothing: what          *)
(* NothingIsLeft adds to this is fairness.                                 *)

\* A connection that is not up yet comes up in the handler that has made it, and one
\* that is down is taken out of the poller by a connectDestroyed() that waits.
Left ==
  \A a \in Attempts : /\ fd[a] = "owned" => todo = "establish" /\ handling = a
                      /\ fd[a] = "down" => <<"destroy", a>> \in Queued

\* When loop() sleeps with nothing queued, a destroyed client has left no connection half
\* up or half down; the end of an attempt that is open will be reported; and a connection
\* whose socket is open is the user's, or the one that ~TcpClient has made refer to itself.
EndIsQuiet ==
  gone /\ at = "poll" /\ pending = <<>>
    => \A a \in Attempts : /\ fd[a] \notin {"owned", "down"}
                           /\ fd[a] = "connecting" => a \in watched
                           /\ fd[a] \in {"up", "removed"} /\ Held(a) => kept = a \/ closeCb[a] = "detail"

\* Steps after which nothing is owned that was not, and no connectDestroyed() is gone.
LEMMA LeftAlone ==
  ASSUME Left,
         \A a \in Attempts : fd'[a] = "owned" => fd[a] = "owned" /\ todo # "establish",
         \A a \in Attempts : fd'[a] = "down" => fd[a] = "down",
         \A f \in Queued : f[1] = "destroy" => f \in Queued'
  PROVE  Left'
<1>1. \A a \in Attempts : <<"destroy", a>>[1] = "destroy"
  OBVIOUS
<1> QED  BY <1>1 DEF Left

\* Steps of the connector: they leave a connection to itself.
LEMMA ConnectorLeaves ==
  ASSUME Inv, Left,
         \/ StartFunctor \/ DoNotConnect \/ Connecting \/ Refused \/ Fails \/ Restart
         \/ StopInLoop \/ ResetFunctor \/ SetCloseCallback
         \/ \E a \in Attempts : AttemptFails(a) \/ AttemptSucceeds(a)
  PROVE  Left'
<1> USE DEF client, connector, sockets, user
<1>1. todo # "establish"
  BY DEF StartFunctor, DoNotConnect, Connecting, Refused, Fails, Attempt, Restart, StopInLoop,
         ResetFunctor, SetCloseCallback, Starts, Free, AttemptFails, AttemptSucceeds, Writable
<1>2. \A a \in Attempts : fd'[a] \in {"owned", "down"} => fd[a] = fd'[a]
  <2>1. CASE Connecting \/ Refused \/ Fails
    <3>1. fd' \in {[fd EXCEPT ![made'] = r] : r \in {"connecting", "closed", "failed"}}
      BY <2>1 DEF Connecting, Refused, Fails, Attempt
    <3> QED  BY <3>1 DEF Inv, TypeOK
  <2>2. CASE \/ StartFunctor \/ DoNotConnect \/ Restart \/ ResetFunctor \/ SetCloseCallback
    BY <2>2 DEF StartFunctor, DoNotConnect, Restart, ResetFunctor, SetCloseCallback
  <2>3. CASE StopInLoop \/ \E a \in Attempts : AttemptFails(a) \/ AttemptSucceeds(a)
    <3>1. fd' = fd \/ \E b \in Attempts \cup {None} : fd' = Closed(b)
      BY <2>3 DEF StopInLoop, AttemptFails, AttemptSucceeds, Retry, Inv, TypeOK
    <3>2. \A a \in Attempts, b \in Attempts \cup {None} :
            Closed(b)[a] \in {fd[a], "closed", "doubly"}
      BY DEF Closed, Inv, TypeOK
    <3> QED  BY <3>1, <3>2
  <2> QED  BY <2>1, <2>2, <2>3
<1>3. \A f \in Queued : f[1] = "destroy" => f \in Queued'
  <2>1. CASE DoNotConnect \/ Connecting \/ Refused \/ Fails \/ Restart
    BY <2>1 DEF DoNotConnect, Connecting, Refused, Fails, Restart, Queued
  <2>2. CASE \E a \in Attempts : AttemptFails(a) \/ AttemptSucceeds(a)
    <3>1. batch' = batch /\ Queue("reset", None)
      BY <2>2 DEF AttemptFails, AttemptSucceeds, Disarm
    <3> QED  BY <3>1, ResetQueued
  <2>3. CASE StartFunctor \/ ResetFunctor \/ SetCloseCallback \/ StopInLoop
    <3>1. batch # <<>> /\ batch' = Tail(batch) /\ Head(batch)[1] # "destroy"
      BY <2>3 DEF StartFunctor, ResetFunctor, SetCloseCallback, StopInLoop, Starts
    <3>2. CASE pending' = pending
      BY <3>1, <3>2, Takes DEF Inv
    <3>3. CASE pending' = Append(pending, <<"reset", None>>)
      <4>1. <<"reset", None>> \in Functors /\ \A g \in Queued : ~Same(g, <<"reset", None>>)
        BY DEF Functors, Ops, Same
      <4> QED  BY <3>1, <3>3, <4>1, TakesAndAdds DEF Inv
    <3> QED
      BY <2>3, <3>2, <3>3
      DEF StartFunctor, ResetFunctor, SetCloseCallback, StopInLoop, Disarm, Queue
  <2> QED  BY <2>1, <2>2, <2>3
<1> QED  BY <1>1, <1>2, <1>3, LeftAlone

\* Steps in the life of a connection.
LEMMA ConnectionLeaves ==
  ASSUME Inv, Left,
         \/ NewConnection \/ Establish \/ ConnectDestroyed \/ ForceClose
         \/ \E a \in Attempts : PeerCloses(a)
  PROVE  Left'
<1> USE DEF client, connector, sockets, user
<1>1. CASE NewConnection
  <2>1. /\ todo = "newConnection" /\ todo' = "establish" /\ handling' = handling
        /\ fd' = [fd EXCEPT ![handling] = "owned"] /\ Queued' = Queued
    BY <1>1 DEF NewConnection, Queued
  <2>2. \A a \in Attempts : fd'[a] = fd[a] \/ (a = handling /\ fd'[a] = "owned")
    BY <2>1 DEF Inv, TypeOK
  <2> QED  BY <2>1, <2>2 DEF Left
<1>2. CASE Establish
  <2>1. fd' = [fd EXCEPT ![handling] = "up"] /\ Queued' = Queued
    BY <1>2 DEF Establish, Queued
  <2>2. \A a \in Attempts : fd'[a] = "up" \/ (a # handling /\ fd'[a] = fd[a])
    BY <2>1 DEF Inv, TypeOK
  <2>3. \A a \in Attempts : fd'[a] # "owned" /\ (fd'[a] = "down" => fd[a] = "down")
    BY <2>2 DEF Left
  <2> QED  BY <2>1, <2>3, LeftAlone
<1>3. CASE ConnectDestroyed
  <2>1. /\ batch # <<>> /\ batch' = Tail(batch) /\ pending' = pending /\ todo # "establish"
        /\ fd' = [fd EXCEPT ![Of] = IF @ = "down" THEN "removed" ELSE "doubly"]
        /\ Head(batch)[1] = "destroy"
    BY <1>3 DEF ConnectDestroyed, Starts, Free
  <2>2. Head(batch) \in Functors /\ Queued = Queued' \cup {Head(batch)}
    BY <2>1, Takes DEF Inv
  <2>3. \A a \in Attempts : fd'[a] \in {"owned", "down"} => fd[a] = fd'[a] /\ a # Of
    BY <2>1 DEF Inv, TypeOK
  <2>4. \A a \in Attempts : a # Of => <<"destroy", a>> # Head(batch)
    BY DEF Of
  <2> QED  BY <2>1, <2>2, <2>3, <2>4 DEF Left
<1>4. ASSUME NEW a \in Attempts, GoesDown(a), todo = "return",
             \A f \in Queued : f[1] = "destroy" => f \in Queued', <<"destroy", a>> \in Queued'
      PROVE  Left'
  <2>1. \A b \in Attempts : fd'[b] = (IF b = a THEN "down" ELSE fd[b])
    BY <1>4 DEF GoesDown, Inv, TypeOK
  <2>2. \A b \in Attempts : <<"destroy", b>>[1] = "destroy"
    OBVIOUS
  <2> QED  BY <1>4, <2>1, <2>2 DEF Left
<1>5. \A a \in Attempts : fd[a] = "up" =>
        <<"destroy", a>> \in Functors /\ \A g \in Queued : ~Same(g, <<"destroy", a>>)
  BY DEF Functors, Ops, Same, Inv, DestroyOnce
<1>6. CASE \E a \in Attempts : PeerCloses(a)
  <2>1. PICK a \in Attempts : PeerCloses(a)
    BY <1>6
  <2>2. /\ fd[a] = "up" /\ GoesDown(a) /\ todo = "return" /\ batch' = batch
        /\ pending' = Append(pending, <<"destroy", a>>)
    BY <2>1 DEF PeerCloses, Ended, Free, GoesDown, Queue
  <2>3. Queued' = Queued \cup {<<"destroy", a>>}
    BY <1>5, <2>2, Adds DEF Inv
  <2> QED  BY <1>4, <2>2, <2>3
<1>7. CASE ForceClose
  <2>1. /\ todo = "return" /\ batch # <<>> /\ batch' = Tail(batch) /\ Head(batch)[1] = "forceClose"
    BY <1>7 DEF ForceClose, Starts, Free
  <2>2. Of \in Attempts
    <3>1. Head(batch) \in Queued
      BY <2>1, HeadTaken DEF Inv, Queues, Queued
    <3> QED  BY <2>1, <3>1 DEF Inv, Owner, Of
  <2>3. CASE fd[Of] = "up"
    <3>1. GoesDown(Of) /\ pending' = Append(pending, <<"destroy", Of>>)
      BY <1>7, <2>3 DEF ForceClose, GoesDown, Queue
    <3>2. Queued \cup {<<"destroy", Of>>} \subseteq Queued' \cup {Head(batch)}
      BY <1>5, <2>1, <2>2, <2>3, <3>1, TakesAndAdds DEF Inv
    <3>3. <<"destroy", Of>>[1] = "destroy"
      OBVIOUS
    <3>4. <<"destroy", Of>> \in Queued' /\ \A f \in Queued : f[1] = "destroy" => f \in Queued'
      BY <2>1, <3>2, <3>3
    <3> QED  BY <1>4, <2>1, <2>2, <3>1, <3>4
  <2>4. CASE fd[Of] # "up"
    <3>1. UNCHANGED <<fd, pending>>
      BY <1>7, <2>4 DEF ForceClose
    <3>2. \A f \in Queued : f[1] = "destroy" => f \in Queued'
      BY <2>1, <3>1, Takes DEF Inv
    <3> QED  BY <2>1, <3>1, <3>2, LeftAlone
  <2> QED  BY <2>3, <2>4
<1> QED  BY <1>1, <1>2, <1>3, <1>6, <1>7

\* Steps that touch no connection: of loop(), into undefined behaviour, and of the user.
LEMMA OthersLeave ==
  ASSUME Inv, Left,
         \/ HandlerReturns \/ TakePending \/ EndBatch
         \/ \E A \in SUBSET (watched \cup Ups) : Poll(A)
         \/ UsesDestroyed \/ CloseUsesDestroyed \/ \E a \in Attempts : DanglingEvent(a)
         \/ Connect \/ Disconnect \/ Stop \/ Destroy \/ StopConnector
         \/ LeaveConnection \/ QueueStartOrStop
         \/ UNCHANGED vars
  PROVE  Left'
<1> USE DEF client, connector, sockets, loop, user
<1>1. CASE \/ HandlerReturns \/ EndBatch
           \/ \E A \in SUBSET (watched \cup Ups) : Poll(A)
  <2>1. todo = "return" /\ fd' = fd /\ Queued' = Queued
    BY <1>1 DEF HandlerReturns, EndBatch, Poll, Free, Queued
  <2> QED  BY <2>1, LeftAlone
<1>2. CASE TakePending
  <2>1. todo = "return" /\ fd' = fd /\ batch = <<>> /\ batch' = pending /\ pending' = <<>>
    BY <1>2 DEF TakePending, Free, Inv, Places
  <2>2. Queued' = Queued
    BY <2>1, EmptyQueue DEF Queued
  <2> QED  BY <2>1, <2>2, LeftAlone
<1>3. CASE UsesDestroyed \/ CloseUsesDestroyed \/ \E a \in Attempts : DanglingEvent(a)
  <2>1. Undefined /\ todo # "establish"
    BY <1>3 DEF UsesDestroyed, CloseUsesDestroyed, DanglingEvent, Writable, Ended, Starts, Free
  <2>2. fd' = fd /\ Queued' = Queued
    BY <2>1 DEF Undefined, Queued
  <2> QED  BY <2>1, <2>2, LeftAlone
<1>4. ASSUME UNCHANGED <<fd, todo, handling>>, Queued \subseteq Queued'
      PROVE  Left'
  BY <1>4 DEF Left
<1>5. CASE \/ Connect \/ Disconnect \/ Stop \/ Destroy \/ StopConnector \/ UNCHANGED vars
  <2>1. UNCHANGED <<fd, todo, handling>> /\ Queued' = Queued
    BY <1>5 DEF Connect, Disconnect, Stop, Destroy, StopConnector, vars, Queued
  <2> QED  BY <1>4, <2>1
<1>6. CASE QueueStartOrStop
  <2>1. /\ UNCHANGED <<fd, todo, handling, batch>>
        /\ pending' = Append(pending, <<pc[2], None>>)
    BY <1>6 DEF QueueStartOrStop, Queue
  <2>2. pc[2] \in {"start", "stop"} /\ (pc = <<"queue", "start">> <=> pc[2] = "start")
    BY <1>6 DEF QueueStartOrStop, Inv, Places
  <2>3. <<pc[2], None>> \in Functors /\ \A g \in Queued : ~Same(g, <<pc[2], None>>)
    BY <2>2 DEF Functors, Ops, Same, Inv, StartOnce
  <2>4. Queued' = Queued \cup {<<pc[2], None>>}
    BY <2>1, <2>3, Adds DEF Inv
  <2> QED  BY <1>4, <2>1, <2>4
<1>7. CASE LeaveConnection
  <2>1. UNCHANGED <<fd, todo, handling, batch>>
    BY <1>7 DEF LeaveConnection
  <2> QED  BY <1>4, <1>7, <2>1, LeaveQueues
<1> QED  BY <1>1, <1>2, <1>3, <1>5, <1>6, <1>7

LEMMA AlwaysLeft == Spec => []Left
<1>1. Init => Left
  BY DEF Init, Left
<1>2. Inv /\ Left /\ [Next]_vars => Left'
  BY ConnectorLeaves, ConnectionLeaves, OthersLeave DEF Next, LoopStep, UserStep
<1> QED  BY <1>1, <1>2, Invariance, PTL DEF Spec

\* However the end of the client falls among attempts, retries, a connection that comes up
\* or goes down, and stop(): once it is destroyed and loop() sleeps with nothing queued,
\* a socket is open only if the poller watches the attempt, the user keeps its connection,
\* or its connection refers to itself by the close callback of TcpClient.cc:64.
THEOREM NothingIsForgotten == Spec => []EndIsQuiet
<1>1. ASSUME Inv, Left PROVE EndIsQuiet
  <2> SUFFICES ASSUME gone, at = "poll", pending = <<>>, NEW a \in Attempts
               PROVE  /\ fd[a] \notin {"owned", "down"}
                      /\ fd[a] = "connecting" => a \in watched
                      /\ Held(a) => kept = a \/ closeCb[a] = "detail"
    BY DEF EndIsQuiet
  <2>1. todo = "return" /\ Queued = {}
    BY <1>1, EmptyQueue DEF Inv, Places, Queued
  <2>2. conn = None /\ pc[1] = "end"
    BY <1>1 DEF Inv, Owner
  <2>3. Held(a) => kept = a \/ closeCb[a] = "detail"
    BY <2>1, <2>2, AttemptsAreNumbers DEF Held
  <2>4. ASSUME fd[a] = "connecting" PROVE a \in watched
    <3>1. state = "kConnecting"
      BY <1>1, <2>1, <2>4 DEF Inv, TypeOK, Sockets, Live
    <3> QED  BY <1>1, <2>4, <3>1 DEF Inv, Sockets, Live
  <2> QED  BY <1>1, <2>1, <2>3, <2>4 DEF Left
<1> QED  BY <1>1, Invariance, AlwaysLeft, PTL
=============================================================================
