----------------------------- MODULE TcpClient -----------------------------
(***************************************************************************)
(* A TcpClient with its Connector: the thread of their loop, and a user's  *)
(* thread that calls connect(), disconnect(), stop() and at last destroys  *)
(* the client, as testClient.cc does.                                      *)
(*                                                                         *)
(* Each call of Connector::connect() makes a socket of its own, numbered   *)
(* by the attempt.  A Channel or TcpConnection is named by its socket.     *)
(* What a TcpConnection does between up and down is in TcpConnection; here *)
(* it comes up, may go down, and counts its references.                    *)
(*                                                                         *)
(* Once the code uses an object that does not exist, anything may happen:  *)
(* the model stops in at = "undefined".                                    *)
(***************************************************************************)
EXTENDS Naturals, Sequences, FiniteSets, SequencesExt

CONSTANT MaxAttempts      \* bound: how many sockets the connector makes

ASSUME AttemptsAssumption == MaxAttempts \in Nat \ {0}

Attempts == 1..MaxAttempts
None == 0

VARIABLES
  reconnect,    \* retry_ of the client
  wanted,       \* connect_ of the client
  conn,         \* connection_ of the client
  gone,         \* the client has been destroyed
  connect,      \* connect_ of the connector
  state,        \* state_ of the connector
  channel,      \* channel_ of the connector: the socket it is for
  made,         \* how many attempts there were
  fd,           \* what has become of each socket
  watched,      \* sockets the poller watches for the connector
  kept,         \* the user's own reference to a connection
  closeCb,      \* closeCallback_ of each connection: "client" or "detail"
  at,           \* where loop() is
  active,       \* sockets with events that are still to be handled
  handling,     \* the connector's channel whose handleEvent() is running
  todo,         \* what the handler or functor has to go on with
  batch,        \* functors doPendingFunctors() has still to run
  pending,      \* pendingFunctors_
  pc,           \* where the user's thread is
  did           \* what the user's thread has called

client    == <<reconnect, wanted, conn, gone>>
connector == <<connect, state, channel>>
sockets   == <<made, fd, watched, kept, closeCb>>
loop      == <<at, active, handling, todo, batch, pending>>
user      == <<pc, did>>
vars      == <<client, connector, sockets, loop, user>>

\* Both constructors; enableRetry() may have been called.
Init ==
  /\ reconnect \in BOOLEAN /\ wanted = TRUE /\ conn = None /\ gone = FALSE
  /\ connect = FALSE /\ state = "kDisConnected" /\ channel = None
  /\ made = 0 /\ fd = [a \in Attempts |-> "unused"] /\ watched = {}
  /\ kept = None /\ closeCb = [a \in Attempts |-> "client"]
  /\ at = "poll" /\ active = {} /\ handling = None /\ todo = "return"
  /\ batch = <<>> /\ pending = <<>>
  /\ pc = <<"idle">> /\ did = {}

Queue(op, a) == pending' = Append(pending, <<op, a>>)

Queued == ToSet(batch) \cup ToSet(pending)

\* Something refers to the connection of socket a; otherwise its object is no more,
\* and its socket is closed.
Held(a) ==
  \/ conn = a \/ kept = a
  \/ todo = "establish" /\ handling = a
  \/ \E f \in Queued : f[2] = a
  \/ pc[1] = "destroy" /\ pc[2] = a
  \/ closeCb[a] = "detail"

\* close(): only the socket of an attempt is the connector's to close.
Closed(a) == [fd EXCEPT ![a] = IF @ = "connecting" THEN "closed" ELSE "doubly"]

Undefined ==
  /\ at' = "undefined" /\ todo' = "return" /\ handling' = None
  /\ UNCHANGED <<client, connector, sockets, active, batch, pending, user>>
-----------------------------------------------------------------------------
(* The loop's thread: connecting.                                           *)

Free == todo = "return" /\ handling = None
Starts(op) == at = "functors" /\ Free /\ batch # <<>> /\ Head(batch)[1] = op
Of == Head(batch)[2]

\* startInLoop(), as a functor and called by retry() and restart().
StartFunctor ==
  /\ Starts("start")
  /\ batch' = Tail(batch)
  /\ todo' = "start"
  /\ UNCHANGED <<client, connector, sockets, at, active, handling, pending, user>>

DoNotConnect ==
  /\ todo = "start" /\ ~connect
  /\ todo' = "return"
  /\ UNCHANGED <<client, connector, sockets, at, active, handling, batch, pending, user>>

Attempt(result) ==
  /\ todo = "start" /\ connect /\ made < MaxAttempts
  /\ made' = made + 1
  /\ fd' = [fd EXCEPT ![made'] = result]

\* connecting(): the new channel takes the place of the old one.
Connecting ==
  /\ Attempt("connecting")
  /\ state' = "kConnecting"
  /\ channel' = made'
  /\ watched' = watched \cup {made'}
  /\ todo' = "return"
  /\ UNCHANGED <<client, connect, kept, closeCb, at, active, handling, batch, pending, user>>

\* Mutant of Refused: retry() gives up.
RefusedGivesUp ==
  /\ Attempt("closed")
  /\ state' = "kDisConnected"
  /\ todo' = "return"
  /\ UNCHANGED <<client, connect, channel, watched, kept, closeCb, at, active, handling,
                 batch, pending, user>>

\* connect() fails in a way that retry() is for: the socket is closed, and
\* while the thread sleeps connect_ may change.
Refused ==
  /\ Attempt("closed")
  /\ state' = "kDisConnected"
  /\ todo' = IF connect THEN "start" ELSE "return"
  /\ UNCHANGED <<client, connect, channel, watched, kept, closeCb, at, active, handling,
                 batch, pending, user>>

\* connect() fails otherwise: only the socket is closed.
Fails ==
  /\ Attempt("failed")
  /\ todo' = "return"
  /\ UNCHANGED <<client, connector, watched, kept, closeCb, at, active, handling, batch,
                 pending, user>>

\* removeAndResetChannel(): the channel leaves the poller, and is to be
\* destroyed later.
Disarm(a) ==
  /\ watched' = watched \ {a}
  /\ Queue("reset", None)

\* Mutant of Retry: leaves state_ as it is.
RetryKeepsState(a) ==
  /\ fd' = Closed(a)
  /\ todo' = IF connect THEN "start" ELSE "return"
  /\ UNCHANGED state

\* retry() of an attempt that was in progress.
Retry(a) ==
  /\ fd' = Closed(a)
  /\ state' = "kDisConnected"
  /\ todo' = IF connect THEN "start" ELSE "return"

Writable(a) == at = "events" /\ Free /\ a \in active /\ a \in watched

\* The event of a channel that does not exist: resetChannel() has destroyed it, or its
\* connection came up while ~TcpClient saw none, and went with the client.
DanglingEvent(a) ==
  /\ at = "events" /\ Free /\ a \in active
  /\ (a \in watched /\ channel # a) \/ (fd[a] = "up" /\ ~Held(a))
  /\ Undefined

\* handleWrite(): SO_ERROR is set, or the socket is connected to itself.
AttemptFails(a) ==
  /\ Writable(a) /\ channel = a /\ state = "kConnecting"
  /\ active' = active \ {a} /\ handling' = a
  /\ Disarm(a)
  /\ Retry(a)
  /\ UNCHANGED <<client, connect, channel, made, kept, closeCb, at, batch, user>>

\* handleWrite(): the socket is connected.
AttemptSucceeds(a) ==
  /\ Writable(a) /\ channel = a /\ state = "kConnecting"
  /\ active' = active \ {a} /\ handling' = a
  /\ Disarm(a)
  /\ state' = "kConnected"
  /\ IF connect THEN todo' = "newConnection" /\ UNCHANGED fd
                ELSE fd' = Closed(a) /\ UNCHANGED todo
  /\ UNCHANGED <<client, connect, channel, made, kept, closeCb, at, batch, user>>

\* TcpClient::newConnection(), a callback bound to a raw this ...
NewConnection ==
  /\ todo = "newConnection" /\ ~gone
  /\ fd' = [fd EXCEPT ![handling] = "owned"]
  /\ closeCb' = [closeCb EXCEPT ![handling] = "client"]
  /\ conn' = handling
  /\ todo' = "establish"
  /\ UNCHANGED <<reconnect, wanted, gone, connector, made, watched, kept, at, active,
                 handling, batch, pending, user>>

\* ... and connectEstablished(), whose callback may keep the connection.
Establish ==
  /\ todo = "establish"
  /\ fd' = [fd EXCEPT ![handling] = "up"]
  /\ kept' \in {kept, handling}
  /\ todo' = "return"
  /\ UNCHANGED <<client, connector, made, watched, closeCb, at, active, handling, batch,
                 pending, user>>

HandlerReturns ==
  /\ handling # None /\ todo = "return"
  /\ handling' = None
  /\ UNCHANGED <<client, connector, sockets, at, active, todo, batch, pending, user>>

\* resetChannel(): whatever channel_ is by now.
ResetFunctor ==
  /\ Starts("reset")
  /\ batch' = Tail(batch)
  /\ channel' = None
  /\ UNCHANGED <<client, connect, state, sockets, at, active, handling, todo, pending, user>>

\* Mutant of StopInLoop: only connect_ stops the connector.
StopIgnored ==
  /\ Starts("stop")
  /\ batch' = Tail(batch)
  /\ UNCHANGED <<client, connector, sockets, at, active, handling, todo, pending, user>>

\* stopInLoop()
StopInLoop ==
  /\ Starts("stop") /\ (state = "kConnecting" => channel # None)
  /\ batch' = Tail(batch)
  /\ IF state = "kConnecting"
     THEN Disarm(channel) /\ Retry(channel)
     ELSE UNCHANGED <<state, fd, watched, todo, pending>>
  /\ UNCHANGED <<client, connect, channel, made, kept, closeCb, at, active, handling, user>>

\* Connector::restart()
Restart ==
  /\ todo = "restart" /\ ~gone
  /\ state' = "kDisConnected"
  /\ connect' = TRUE
  /\ todo' = "start"
  /\ UNCHANGED <<client, channel, sockets, at, active, handling, batch, pending, user>>

\* A callback of a client that has been destroyed, or stopInLoop() without a
\* channel.
UsesDestroyed ==
  /\ \/ gone /\ todo \in {"newConnection", "restart"}
     \/ Starts("stop") /\ state = "kConnecting" /\ channel = None
  /\ Undefined
-----------------------------------------------------------------------------
(* The loop's thread: a connection that goes down.                          *)

\* Mutant of GoesDown: connectDestroyed is not queued.
GoesDownUnqueued(a) ==
  /\ fd' = [fd EXCEPT ![a] = "down"]
  /\ kept' = IF kept = a THEN None ELSE kept
  /\ IF closeCb[a] = "client"
     THEN /\ conn' = None
          /\ todo' = IF reconnect /\ wanted THEN "restart" ELSE todo
     ELSE UNCHANGED <<conn, todo>>
  /\ UNCHANGED pending

\* handleClose(): the down callback drops the user's reference, and the close
\* callback is TcpClient::removeConnection() or detail::removeConnection().
GoesDown(a) ==
  /\ fd' = [fd EXCEPT ![a] = "down"]
  /\ kept' = IF kept = a THEN None ELSE kept
  /\ Queue("destroy", a)
  /\ IF closeCb[a] = "client"
     THEN /\ conn' = None
          /\ todo' = IF reconnect /\ wanted THEN "restart" ELSE todo
     ELSE UNCHANGED <<conn, todo>>

CloseCbDangles(a) == fd[a] = "up" /\ closeCb[a] = "client" /\ gone

Ended(a) == at = "events" /\ Free /\ a \in active /\ fd[a] = "up" /\ Held(a)

\* The peer has closed the connection, or shutdown() has made it do so.
PeerCloses(a) ==
  /\ Ended(a) /\ ~CloseCbDangles(a)
  /\ active' = active \ {a}
  /\ GoesDown(a)
  /\ UNCHANGED <<reconnect, wanted, gone, connector, made, watched, closeCb, at, handling,
                 batch, user>>

\* forceCloseInLoop()
ForceClose ==
  /\ Starts("forceClose") /\ ~CloseCbDangles(Of)
  /\ batch' = Tail(batch)
  /\ IF fd[Of] = "up" THEN GoesDown(Of) ELSE UNCHANGED <<fd, kept, pending, conn, todo>>
  /\ UNCHANGED <<reconnect, wanted, gone, connector, made, watched, closeCb, at, active,
                 handling, user>>

CloseUsesDestroyed ==
  /\ \/ \E a \in Attempts : Ended(a) /\ CloseCbDangles(a)
     \/ Starts("forceClose") /\ CloseCbDangles(Of)
  /\ Undefined

\* TcpConnection::setCloseCallback() for the destructor of the client.  The callback is
\* bound to the connection it is stored in, which refers to itself from now on.
SetCloseCallback ==
  /\ Starts("setClose")
  /\ batch' = Tail(batch)
  /\ closeCb' = [closeCb EXCEPT ![Of] = "detail"]
  /\ UNCHANGED <<client, connector, made, fd, watched, kept, at, active, handling, todo,
                 pending, user>>

\* connectDestroyed() of a connection that is down: its channel leaves the poller.
ConnectDestroyed ==
  /\ Starts("destroy")
  /\ batch' = Tail(batch)
  /\ fd' = [fd EXCEPT ![Of] = IF @ = "down" THEN "removed" ELSE "doubly"]
  /\ UNCHANGED <<client, connector, made, watched, kept, closeCb, at, active, handling,
                 todo, pending, user>>
-----------------------------------------------------------------------------
(* The loop's thread: loop().                                               *)

Ups == {a \in Attempts : fd[a] = "up" /\ Held(a)}

\* poll() returns for sockets A, or because a functor is queued.
Poll(A) ==
  /\ at = "poll" /\ Free
  /\ A # {} \/ pending # <<>>
  /\ active' = A /\ at' = "events"
  /\ UNCHANGED <<client, connector, sockets, handling, todo, batch, pending, user>>

TakePending ==
  /\ at = "events" /\ Free /\ active = {}
  /\ at' = "functors" /\ batch' = pending /\ pending' = <<>>
  /\ UNCHANGED <<client, connector, sockets, active, handling, todo, user>>

\* Mutant of EndBatch: back to poll() with functors left.
EndBatchEarly ==
  /\ at = "functors" /\ Free
  /\ at' = "poll"
  /\ UNCHANGED <<client, connector, sockets, active, handling, todo, batch, pending, user>>

\* doPendingFunctors() has run its batch.
EndBatch ==
  /\ at = "functors" /\ Free /\ batch = <<>>
  /\ at' = "poll"
  /\ UNCHANGED <<client, connector, sockets, active, handling, todo, batch, pending, user>>
-----------------------------------------------------------------------------
(* The user's thread.                                                       *)

Calls(op) == at # "undefined" /\ pc = <<"idle">> /\ op \notin did /\ did' = did \cup {op}

\* connect(), once: TcpClient.cc:84 leaves it to the caller.
Connect ==
  /\ Calls("connect")
  /\ wanted' = TRUE /\ connect' = TRUE
  /\ pc' = <<"queue", "start">>
  /\ UNCHANGED <<reconnect, conn, gone, state, channel, sockets, loop>>

\* disconnect(): shutdown() of the connection is in TcpConnection.
Disconnect ==
  /\ Calls("disconnect") /\ "connect" \in did
  /\ wanted' = FALSE
  /\ UNCHANGED <<reconnect, conn, gone, connector, sockets, loop, pc>>

\* stop()
Stop ==
  /\ Calls("stop") /\ "connect" \in did
  /\ wanted' = FALSE /\ connect' = FALSE
  /\ pc' = <<"queue", "stop">>
  /\ UNCHANGED <<reconnect, conn, gone, state, channel, sockets, loop>>

\* start() and stop(): the functor.  The destructor ends with it.
QueueStartOrStop ==
  /\ at # "undefined" /\ pc[1] = "queue"
  /\ Queue(pc[2], None)
  /\ pc' = IF "destroy" \in did THEN <<"end">> ELSE <<"idle">>
  /\ gone' = ("destroy" \in did)
  /\ conn' = IF gone' THEN None ELSE conn
  /\ UNCHANGED <<reconnect, wanted, connector, sockets, at, active, handling, todo,
                 batch, did>>

\* ~TcpClient: connection_ and connection_.unique() under the mutex ...
Destroy ==
  /\ Calls("destroy")
  /\ pc' = <<"destroy", conn, ~(kept = conn \/ (todo = "establish" /\ handling = conn)
                               \/ \E f \in Queued : f[2] = conn)>>
  /\ UNCHANGED <<client, connector, sockets, loop>>

\* ... with a connection: set its close callback, close it if nobody else has it ...
LeaveConnection ==
  /\ at # "undefined" /\ pc[1] = "destroy" /\ pc[2] # None
  /\ pending' = pending \o <<<<"setClose", pc[2]>>>>
                        \o (IF pc[3] /\ fd[pc[2]] = "up" THEN <<<<"forceClose", pc[2]>>>> ELSE <<>>)
  /\ gone' = TRUE /\ conn' = None
  /\ pc' = <<"end">>
  /\ UNCHANGED <<reconnect, wanted, connector, sockets, at, active, handling, todo, batch, did>>

\* ... and without one: stop the connector.
StopConnector ==
  /\ at # "undefined" /\ pc[1] = "destroy" /\ pc[2] = None
  /\ connect' = FALSE
  /\ pc' = <<"queue", "stop">>
  /\ UNCHANGED <<client, state, channel, sockets, loop, did>>
-----------------------------------------------------------------------------
LoopStep ==
  \/ StartFunctor \/ DoNotConnect \/ Connecting \/ Refused \/ Fails
  \/ NewConnection \/ Establish \/ HandlerReturns
  \/ ResetFunctor \/ StopInLoop \/ Restart \/ UsesDestroyed
  \/ ForceClose \/ CloseUsesDestroyed \/ SetCloseCallback \/ ConnectDestroyed
  \/ TakePending \/ EndBatch
  \/ \E a \in Attempts : \/ DanglingEvent(a) \/ AttemptFails(a) \/ AttemptSucceeds(a)
                         \/ PeerCloses(a)

\* A connection attempt comes to an end, and a queued functor wakes the loop.
PollDue == \E A \in SUBSET watched : Poll(A)

UserStep == QueueStartOrStop \/ LeaveConnection \/ StopConnector

Next ==
  \/ LoopStep
  \/ \E A \in SUBSET (watched \cup Ups) : Poll(A)
  \/ UserStep \/ Connect \/ Disconnect \/ Stop \/ Destroy

Spec == Init /\ [][Next]_vars

(***************************************************************************)
(* Fairness: both threads are scheduled, sleeps end, and the kernel lets   *)
(* no connection attempt last for ever.  Nobody need close a connection or *)
(* call anything.                                                          *)
(***************************************************************************)
FairSpec == Spec /\ WF_vars(LoopStep) /\ WF_vars(PollDue) /\ WF_vars(UserStep)
-----------------------------------------------------------------------------
(* Properties.                                                              *)

Ops == {"start", "stop", "reset", "destroy", "setClose", "forceClose"}

\* Types; loop() comes back to poll() only when every functor is done.
TypeOK ==
  /\ reconnect \in BOOLEAN /\ wanted \in BOOLEAN /\ connect \in BOOLEAN /\ gone \in BOOLEAN
  /\ {conn, channel, kept, handling} \subseteq Attempts \cup {None}
  /\ state \in {"kDisConnected", "kConnecting", "kConnected"}
  /\ made \in 0..MaxAttempts
  /\ fd \in [Attempts -> {"unused", "connecting", "failed", "owned", "up", "down", "removed",
                      "closed", "doubly"}]
  /\ watched \subseteq Attempts /\ active \subseteq Attempts
  /\ closeCb \in [Attempts -> {"client", "detail"}]
  /\ at \in {"poll", "events", "functors", "undefined"}
  /\ todo \in {"return", "start", "restart", "newConnection", "establish"}
  /\ Queued \subseteq Ops \X (Attempts \cup {None})
  /\ did \subseteq {"connect", "disconnect", "stop", "destroy"}
  /\ pc[1] \in {"idle", "queue", "destroy", "end"}
  /\ at = "poll" => batch = <<>> /\ todo = "return"

\* No socket is closed twice or by the wrong owner: not by retry() and
\* stopInLoop(), not by the connector once a connection has it; and none is
\* closed or handed over while the poller watches it.
ClosedOnce ==
  \A a \in Attempts : fd[a] # "doubly" /\ (a \in watched => fd[a] = "connecting")

\* However retries, reconnects and stop() overlap, the client has one socket
\* at a time that is connecting or connected.
Busy == {a \in Attempts : fd[a] \in {"connecting", "owned"}} \cup Ups
OneAtATime == Cardinality(Busy) <= 1

\* A connection that is up has an owner that will close it, as long as the
\* client exists; one that is down is not the client's any more.
ConnectionIsOwned ==
  ~gone => \A a \in Attempts : /\ fd[a] = "up" => conn = a
                               /\ fd[a] \in {"down", "removed"} => conn # a

\* Every socket has one owner, the connector or a connection, and the client has
\* one such socket at a time (the three parts above).
SocketsAreOwned == ClosedOnce /\ OneAtATime /\ ConnectionIsOwned

\* Once a stopped connector has nothing left to do, no attempt is open, unless
\* resetChannel() has destroyed its channel.
StoppedIsQuiet ==
  at = "poll" /\ pending = <<>> /\ ~connect /\ pc[1] \in {"idle", "end"}
    => \A a \in Attempts : fd[a] = "connecting" => channel # a

\* What Connector.cc:127 says: the channel must not be destroyed yet, being in
\* Channel::handleEvent.  Violated when the attempt has failed: retry() starts the
\* next one from the handler, and connecting() replaces the channel.
HandledChannelExists == handling # None => channel = handling

\* A client that is to connect does: it is connected in the end, unless it is
\* told otherwise, connect() fails for good, or its channel is lost.
ToConnect == wanted /\ connect /\ conn = None /\ "destroy" \notin did
             /\ (reconnect \/ \A a \in Attempts : fd[a] \in {"unused", "connecting", "closed"})
Perseveres ==
  ToConnect ~> \/ conn # None \/ ~wanted \/ ~connect \/ "destroy" \in did
               \/ made = MaxAttempts \/ (\E a \in Attempts : fd[a] = "failed")
               \/ at = "undefined"

\* A destroyed client leaves no attempt open, and no connection half up or half down;
\* and a connection that nobody else referred to is taken down and out of the poller.
\* (Its socket stays open: see SetCloseCallback.)
GaveUp == at = "undefined" \/ made = MaxAttempts
NothingIsLeft ==
  /\ gone ~> GaveUp \/ \A a \in Attempts : fd[a] \notin {"connecting", "owned", "down"}
  /\ \A a \in Attempts : pc = <<"destroy", a, TRUE>> ~> GaveUp \/ fd[a] = "removed"
=============================================================================
