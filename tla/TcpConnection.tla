--------------------------- MODULE TcpConnection ---------------------------
(***************************************************************************)
(* One TcpConnection: the thread of its loop, which runs all its handlers  *)
(* and functors and the user's callbacks; other threads that call send(),  *)
(* shutdown() and forceClose() on it; its owner (TcpServer or TcpClient);  *)
(* and the kernel's end of the socket with the peer behind it.             *)
(*                                                                         *)
(* The loop's thread is kept as a stack of the calls it has still to make  *)
(* (todo), because user callbacks run inside handlers and call back into   *)
(* the connection.  Other threads are split where they can be preempted    *)
(* between reading state_, writing state_ and queueing a functor.          *)
(*                                                                         *)
(* A message is two bytes, <<s, k, 1>> and <<s, k, 2>> for the k-th of     *)
(* sender s; <<s, k, 0>> is the byte that precedes it in memory.           *)
(***************************************************************************)
EXTENDS Naturals, Sequences, Channel

CONSTANTS Users,          \* threads other than the loop's own
          UserOps,        \* what they call, of "send", "shutdown", "forceClose"
          Loop,           \* the loop's own thread, as a caller
          OwnerMayGo,     \* the owner may be destroyed before the connection
          HighWater,      \* highWaterMark_
          MaxCalls,       \* bound: how many calls each caller makes
          MaxUnread       \* bound: messages the peer sends

Callers == Users \cup {Loop}

ASSUME LoopAssumption == Loop \notin Users
ASSUME OwnerAssumption == OwnerMayGo \in BOOLEAN
ASSUME HighWaterAssumption == HighWater \in Nat \ {0}
ASSUME BoundsAssumption == MaxCalls \in [Callers -> Nat] /\ MaxUnread \in Nat

VARIABLES
  state,        \* state_
  events,       \* events_ of channel_
  index,        \* index_ of channel_; in the kernel's interest list if kAdded
  out,          \* readable bytes of outputBuffer_
  todo,         \* calls the loop's thread has still to make, innermost first
  batch,        \* functors doPendingFunctors() has still to run
  pending,      \* pendingFunctors_
  pc,           \* where each other thread is in its call
  calls,        \* how many calls each caller has made
  cur,          \* the message now in each other thread's buffer
  removals,     \* closeCallback_ runs the owner has still to act on
  held,         \* is it in the owner's map: "held", "removed", or "gone" with the owner
  wire,         \* bytes the kernel has taken
  room,         \* the socket's send buffer takes at least one byte
  writeShut,    \* the write end is shut down
  peer,         \* "open", "closed" (FIN received) or "reset" (RST received, or given up)
  unread,       \* received bytes wait to be read
  sent,         \* how many times the peer has sent
  sockErr,      \* SO_ERROR: "none", "fault" (EPIPE or ECONNRESET) or "other"
  accepted,     \* history: bytes sendInLoop() has written or buffered
  refused,      \* history: a direct write() has failed without faultError
  late,         \* history: another thread has stored kDisconnecting after kDisconnected
  ups, downs    \* history: connectionCallback_ runs after up, after down

conn    == <<state, events, index, out>>
loop    == <<todo, batch, pending>>
user    == <<pc, calls, cur>>
owner   == <<removals, held>>
kernel  == <<wire, room, writeShut, peer, unread, sent, sockErr>>
history == <<accepted, refused, late, ups, downs>>
vars    == <<conn, loop, user, owner, kernel, history>>

Data(s, k)   == [i \in 1..2 |-> <<s, k, i>>]
Before(s, k) == [i \in 1..2 |-> <<s, k, i - 1>>]    \* from data - 1 on

Functor(op) == [op |-> op]
SendFunctor(u, k) == [op |-> "send", from |-> u, msg |-> k]

\* TcpConnection::TcpConnection, and the owner queueing connectEstablished.
Init ==
  /\ state = "kConnecting"
  /\ events = {} /\ index = kNew
  /\ out = <<>>
  /\ todo = <<>> /\ batch = <<>> /\ pending = <<Functor("establish")>>
  /\ pc = [u \in Users |-> <<"idle">>]
  /\ calls = [c \in Callers |-> 0]
  /\ cur = [u \in Users |-> 0]
  /\ removals = 0 /\ held = "held"
  /\ wire = <<>> /\ room = TRUE /\ writeShut = FALSE
  /\ peer = "open" /\ unread = FALSE /\ sent = 0 /\ sockErr = "none"
  /\ accepted = <<>> /\ refused = FALSE /\ late = FALSE
  /\ ups = 0 /\ downs = 0
-----------------------------------------------------------------------------
(* Pieces of the handlers.  rest is what the loop's thread has to do after  *)
(* the call.                                                                *)

SetEvents(evs) == events' = evs /\ index' = IndexAfterUpdate(index, evs)

\* The last part of sendInLoop(): bytes that could not be written are
\* buffered, and the channel asks for "out".
BufferBytes(bytes) ==
  /\ out' = out \o bytes
  /\ pending' = IF Len(out) < HighWater /\ Len(out) + Len(bytes) >= HighWater
                THEN Append(pending, Functor("highWater")) ELSE pending
  /\ IF "out" \in events THEN UNCHANGED <<events, index>>
                         ELSE SetEvents(events \cup {"out"})

Broken == writeShut \/ peer = "reset"

\* sendInLoop(): the connection is down.
GiveUp(rest) ==
  /\ state = "kDisconnected"
  /\ todo' = rest
  /\ UNCHANGED <<events, index, out, pending, wire, room, sockErr, accepted, refused>>

MayWrite == state # "kDisconnected" /\ "out" \notin events /\ out = <<>>

\* write() takes the first n bytes.  When that is all of them, the write
\* complete callback is called at once: this is the loop's thread.
WriteSome(s, k, rest) ==
  /\ MayWrite /\ ~Broken /\ room
  /\ \E n \in 1..2 :
       /\ wire' = wire \o SubSeq(Data(s, k), 1, n)
       /\ room' \in (IF n < 2 THEN {FALSE} ELSE BOOLEAN)
       /\ IF n = 2
          THEN /\ todo' = <<"user">> \o rest
               /\ UNCHANGED <<events, index, out, pending>>
          ELSE /\ todo' = rest
               /\ BufferBytes(SubSeq(Data(s, k), n + 1, 2))
  /\ accepted' = accepted \o Data(s, k)
  /\ UNCHANGED <<sockErr, refused>>

\* write() returns -1, and errno is neither EPIPE nor ECONNRESET: EWOULDBLOCK or a
\* passing shortage (ENOBUFS) at any time, or what the kernel gave the connection up
\* for.  nwrote stays -1, and the bytes from data + nwrote on are buffered.
WriteRefused(s, k, rest) ==
  /\ MayWrite /\ (~Broken \/ sockErr = "other")
  /\ BufferBytes(Before(s, k))
  /\ todo' = rest
  /\ accepted' = accepted \o Data(s, k)
  /\ refused' = TRUE
  /\ sockErr' = "none"
  /\ UNCHANGED <<wire, room>>

\* write() returns -1 with EPIPE or ECONNRESET (faultError): the message is dropped.
WriteFails(rest) ==
  /\ MayWrite /\ Broken /\ sockErr # "other"
  /\ todo' = rest
  /\ sockErr' = "none"
  /\ UNCHANGED <<events, index, out, pending, wire, room, accepted, refused>>

\* Something is buffered already: the message goes behind it.
QueueBehind(s, k, rest) ==
  /\ state # "kDisconnected" /\ ~MayWrite
  /\ BufferBytes(Data(s, k))
  /\ todo' = rest
  /\ accepted' = accepted \o Data(s, k)
  /\ UNCHANGED <<wire, room, sockErr, refused>>

\* Mutant of SendInLoop: writes past what is buffered when the socket has room.
SendOvertakes(s, k, rest) ==
  /\ \/ GiveUp(rest) \/ WriteSome(s, k, rest) \/ WriteRefused(s, k, rest) \/ WriteFails(rest)
     \/ /\ state # "kDisconnected" /\ ~MayWrite /\ ~Broken /\ room
        /\ wire' = wire \o Data(s, k)
        /\ accepted' = accepted \o Data(s, k)
        /\ todo' = <<"user">> \o rest
        /\ UNCHANGED <<events, index, out, pending, room, refused, sockErr>>
  /\ UNCHANGED <<writeShut, peer, unread, sent, late, ups, downs>>

\* sendInLoop()
SendInLoop(s, k, rest) ==
  /\ \/ GiveUp(rest)
     \/ WriteSome(s, k, rest) \/ WriteRefused(s, k, rest) \/ WriteFails(rest)
     \/ QueueBehind(s, k, rest)
  /\ UNCHANGED <<writeShut, peer, unread, sent, late, ups, downs>>

\* Mutant of ShutdownInLoop: shuts the write end whatever is buffered.
ShutdownAtOnce(writing) == writeShut' = TRUE

\* shutdownInLoop(), where writing is channel_->isWriting(): while bytes are
\* buffered it is left to handleWrite().
ShutdownInLoop(writing) == writeShut' = (writeShut \/ ~writing)

\* Mutant of HandleClose: without disableAll().
CloseKeepsWatching(rest) ==
  /\ state' = "kDisconnected"
  /\ downs' = downs + 1
  /\ todo' = <<"user", "closeCallback">> \o rest
  /\ UNCHANGED <<events, index, out, accepted, refused, late, ups>>

\* handleClose()
HandleClose(rest) ==
  /\ state' = "kDisconnected"
  /\ SetEvents({})
  /\ downs' = downs + 1
  /\ todo' = <<"user", "closeCallback">> \o rest
  /\ UNCHANGED <<out, accepted, refused, late, ups>>
-----------------------------------------------------------------------------
(* The loop's thread: one iteration of loop().                              *)

\* What epoll can say about the socket.
Conditions ==
  (IF unread \/ peer # "open" THEN {"in"} ELSE {})
  \cup (IF room \/ Broken THEN {"out"} ELSE {})
  \cup (IF peer = "reset" \/ (peer = "closed" /\ writeShut) THEN {"hup"} ELSE {})
  \cup (IF sockErr # "none" THEN {"err"} ELSE {})

Revents == IF index = kAdded THEN Conditions \cap Reportable(events) ELSE {}

\* poll() returns: for an event of the channel, or because a functor was
\* queued (EventLoop shows that no such wakeup is lost).
Poll ==
  /\ todo = <<>> /\ batch = <<>>
  /\ Revents # {} \/ pending # <<>>
  /\ todo' = Callbacks(Revents) \o <<"take">>
  /\ UNCHANGED <<conn, batch, pending, user, owner, kernel, history>>

Next1(call) == todo # <<>> /\ Head(todo) = call

\* Mutant of TakePending: the functors stay in the queue.
CopyPending ==
  /\ Next1("take")
  /\ todo' = Tail(todo)
  /\ batch' = pending
  /\ UNCHANGED <<conn, pending, user, owner, kernel, history>>

\* doPendingFunctors() takes the queue.
TakePending ==
  /\ Next1("take")
  /\ todo' = Tail(todo)
  /\ batch' = pending
  /\ pending' = <<>>
  /\ UNCHANGED <<conn, user, owner, kernel, history>>

\* The channel's close callback.
CloseEvent ==
  /\ Next1("close")
  /\ HandleClose(Tail(todo))
  /\ UNCHANGED <<batch, pending, user, owner, kernel>>

\* handleError(): fetching SO_ERROR clears it.
HandleError ==
  /\ Next1("error")
  /\ sockErr' = "none"
  /\ todo' = Tail(todo)
  /\ UNCHANGED <<conn, batch, pending, user, owner, wire, room, writeShut, peer,
                 unread, sent, history>>

\* handleRead(): readv() returns bytes, and the message callback runs.
ReadMessage ==
  /\ Next1("read") /\ sockErr = "none" /\ unread
  /\ unread' = FALSE
  /\ todo' = <<"user">> \o Tail(todo)
  /\ UNCHANGED <<conn, batch, pending, user, owner, wire, room, writeShut, peer, sent,
                 sockErr, history>>

\* Mutant of ReadEnd: the end of the stream is ignored.
ReadEndIgnored ==
  /\ Next1("read") /\ sockErr = "none" /\ ~unread
  /\ todo' = Tail(todo)
  /\ UNCHANGED <<conn, batch, pending, user, owner, kernel, history>>

\* handleRead(): readv() returns 0.
ReadEnd ==
  /\ Next1("read") /\ sockErr = "none" /\ ~unread
  /\ HandleClose(Tail(todo))
  /\ UNCHANGED <<batch, pending, user, owner, kernel>>

\* handleRead(): readv() fails, which takes SO_ERROR and is only logged.
ReadError ==
  /\ Next1("read") /\ sockErr # "none"
  /\ sockErr' = "none"
  /\ todo' = Tail(todo)
  /\ UNCHANGED <<conn, batch, pending, user, owner, wire, room, writeShut, peer,
                 unread, sent, history>>

\* Mutant of Drained: keeps asking for "out".
DrainedKeepsAsking ==
  /\ pending' = Append(pending, Functor("writeComplete"))
  /\ IF state = "kDisconnecting" THEN ShutdownInLoop(FALSE) ELSE UNCHANGED writeShut
  /\ UNCHANGED <<events, index>>

\* Mutant of Drained: forgets the shutdown() that had to wait.
DrainedForgetsShutdown ==
  /\ SetEvents(events \ {"out"})
  /\ pending' = Append(pending, Functor("writeComplete"))
  /\ UNCHANGED writeShut

\* handleWrite() has written the last buffered byte: stop asking for "out",
\* queue the write complete callback, carry out a shutdown() that had to wait.
Drained ==
  /\ SetEvents(events \ {"out"})
  /\ pending' = Append(pending, Functor("writeComplete"))
  /\ IF state = "kDisconnecting" THEN ShutdownInLoop(FALSE) ELSE UNCHANGED writeShut

\* handleWrite(): write() takes the first n buffered bytes.
WriteBuffered ==
  /\ Next1("write") /\ "out" \in events /\ ~Broken /\ room
  /\ todo' = Tail(todo)
  /\ \E n \in 1..Len(out) :
       /\ wire' = wire \o SubSeq(out, 1, n)
       /\ out' = SubSeq(out, n + 1, Len(out))
       /\ room' \in (IF n < Len(out) THEN {FALSE} ELSE BOOLEAN)
       /\ IF n = Len(out) THEN Drained
                          ELSE UNCHANGED <<events, index, pending, writeShut>>
  /\ UNCHANGED <<state, batch, user, owner, peer, unread, sent, sockErr, history>>

\* handleWrite(): write() fails, now or for good, or the channel is not writing any
\* more; either is only logged.
WriteEventFails ==
  /\ Next1("write")
  /\ todo' = Tail(todo)
  /\ sockErr' = IF "out" \in events THEN "none" ELSE sockErr
  /\ UNCHANGED <<conn, batch, pending, user, owner, wire, room, writeShut, peer,
                 unread, sent, history>>
-----------------------------------------------------------------------------
(* The loop's thread: functors.                                             *)

Starts(op) == todo = <<>> /\ batch # <<>> /\ Head(batch).op = op

\* connectEstablished()
ConnectEstablished ==
  /\ Starts("establish")
  /\ batch' = Tail(batch)
  /\ state' = "kConnected"
  /\ SetEvents(events \cup {"in"})
  /\ ups' = ups + 1
  /\ todo' = <<"user">>
  /\ UNCHANGED <<out, pending, user, owner, kernel, accepted, refused, late, downs>>

\* sendInLoop() for another thread, which reads that thread's buffer now.
RunSend ==
  /\ Starts("send")
  /\ batch' = Tail(batch)
  /\ SendInLoop(Head(batch).from, cur[Head(batch).from], <<>>)
  /\ UNCHANGED <<state, user, owner>>

\* shutdownInLoop() for another thread.
RunShutdown ==
  /\ Starts("shutdown")
  /\ batch' = Tail(batch)
  /\ ShutdownInLoop("out" \in events)
  /\ UNCHANGED <<conn, todo, pending, user, owner, wire, room, peer, unread, sent,
                 sockErr, history>>

\* Mutant of ForceCloseInLoop: does not look whether the connection is
\* already down.
ForceCloseAlways ==
  /\ Starts("forceClose")
  /\ batch' = Tail(batch)
  /\ HandleClose(<<>>)
  /\ UNCHANGED <<pending, user, owner, kernel>>

\* forceCloseInLoop()
ForceCloseInLoop ==
  /\ Starts("forceClose")
  /\ batch' = Tail(batch)
  /\ IF state \in {"kConnected", "kDisconnecting"}
     THEN HandleClose(<<>>)
     ELSE UNCHANGED <<conn, todo, history>>
  /\ UNCHANGED <<pending, user, owner, kernel>>

\* The queued write complete and high water callbacks.
RunCallback ==
  /\ Starts("writeComplete") \/ Starts("highWater")
  /\ batch' = Tail(batch)
  /\ todo' = <<"user">>
  /\ UNCHANGED <<conn, pending, user, owner, kernel, history>>

\* connectDestroyed(): the test of state_ ...
ConnectDestroyed ==
  /\ Starts("destroy")
  /\ batch' = Tail(batch)
  /\ todo' = IF state = "kConnected" THEN <<"down", "remove">> ELSE <<"remove">>
  /\ UNCHANGED <<conn, pending, user, owner, kernel, history>>

\* ... what it does to a connection that is still up ...
TakeDown ==
  /\ Next1("down")
  /\ state' = "kDisconnected"
  /\ SetEvents({})
  /\ downs' = downs + 1
  /\ todo' = <<"user">> \o Tail(todo)
  /\ UNCHANGED <<out, batch, pending, user, owner, kernel, accepted, refused, late, ups>>

\* ... and the removal of the channel from the poller.
RemoveChannel ==
  /\ Next1("remove")
  /\ index' = kNew
  /\ todo' = Tail(todo)
  /\ UNCHANGED <<state, events, out, batch, pending, user, owner, kernel, history>>

\* closeCallback_: removeConnection() of the owner.
CloseCallback ==
  /\ Next1("closeCallback")
  /\ removals' = removals + 1
  /\ todo' = Tail(todo)
  /\ UNCHANGED <<conn, batch, pending, user, held, kernel, history>>
-----------------------------------------------------------------------------
(* The loop's thread: user callbacks and what they may call.                *)

InCallback == Next1("user")
MayCall(c) == calls[c] < MaxCalls[c]
Count(c)   == calls' = [calls EXCEPT ![c] = @ + 1]

CallbackReturns ==
  /\ InCallback
  /\ todo' = Tail(todo)
  /\ UNCHANGED <<conn, batch, pending, user, owner, kernel, history>>

\* send() on the loop's own thread.
OwnSend ==
  /\ InCallback /\ MayCall(Loop) /\ state = "kConnected"
  /\ Count(Loop)
  /\ SendInLoop(Loop, calls[Loop] + 1, todo)
  /\ UNCHANGED <<state, batch, pc, cur, owner>>

\* shutdown() on the loop's own thread.
OwnShutdown ==
  /\ InCallback /\ MayCall(Loop) /\ state = "kConnected"
  /\ Count(Loop)
  /\ state' = "kDisconnecting"
  /\ ShutdownInLoop("out" \in events)
  /\ UNCHANGED <<events, index, out, loop, pc, cur, owner, wire, room, peer, unread,
                 sent, sockErr, history>>

\* forceClose() on the loop's own thread.
OwnForceClose ==
  /\ InCallback /\ MayCall(Loop) /\ state \in {"kConnected", "kDisconnecting"}
  /\ Count(Loop)
  /\ state' = "kDisconnecting"
  /\ pending' = Append(pending, Functor("forceClose"))
  /\ UNCHANGED <<events, index, out, todo, batch, pc, cur, owner, kernel, history>>
-----------------------------------------------------------------------------
(* Other threads.  They have the connection from the up callback on.        *)

\* send(): the caller has put its next message into its buffer; the test of
\* state_.
StartSend(u) ==
  /\ "send" \in UserOps
  /\ ups > 0 /\ pc[u] = <<"idle">> /\ MayCall(u)
  /\ Count(u)
  /\ cur' = [cur EXCEPT ![u] = @ + 1]
  /\ pc' = [pc EXCEPT ![u] = IF state = "kConnected" THEN <<"send">> ELSE <<"idle">>]
  /\ UNCHANGED <<conn, loop, owner, kernel, history>>

\* send(): queue sendInLoop() with a pointer into the caller's buffer.
QueueSend(u) ==
  /\ pc[u] = <<"send">>
  /\ pending' = Append(pending, SendFunctor(u, cur[u]))
  /\ pc' = [pc EXCEPT ![u] = <<"idle">>]
  /\ UNCHANGED <<conn, todo, batch, calls, cur, owner, kernel, history>>

\* shutdown() and forceClose(): the test of state_ ...
StartClosing(u, op) ==
  /\ op \in UserOps
  /\ ups > 0 /\ pc[u] = <<"idle">> /\ MayCall(u)
  /\ state = "kConnected" \/ (op = "forceClose" /\ state = "kDisconnecting")
  /\ Count(u)
  /\ pc' = [pc EXCEPT ![u] = <<"set", op>>]
  /\ UNCHANGED <<conn, loop, cur, owner, kernel, history>>

\* ... the store to state_ ...
SetDisconnecting(u, op) ==
  /\ pc[u] = <<"set", op>>
  /\ state' = "kDisconnecting"
  /\ pc' = [pc EXCEPT ![u] = <<"queue", op>>]
  /\ late' = (late \/ state = "kDisconnected")
  /\ UNCHANGED <<events, index, out, loop, calls, cur, owner, kernel, accepted, refused,
                 ups, downs>>

\* ... and the functor.
QueueClosing(u, op) ==
  /\ pc[u] = <<"queue", op>>
  /\ pending' = Append(pending, Functor(op))
  /\ pc' = [pc EXCEPT ![u] = <<"idle">>]
  /\ UNCHANGED <<conn, todo, batch, calls, cur, owner, kernel, history>>
-----------------------------------------------------------------------------
(* The owner, the kernel and the peer.                                      *)

\* removeConnectionInLoop(): drop the connection and queue connectDestroyed.
OwnerRemoves ==
  /\ removals > 0
  /\ removals' = removals - 1
  /\ held' = IF held = "held" THEN "removed" ELSE held
  /\ pending' = Append(pending, Functor("destroy"))
  /\ UNCHANGED <<conn, todo, batch, user, kernel, history>>

\* ~TcpServer: connectDestroyed for every connection it still has.
OwnerGoes ==
  /\ OwnerMayGo /\ held = "held"
  /\ held' = "gone"
  /\ pending' = Append(pending, Functor("destroy"))
  /\ UNCHANGED <<conn, todo, batch, user, removals, kernel, history>>

PeerSends ==
  /\ peer = "open" /\ sent < MaxUnread
  /\ sent' = sent + 1
  /\ unread' = TRUE
  /\ UNCHANGED <<conn, loop, user, owner, wire, room, writeShut, peer, sockErr, history>>

PeerReads ==
  /\ ~room /\ peer # "reset"
  /\ room' = TRUE
  /\ UNCHANGED <<conn, loop, user, owner, wire, writeShut, peer, unread, sent, sockErr,
                 history>>

PeerCloses ==
  /\ peer = "open"
  /\ peer' = "closed"
  /\ UNCHANGED <<conn, loop, user, owner, wire, room, writeShut, unread, sent, sockErr,
                 history>>

\* The connection is over, what was not sent is dropped, and SO_ERROR says why.
Aborted(err) ==
  /\ peer # "reset"
  /\ peer' = "reset"
  /\ unread' = FALSE /\ room' = TRUE
  /\ sockErr' = err
  /\ UNCHANGED <<conn, loop, user, owner, wire, writeShut, sent, history>>

PeerResets == Aborted("fault")

\* The peer cannot be reached any more: ETIMEDOUT (keepalive is on) or EHOSTUNREACH.
KernelGivesUp == Aborted("other")
-----------------------------------------------------------------------------
\* What the loop's thread does by itself.
LoopStep ==
  \/ Poll \/ TakePending
  \/ CloseEvent \/ HandleError \/ ReadMessage \/ ReadEnd \/ ReadError
  \/ WriteBuffered \/ WriteEventFails
  \/ ConnectEstablished \/ RunSend \/ RunShutdown \/ ForceCloseInLoop \/ RunCallback
  \/ ConnectDestroyed \/ TakeDown \/ RemoveChannel \/ CloseCallback
  \/ CallbackReturns

OwnCall == OwnSend \/ OwnShutdown \/ OwnForceClose

\* What another thread does once it is inside a call.
UserStep(u) ==
  \/ QueueSend(u)
  \/ \E op \in {"shutdown", "forceClose"} : SetDisconnecting(u, op) \/ QueueClosing(u, op)

UserCall(u) ==
  \/ StartSend(u)
  \/ \E op \in {"shutdown", "forceClose"} : StartClosing(u, op)

Environment == OwnerGoes \/ PeerSends \/ PeerCloses \/ PeerResets \/ KernelGivesUp

Next ==
  \/ LoopStep \/ OwnCall
  \/ \E u \in Users : UserStep(u) \/ UserCall(u)
  \/ OwnerRemoves \/ PeerReads \/ Environment

Spec == Init /\ [][Next]_vars

(***************************************************************************)
(* Fairness: runnable threads are scheduled and user callbacks return, the *)
(* owner's loop runs, the peer goes on reading (or resets), and write() on *)
(* a socket with room does not fail for ever.                              *)
(***************************************************************************)
Fairness ==
  /\ WF_vars(LoopStep) /\ SF_vars(WriteBuffered)
  /\ WF_vars(OwnerRemoves)
  /\ WF_vars(PeerReads)
  /\ \A u \in Users : WF_vars(UserStep(u))

FairSpec == Spec /\ Fairness
-----------------------------------------------------------------------------
(* Properties.                                                              *)

States == {"kConnecting", "kConnected", "kDisconnecting", "kDisconnected"}
Calls  == {"close", "error", "read", "write", "take", "user", "closeCallback", "down", "remove"}
Bytes  == Callers \X Nat \X (0..2)
Functors ==
  [op : {"establish", "shutdown", "forceClose", "destroy", "writeComplete", "highWater"}]
  \cup [op : {"send"}, from : Users, msg : Nat]

\* Types.
TypeOK ==
  /\ state \in States
  /\ events \subseteq Interest /\ index \in Indices
  /\ out \in Seq(Bytes) /\ wire \in Seq(Bytes) /\ accepted \in Seq(Bytes)
  /\ todo \in Seq(Calls) /\ batch \in Seq(Functors) /\ pending \in Seq(Functors)
  /\ pc \in [Users -> {<<"idle">>, <<"send">>} \cup ({"set", "queue"} \X {"shutdown", "forceClose"})]
  /\ calls \in [Callers -> Nat] /\ cur \in [Users -> Nat]
  /\ removals \in Nat /\ held \in {"held", "removed", "gone"}
  /\ room \in BOOLEAN /\ writeShut \in BOOLEAN /\ unread \in BOOLEAN
  /\ sockErr \in {"none", "fault", "other"}
  /\ peer \in {"open", "closed", "reset"} /\ sent \in 0..MaxUnread
  /\ refused \in BOOLEAN /\ late \in BOOLEAN /\ ups \in 0..1 /\ downs \in Nat

\* The bytes on the wire followed by those buffered are the bytes sendInLoop()
\* took, in order: nothing lost, doubled or overtaken, by whatever mixture of
\* direct and delayed writes; provided that no direct write failed with an errno other
\* than EPIPE and ECONNRESET.
StreamUnlessRefused == refused \/ wire \o out = accepted

\* What TcpConnection.cc:240 says: the data is appended to the buffer.
\* Violated when write() fails with EWOULDBLOCK, or any errno but EPIPE and ECONNRESET:
\* what is appended begins one byte before the data and lacks its last byte.
Stream == wire \o out = accepted

\* Buffered bytes are never forgotten: while the connection is up the channel
\* asks for "out" exactly as long as bytes are buffered.
BufferedIsWatched ==
  /\ "out" \in events => out # <<>>
  /\ out # <<>> /\ downs = 0 => "out" \in events

\* shutdown() never cuts off buffered bytes: while the connection is up, the write end
\* is shut down only behind the last of them.  Bytes come to lie behind the shut end only
\* when a late send() finds that the kernel has given the connection up.
ShutdownAfterData ==
  writeShut /\ downs = 0 => out = <<>> \/ (refused /\ peer = "reset")

\* The message callback runs only after the up callback and before the down
\* callback.
MessageStep == unread /\ ~unread' /\ todo # todo'
MessagesWhileUp == [][MessageStep => ups = 1 /\ downs = 0]_vars

\* A connection goes through its states in one direction, and the down callback runs once,
\* after the up callback, however many of the peer, the kernel, the owner, callbacks and
\* other threads close it: until the owner is destroyed first, or the store of another
\* thread's shutdown() or forceClose() comes after the connection went down (the test and
\* the store are two steps).
Rank == [s \in States |-> CASE s = "kConnecting" -> 0 [] s = "kConnected" -> 1
                             [] s = "kDisconnecting" -> 2 [] s = "kDisconnected" -> 3]
Meddled == late \/ held = "gone"
OneWay == [][~Meddled' => Rank[state] <= Rank[state'] /\ downs' <= ups']_vars

\* What TcpConnection.cc:98 says: closing disables all events, or they would
\* be reported until the TcpConnection is destructed.  Violated by a late
\* forceCloseInLoop(): the second disableAll() adds the channel again.
ClosedIsSilent == downs > 0 => index # kAdded

\* What another thread gave to send() is what sendInLoop() finds there.
\* Violated by a caller that reuses its buffer, as testClient.cc:105 does.
QueuedDataIsStable ==
  \A f \in {batch[i] : i \in DOMAIN batch} \cup {pending[i] : i \in DOMAIN pending} :
    f.op = "send" => cur[f.from] = f.msg

\* A connection whose peer has gone is closed, unless the owner has removed it.
PeerCloseIsNoticed ==
  peer # "open" /\ ups = 1 ~> (downs > 0 \/ index = kNew)

\* What TcpConnection.cc:283 promises: after shutdown() the write end is shut
\* down in the end, unless the connection is closed or removed before.
ShutdownCompletes ==
  state = "kDisconnecting" ~> (writeShut \/ state = "kDisconnected" \/ index = kNew)
=============================================================================
