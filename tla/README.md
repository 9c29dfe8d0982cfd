# A formal model of myWeb

myWeb is a reactor library in the style of muduo: one `EventLoop` per thread on
top of `epoll`, connections as `TcpConnection` objects whose handlers all run on
their loop's thread, and `TcpServer` / `TcpClient` that create and own them.
This directory holds TLA+ models of its core, the TLC configurations that check
them on small instances, and proofs (TLAPS) of the main safety properties for
every instance. Paths below are relative to the repository.

## 1. Inventory

| Component | State | Operations | Talks to | What makes it correct |
|---|---|---|---|---|
| `EventLoop` (`net/EventLoop.cc`) | `quit_`, `pendingFunctors_` (under `mux_`), `callingPendingFunctors_`, eventfd, `activeChannels_` | `loop`, `quit`, `runInLoop`, `queueInLoop`, `wakeup`, `doPendingFunctors` | every other thread, its poller, its channels | no functor is lost, doubled or reordered; a sleeping loop is woken; `quit` ends it |
| `Channel` (`net/Channel.cc`) | `events_`, `revents_`, `index_`, `tie_` | `enable…`, `disable…`, `remove`, `handleEvent` | poller, owner's callbacks | callbacks in a fixed order, on a live owner |
| `EpollPoller` (`net/EpollPoller.cc`) | `channels_`, the kernel's interest list, event array `events_` | `updateChannel`, `removeChannel`, `poll` | kernel, channels | map, `index_` and kernel agree; no `epoll_ctl` fails; no ready channel starves |
| `TcpConnection` (`net/TcpConnection.cc`) | `state_`, channel, `outputBuffer_`, `inputBuffer_` | `send`, `shutdown`, `forceClose` (any thread), handlers and functors (loop's thread) | loop, channel, socket, owner, user callbacks | bytes complete and in order; a shutdown waits for them; one up and one down; the channel leaves the poller |
| `TcpServer` (`net/TcpServer.cc`) | `connections_`, thread pool, acceptor | `newConnection`, `removeConnection`, destructor | acceptor, I/O loops, connections | each connection is established, removed and destroyed once, on its loop |
| `EventLoopThread`, `Thread`, `EventLoopThreadPool` | `loop_` under a mutex, thread | `startLoop`, `threadFunc`, destructors, `getNextLoop` | loops | `startLoop` returns a running loop; the destructor ends it |
| `Connector`, `TcpClient` | `state_`, `connect_`, channel; `connection_` under a mutex | `start`, `stop`, `retry`, `handleWrite`; `connect`, `disconnect`, `stop` | loop, kernel | at most one attempt at a time; `stop` stops; no channel destroyed while registered |
| `Acceptor` | listening channel | `listen`, `handleRead` | poller, server | every accepted descriptor is handed over or closed |
| `Buffer`, `LengthHeaderCodec` | `readIndex_`, `writeIndex_`, bytes | `append`, `prepend`, `retrive`, `readFd`, `writeFd`; `onMessage`, `send` | connection | a byte queue; messages are split where they were joined |
| `Logger` | one level for all threads | `setLogLevel`, `log` | everything | a message carries its own level |
| `InetAddress`, `SockOps`, `Timestamp`, `CurrentThread`, `StringPiece`, `Endian`, … | none, or a value | conversions | – | – |

The hard behaviours are the hand-over of functors between threads (a locked
append, a flag and a write to an eventfd, against a loop that is going to
sleep), user callbacks that call back into the object that runs them,
`state_` of a connection that any thread tests and stores without a lock,
closing a connection (two loops, three queued functors, either peer), and the
lifetime of objects that queued functors refer to. The hazards, line by line,
with the properties that cover them, are listed in `PROJECT.json`.

## 2. Modules

| Module | Models | Depends on |
|---|---|---|
| `FunctorQueue` | what a loop promises about functors: each runs at most once, in the order of queueing | – |
| `EventLoop` | one loop, its own thread's calls, and any number of other threads | refines `FunctorQueue` |
| `Channel` | interest, registration index, callback dispatch | – |
| `EpollPoller` | all channels of one loop, `channels_`, the kernel's interest list, `epoll_wait` | `Channel` |
| `TcpConnection` | one connection with its loop's thread, other threads, owner, socket and peer | `Channel` |
| `EventLoopThreadPool` | the owner of a pool, its `EventLoopThread`s and their threads | abstracts `EventLoop` |
| `ConnectionLife` | what a server promises about connections: accepted, up, down, released, in this order and once | – |
| `TcpServer` | a server with its acceptor, base loop, I/O loops and the life of its connections | refines `ConnectionLife`; abstracts `TcpConnection`, `EventLoop`, `EventLoopThreadPool` |
| `TcpClient` | a client with its connector, their loop, and a user's thread that drives and destroys it | abstracts `TcpConnection`, `EventLoop` |
| `Buffer` | `Buffer` as operators on the vector and its two offsets | – |
| `MessageChannel` | what a codec promises about messages: delivered whole, once and in order, nothing behind a refused one | – |
| `Codec` | `LengthHeaderCodec` at both ends of a connection, over two `Buffer`s and a network | `Buffer`; refines `MessageChannel` |
| `EventLoopProofs`, `EpollPollerProofs`, `EventLoopThreadPoolProofs`, `CodecProofs`, `TcpServerProofs`, `TcpConnectionProofs`, `TcpConnectionOrderProofs`, `TcpClientProofs` | the theorems | TLAPS |
| `MC…` | the instances TLC checks | |

### EventLoop

`at` is the place of the loop's thread in `loop()`: `notStarted` (code of that
thread before `loop()`), `check` (`while (!quit_)`), `poll` (in `epoll_wait`),
`events` (handling), `functors` (in `doPendingFunctors`), `exited`. `pending`,
`batch`, `calling`, `quit`, `active` are `pendingFunctors_`, the local vector,
`callingPendingFunctors_`, `quit_`, `activeChannels_`. Another thread's
`queueInLoop` and `quit` are two actions each (`QueueInLoop` or `Quit`, then
`Wakeup`), because it can be preempted between them; its locked append is one.
On the loop's own thread an operation is one action (`Own…`), enabled while a
handler, a functor or the code before `loop()` runs. The eventfd counter is
abstracted to "readable". `ran` is history. `looping_`, `currentActiveChannel_`
and `pollReturnTime_` take no part in any decision and are left out.

### EpollPoller and Channel

`fd`, `events`, `index` are the fields of each `Channel`; `channels` is the
poller's map; `ptr` and `mask` are the kernel's entry of a descriptor; `fatal`
says that an `epoll_ctl` to add or modify has failed (`LOG_FATAL` only logs, so
the program would go on). Every change of interest is `UpdateChannel` with the
new mask. `Poll` lets the kernel choose which of the ready descriptors fit into
the array. From the callers the model takes that a descriptor belongs to one
channel, and that a channel is destroyed only after `remove()` and not while the
loop handles events; `Connector::retry` breaks the latter, which is in `TcpClient`.
The former does not hold for a moment after a connect: the connector's channel lives on
until `resetChannel()` runs, while the new `TcpConnection` has a channel on the same
descriptor (`Connector.cc:142`). It has been removed by then (`kNew`) and is never
updated again, so that the poller cannot tell it from one that is gone. A registered
`Acceptor` or connection channel obeys both, except after the race that `ClosedIsSilent`
shows.

### TcpConnection

The loop's thread is a stack `todo` of the calls it has still to make, since a
handler runs user callbacks (`"user"`) in the middle and these may call `send`,
`shutdown` and `forceClose`. `batch` and `pending` are the functors that concern
this connection. A call of another thread is split at each access to `state_`
and at the queueing (`pc`). `events` and `index` follow `Channel`; `out` is the
readable part of `outputBuffer_`. `wire`, `room`, `writeShut`, `peer`, `unread`,
`sockErr` are the kernel's side. The owner is `removals`, `held`,
`OwnerRemoves` (`removeConnection` and `removeConnectionInLoop`) and `OwnerGoes`
(`~TcpServer`). A message has two bytes, so that a write can be short; the byte
in front of a message is named as well, because one error path sends it.

A direct `write()` can take bytes (`WriteSome`), or fail in two ways that the code
tells apart. `EPIPE` and `ECONNRESET` drop the message (`WriteFails`). Any other errno
leaves `nwrote` at -1, and the bytes from `data - 1` on are buffered (`WriteRefused`):
`EWOULDBLOCK` or a passing shortage on a working socket, `ETIMEDOUT` or `EHOSTUNREACH`
when the kernel has given the connection up (`KernelGivesUp`; keepalive is on). The
kernel reports such an error once, to whichever of `write()`, `readv()` and
`getsockopt()` comes first, after which a write fails with `EPIPE`: `sockErr` is what it
has to report. In `handleWrite()` every failure is only logged (`WriteEventFails`).
`late` is history: the store of another thread's `shutdown()` or `forceClose()` came
after the connection was down.

Abstracted: what is read (only whether something was), addresses, names, log
output. All callbacks are taken to be set. SIGPIPE is taken to be ignored by the
application (nothing in the repository does it: without it the `EPIPE` paths end
the process). Callers of `send`, `shutdown` and `forceClose` hold a
`TcpConnectionPtr`; the lifetime of the object is in `TcpServer` and `TcpClient`.
The owner lives on another loop or queues its functors: `~TcpServer` on the
connection's own loop calls `connectDestroyed` directly, which is the model's
order with nothing in between.

### EventLoopThreadPool

`owner` is the place of the thread that owns the pool: in `start()` (`start`,
`sem` in `Thread::start`, `test` and `wait` in `startLoop`), `ready` to hand out
loops, and in the destructors (`exiting`, `quit`, `wakeup`, `join`, `end`); `cur`
is the `EventLoopThread` that it starts or destroys. `worker[i]` is the place of
thread `i` in `threadFunc()`, `loopSet[i]` says that `loop_` is not null, `quit[i]`
is `quit_` of its loop, `gone` the destroyed `EventLoopThread`s; `next` is `next_`
and `picks` is history. A critical section under `mutex_` is one action, except
the last of `threadFunc()`, because the destructor reads `loop_` without the
mutex: `ReadLoop` or `SkipEnded`, then the two steps of `quit()`. What a loop does
inside `loop()` is left to `EventLoop`; `UserQuits` is a functor that quits it.
`name_`, thread ids and `exiting_` (never read) are left out. The number of
threads is a constant: `start()` is called once, after `setThreadNum()`.

If a user quits a loop while the pool is destroyed, `~EventLoopThread` may call
`quit()` on a loop that is gone, and it may destroy `mutex_` while the thread is
about to release it (`SkipEnded` while the thread is at `unlock`); also the
`wakeup()` of the destructor's own `quit()` may come after the loop has seen
`quit_`, ended and been destroyed. Nothing in the repository promises otherwise;
`ObjectOutlivesThread` states what the code does guarantee, that no thread comes
to lock the mutex of a destroyed object.

### TcpServer

One actor per loop (`at[l]`, `quit[l]`, `queue[l]`, `batch[l]`), loop 0 being the
base loop, whose thread starts the server, runs the acceptor and, after `loop()`
has returned, destroys the server: `phase` and `cur` follow `~TcpServer` member by
member (the map, then each thread of the pool, then the acceptor), and
`DestroyBase` the loop after it. A functor is an operation and a connection: it
holds a shared pointer. Lifetimes follow from this alone: a connection is `Alive`
while `connections_` (`map`) or a functor refers to it, and its descriptor is
`Open` as long. `polled` are the connections whose channel is in a poller, so that
a destroyed connection in `polled` is a dangling pointer in `epoll`. `EMFILE` is
`Cardinality(Open) = MaxFds`. The number of threads is chosen in `Init`.

Not in the model: users who keep a `TcpConnectionPtr` of a server (its lifetime
would be theirs), `accept()` errors other than a full table, and a `TcpServer`
destroyed inside a handler of its running base loop. There, functors that
`removeConnection` had bound to the raw `this` (`TcpServer.cc:116`) would run on a
server that is gone; nothing in the repository destroys one there.

### TcpClient

`todo` and `handling` are what the loop's thread has still to do in the handler or
functor that it runs, `active` the channels that `poll()` reported and that it has
not come to, `pc` the place of the user's thread in `start()`, `stop()` or
`~TcpClient`. Each call of `Connector::connect()` makes a socket with a number,
and `fd` follows the socket: connecting, owned by a new `TcpConnection`, up, down,
removed from the poller by `connectDestroyed()`, or closed by the connector. `doubly`
marks a socket that is closed twice. A connection lives, and its socket is open, as long
as something refers to it (`Held`): the client, the user, a functor, the handler that
makes it, or, from the destructor of the client on, the connection itself:
`TcpClient.cc:64` binds the connection into the close callback that line 66 stores in it,
and nothing takes that callback away. `channel` is `channel_`, `watched` what epoll watches for the connector:
the two may differ, since a queued `resetChannel()` destroys whatever `channel_`
is by then. `kept` is the reference that a user's callback keeps, and
`closeCb` whether the destructor has replaced the callback bound to its raw
`this`. A step that would use a destroyed object leads to `at = "undefined"`,
where the model stops: an event for a channel that was reset, or whose connection
was destroyed while it was up (`DanglingEvent`), a callback into a destroyed client (`UsesDestroyed`,
`CloseUsesDestroyed`). All of these are reachable; section 5 names them. `retry()`
sleeps in the loop's thread, which is one step. `disconnect()` on a connected
client is `shutdown()` of its connection, in `TcpConnection`.

`retryDelayMs_` (doubled from an uninitialised value at `Connector.cc:194` unless
`restart()` ran before) only says how long the sleep lasts, and is left out. So is
`handleError`, which no event reaches: `connecting()` sets it as the read callback
of a channel that is only interested in writing, and sets no error callback.

### Buffer and Codec

A buffer is a record: `cells` the vector, `read` and `write` the offsets. Each
operation is an operator from a buffer to a buffer, with both ways of
`makeSpace()` and both ways of `readFd()`. `Codec` holds one output and one input
buffer; the network `wire` is a sequence of bytes that may be cut anywhere.
`onMessage()` is an action per turn of its loop. `SendMessage` is `send()` on the loop's
own thread with a socket that works: the refused and failing writes of `sendInLoop()` and
the hand-over from other threads are in `TcpConnection` alone, where they break the
stream (section 5), so that the codec's properties hold only as long as none occurs. Byte, header and vector sizes are
constants, so that the small instance has two-bit lengths. `test_codec.h` is an
older copy of `codec.h`.

## 3. Runs

| Run | Shows | Bounds |
|---|---|---|
| `event_loop` | `NoLostWakeup`, `QuitIsNoticed`, refinement of `FunctorQueue`, `EveryFunctorRuns`, `QuitEndsLoop` | 2 other threads, 3 functors (one queued before `loop()`), 1 socket |
| `epoll_poller` | `TablesAgree`, `NeverFatal`, `EveryReadyIsReported` | 2 channels, 2 descriptors, array 1 growing to 2 |
| `tcp_connection` | `StreamUnlessRefused`, `BufferedIsWatched`, `ShutdownAfterData`, `OneWay`, `MessagesWhileUp`, `PeerCloseIsNoticed`, `ShutdownCompletes` | 1 call from callbacks, 1 of another thread, high water mark 3, 1 message received, the owner may go |
| `tcp_connection_{stream,silent,buffer}_doc` | violations, see 5 | 1 call from callbacks, 2 of another thread, the owner stays |
| `thread_pool` | `PublishedIsAlive`, `CollectedIsAlive`, `ObjectOutlivesThread`, `Balanced`, `StartReturns`, `DestructorReturns` | 3 threads, each loop handed out at most twice |
| `thread_pool_join_doc` | violation | 2 threads |
| `tcp_server` | `NothingDangles`, refinement of `ConnectionLife` (`LivesInOrder`), `ClosedIsReleased`, `AcceptsAgain`, `EverythingIsReleased` | 0 to 2 I/O threads, 3 clients, 2 descriptors |
| `tcp_client` | `SocketsAreOwned`, `StoppedIsQuiet`, `Perseveres`, `NothingIsLeft` | 3 attempts, each call of the user's thread once, in any order |
| `tcp_client_channel_doc` | violation | 3 attempts |
| `codec` | both buffers within their vectors, `MessagesIntact`, refinement of `MessageChannel` (`IsMessageChannel`), `EveryMessageArrives` | 3 messages out of 4, among them the empty one and one that is too long; lengths of two bits; vectors of 5 cells |

Why the bounds are enough: two other threads are needed for a wakeup by one to
be consumed while the other has appended and not yet written; two functors for
an order, a third for one queued inside a batch. Two channels on two descriptors
reach reuse of a descriptor by another channel and an array that is too short;
the facts about agreement are proved for any number anyway. Two two-byte
messages, one of a callback and one of another thread, fill the buffer past the high
water mark, the first after a partial or a refused write; and two calls are what a
race of `shutdown()`, `forceClose()` and `send()` takes. The safety properties of a
connection are proved for any number of threads and calls. Three threads have one before and one behind
the thread that is being started or destroyed, and two rounds of `getNextLoop()`
wrap around; the safety properties of the pool are proved for any number. Two I/O
threads and three clients put two connections on one loop, and two descriptors for
three clients make `accept()` fail. With three attempts a failed one is followed
by a retry and a reconnect. A vector of five cells is filled, grown and moved by
three messages with headers of two cells. `MaxCalls`, `MaxUnread`,
`MaxPicks`, `MaxClients`, `MaxAttempts` and `MaxSent` bound the length of
histories, `MaxSize` the growth of the array; nothing else is bounded. `Perseveres`
and `NothingIsLeft` say nothing once all attempts are used up.

`CHECK_DEADLOCK` is off where the system really stops: a connection that has been
removed, with every caller out of calls; a pool or a server that is destroyed; a
client whose user is done, or that has reached undefined behaviour; a codec with
nothing more to send.

Every property of a passing run has a mutant: the module defines, next to an
operation, how a plausible bug would change it (`QueueWithoutWakeup`,
`SendOvertakes`, …), and `PROJECT.json` names the property that TLC then finds
violated.

## 4. Fairness

* `EventLoop`: the loop's thread and a thread inside `wakeup()` are scheduled,
  and `epoll_wait` returns when the eventfd is readable. Neither I/O events nor
  the poll timeout of 60 s are assumed, nor that anybody calls anything.
* `EpollPoller`: the loop keeps polling and handling.
* `TcpConnection`: the loop's thread is scheduled and user callbacks return, the
  owner's loop runs, a thread inside a call goes on, and a peer that has not
  reset the connection goes on reading. Strong fairness of `WriteBuffered`: `write()`
  on a socket with room may fail for a shortage, but not every time that epoll, which is
  level-triggered, reports the socket. Peers need not send or close.
* `EventLoopThreadPool`: every thread is scheduled, the init callback returns,
  and a loop that is told to quit leaves `loop()` (`QuitEndsLoop` of
  `EventLoop`). Nobody has to use, quit or destroy anything, and a condition
  variable need not wake up for no reason.
* `TcpServer`: every thread is scheduled and `~TcpServer` goes on. Strong fairness
  of `Accept`: epoll is level-triggered, so every `poll()` reports a listening
  socket that has a client, and one that is accepted fails only while descriptors
  are short. No client need connect, close or quit.
* `TcpClient`: both threads are scheduled, the sleep of `retry()` ends, and the
  kernel ends every attempt to connect, with a connection or an error (`PollDue`).
  Nobody need close a connection.
* `Codec`: both loops run and the network delivers. Nobody need send.

## 5. Disagreements with the code's own comments

Each of these is a run that must be violated, with the quotation in
`PROJECT.json`:

* `JoinReturns`: the destructor's `quit()` before the thread enters `loop()` is
  forgotten (`EventLoop.cc:74`), and the destructor joins the thread for ever.
* `Stream`: after `EWOULDBLOCK`, and after any errno but `EPIPE` and `ECONNRESET`, the
  bytes from `data - 1` on are buffered. This may be what `TcpConnection.h:41` ("loss of the first byte") noticed.
* `ClosedIsSilent`: the test and the store in `forceClose()` are two steps; a
  `handleClose()` in between is undone, and the connection closes twice.
* `QueuedDataIsStable`: `send()` off the loop's thread queues a raw pointer.
* `HandledChannelExists`: a failed attempt is retried inside the handler of its
  channel, and `connecting()` replaces, so destroys, that channel, although
  `Connector.cc:127` queues its destruction to avoid just this. The queued
  `resetChannel()` then destroys the next channel, which `epoll` still watches.

Met while modelling, with no run of their own:

* A functor that the loop's thread queues before `loop()` does not write to the
  eventfd, so it waits for an event or the timeout (`EventLoop.cc:143`).
* `disableAll()` on an unregistered channel registers it with an empty mask
  (`EpollPoller.cc:90`); `NeverFatal` and `TablesAgree` hold with that.
* A `send()` of another thread that has passed its test of `state_` is written
  after the write end was shut, and lost (`TcpConnection.cc:155`); or, when the kernel
  has given the connection up, buffered behind the shut end. `ShutdownAfterData` allows
  just that.
* An owner destroyed while a `forceClose()` is on its way: `connectDestroyed()` removes
  the channel, and the `disableAll()` of `forceCloseInLoop()` puts it back
  (`TcpServer.cc:53`). `OneWay` excepts it.
* `~TcpClient` leaks: the close callback that it stores in its connection
  (`TcpClient.cc:66`) is bound to that connection itself (line 64) instead of a
  placeholder, so that the `TcpConnection` is never destroyed and its socket never closed,
  even when the destructor was the last to refer to it and closes it.
  `NothingIsLeft` says what does hold: it is taken down and leaves the poller.
  `NothingIsForgotten` says that no other socket stays open. No comment promises more, so
  there is no run for it.
* A `stop()` of a client that is just reconnecting is undone: `restart()` sets
  `connect_` again (`TcpClient.cc:164`).
* A client destroyed while `newConnection()` or a reconnect is under way is called
  back after its end, or its connection goes while the poller points to the channel; the
  model's `undefined` state is where this leads.
* `~TcpServer` queues `connectDestroyed` to loops that it then makes quit; a loop
  that sees `quit_` first destroys the functors with the connections in them.
  `EverythingIsReleased` shows that nothing leaks, but the user hears of no
  disconnection.

## 6. Proofs

Assumptions are those named in the modules: own functors are functors, the
wakeup channel is not an I/O channel, `None` is neither channel nor descriptor,
conditions are reportable, sizes and the number of threads are positive; for the
codec that bytes are `0..(kBase - 1)`, that a header fits into `kCheapPrepend`
cells, and that a message's length fits into a header. `PowersAssumption`
gives the two equations that define the powers of `kBase`, which the provers do not
know; TLC evaluates it. Nothing is assumed finite.

`EventLoopProofs`: `TypeCorrect` is inductive as it stands. `NoWakeupIsLost`
and `QuitIsAlwaysNoticed` are proved from it by following where the loop can be:
a functor that the loop could sleep on was appended by another thread, which is
then still before its `Wakeup` or has made the eventfd readable; by a functor of
the batch, while `callingPendingFunctors_` was set; or by a handler, in which
case `TakePending` comes first. The eventfd becomes unreadable only in `events`,
after which the queue is taken. `RunsFunctorsOnceInOrder` is the refinement of
`FunctorQueue` with `todo <- batch \o pending`: `TakePending` is a stutter
because the batch is empty then.

`EpollPollerProofs`: the invariant `Inv` is the conjunction of `TypeOK`,
`FdsDistinct`, `MapAgrees` and `KernelAgrees` (together `TablesAgree`) and
`NeverFatal`. None of the last four is inductive alone: an `epoll_ctl` cannot fail because `index_` tells what
the kernel has, which stays true because no `epoll_ctl` fails and no two
channels share a descriptor.

`EventLoopThreadPoolProofs`: the invariant `Inv` is the conjunction of `TypeOK`,
`PointerFollows` (`loop_` is set exactly while the thread is between publishing
and clearing it; a thread past `loop()` was told to quit), `StartOrder` (the
threads before `cur` have published, those behind do not exist yet) and
`ObjectOutlivesThread`. The destructor passes a thread by only when it has
cleared `loop_` or has been joined: `StartOrder` is needed to know that a null
`loop_` means "cleared", not "not yet published". `RoundRobin` says that the
loops before `next_` were handed out once more than the others.

`CodecProofs`: a buffer is a queue of bytes, whatever happens to its vector.
`RetriveDrops`, `AppendAppends` and `ReadFdAppends` give the readable bytes of the
result for every buffer whose offsets are in order (`IsBuffer`), and that the
result is such a buffer again; `MakeSpaceKeeps` has the two ways of `makeSpace()`
(grow, or move to the front). They rest on lemmas about slices of a sequence that
is overwritten in the middle (`PutKeepsSize`, `SliceOfPut`, `SliceOfPutBefore`).
`FrameIsEncoded` shows that `prepend()` finds room for the header in the buffer
that `send()` fills, for every message. `TypeCorrect` then needs no strengthening:
each action of `Codec` applies these operations within their preconditions.

`MessagesStayIntact` needs induction over data, twice, because `HeaderValue` and
`FlattenSeq` are functions defined by recursion. `FromLoToHi` is that induction, for
a set of numbers in place of a predicate; it comes from the library's facts that `<`
on the naturals is well-founded and that a non-empty set then has a least element.
With it `Recursion` shows that a function defined from its value at the number before
exists. `LengthIsRead` is Horner's scheme: after `i` digits the value is
`len \div kBase ^ (kHeaderLen - i)`, and a step is one division in two (`DivideTwice`).
`FlattenAppend` and `FlattenFirst` say what one more message at the end, and one at
the front, does to the bytes. `MessagesIntact` is then inductive beside `TypeOK`:
`send()` adds a frame behind what is on the way (`SentLast`: either nothing is buffered
or nothing is written at once), `WriteOut` and `Receive` move bytes between two
neighbours and leave their concatenation alone (`Moved`), and `onMessage()`, which sees
only the part that has arrived, finds the length and the bytes of the next message in
it, because two ways to divide the same bytes begin alike (`SameFront`, `NextLength`,
`NextMessage`). So it refuses only a message that is too long, and after that delivers
nothing. `CodecIsMessageChannel` is the refinement of `MessageChannel`, with
`refused <- shut`: `WriteOut`, `Receive` and a turn of `onMessage()` that finds its
message incomplete are stutters, as is a second refusal; that a delivery is `Deliver`
and hands out the oldest message follows from `MessagesIntact` after the step.

`TcpServerProofs`: a connection is referenced by `connections_` and by functors on
several loops, and what has to be shown is that the last reference never goes while
a poller points to the channel. The invariant `Inv` says why. `Referenced`: a
connection that is in a poller, or will get there through a queued
`connectEstablished`, is kept by `connections_`, by a `removeConnectionInLoop` in
the base loop or by a `connectDestroyed` in its own loop. That is not inductive
alone. `Order` is needed when a `connectDestroyed` has run and its reference goes:
no `connectEstablished` of the connection is behind it. `Places` says in which loop
a functor is, so that one that is dropped with its loop belongs to a poller that
goes with it. `Phases` says which loops exist in which phase of the server, so that
nothing is queued to a loop that is gone: `removeConnectionInLoop` and
`~TcpServer` run before any thread of the pool was told to quit. `States` relates
functors to `state_` (a queued `connectEstablished` finds a connection that is
connecting; unless the server is closing, what is to be removed is down).
`NothingEverDangles` follows at once, and `LifeInOrder` is the refinement of
`ConnectionLife`: `RunEstablished` is `ComeUp` because `Referenced` keeps the
connection alive, `RunDestroyed` is `Release` or a stutter while the server is up,
and a loop can drop functors only once the server is closing.

`TcpConnectionProofs`: `TypeCorrect` needs `EstablishFirst` (`connectEstablished` is
the first functor of its connection, and the only one of its kind), or `ups` could
pass one. `NothingLostOrOvertaken` needs nothing more: a direct write is made only on
an empty buffer, and what it leaves goes behind the buffer. `BytesAreWatched` and
`ShutdownWaits` are two parts of one invariant, `Watched`: `sendInLoop()` puts no byte
into the buffer of a connection whose write end is shut, because it finds an empty
buffer there and the write fails with `EPIPE`; and `shutdownInLoop()` may look at the
interest in "out" instead of the buffer, because the two agree. The exception is a write
that finds the error of a connection the kernel has given up: `ErrorsAreFinal`, the third
part, says that such an error is only there once the peer is as good as reset, so that it
cannot hit the bytes of a working connection.

`TcpConnectionOrderProofs`: for `MessagesOnlyWhileUp` the invariant `UpInv` says that
nothing but `connectEstablished` can be the first to run (`NotUpYet`), that the
channel asks for "in" only between up and down (`ReadsWhileUp`), and that
`handleRead()` is next, or behind `handleError()`, whenever it is still to be run
(`ReadFirst`): within one `handleEvent()` no callback can close the connection before
it. For `StatesGoOneWay` the invariant is `Orderly`. Until a store of another
thread comes late or the owner goes first, the channel is registered exactly while the
connection is up, closing comes first among what is still to be run, and the owner has
nothing to do before it (`StateOrder`, `TodoOrder`, `QueueOrder`); and no other thread is
in a call before the up callback (`UsersOrder`), so that one that stores while the
connection is not down finds it up (`StoreInOrder`). The two exceptions are for good
(`MeddledForGood`), so that a step that ends without them also began without them. Other
threads' `shutdown()` and `forceClose()` are otherwise in the theorem: it is the test of
`state_` and the store that must not have a `handleClose()` between them.

`TcpClientProofs`: the invariant `Inv` has one part for each reason why a socket of
the connector cannot be closed twice or left open. `Sockets` ties `state_` to the
sockets: at most one is connecting or connected, none in `kDisConnected`, and in
`kConnecting` it is the one that the poller watches; a new attempt is made only in
`kDisConnected`. That is inductive only because `startInLoop()` cannot run in any
other state, which needs `StartOnce` (one functor of `start()`, before which nothing
happens) and `Places` (what the handler in progress has still to do, and that it is
the only thing in progress). `Owner` follows a socket that was handed over: it is
`connection_`'s until it goes down, and then a `connectDestroyed()` is queued for it
(`DestroyOnce`); `~TcpClient`, which replaces the close callback, leaves no
`connection_` behind. `Queues` says that no two functors of `start()`, and no two
`connectDestroyed()` of a connection, wait at once, for which two lemmas on sequences
(`Appended`, `HeadTaken`) suffice. `Stopping` is what `StoppedConnectorIsQuiet` adds:
a connector that is to stop and has an attempt with a channel has a `stopInLoop()`
ahead of it. A `resetChannel()` that comes late breaks the premise (`channel # None`),
and `StoppedIsQuiet` says so.

Liveness under fairness is beyond TLAPS. What can be proved is the safety core of
such a property: that in no reachable state is the thing still owed and nothing under
way that would bring it about. A lost wakeup, a forgotten functor, an event that nobody asked for
would break these invariants, for any values of the constants, and they need
inductive invariants of their own:

| Liveness property | Core, and its theorem | The invariant behind it |
|---|---|---|
| `EveryFunctorRuns`, `QuitEndsLoop` | `NoLostWakeup`, `QuitIsNoticed` (above) | `TypeOK` |
| `StartReturns` | `WaitIsAnswered`: the owner waits only while the thread is still to notify (`NoNotificationIsLost`) | `Awaited`: nobody quits a loop that `start()` has not collected |
| `ClosedIsReleased` | `DownIsOnItsWay`: a `removeConnectionInLoop` or `connectDestroyed` waits (`ClosedIsOnItsWayOut`) | `RemovalIsQueued`, with `Referenced` |
| `EverythingIsReleased` | `EndIsClean`: nothing is open once the base loop is gone (`NothingOutlivesTheServer`) | `MapIsEmptied`, with `Phases` and `Places` |
| `ShutdownCompletes` | `ShutdownIsDone`: with nothing buffered and nobody on the way the write end is shut (`ShutdownIsNotForgotten`) | `ShutdownOnItsWay`; `TakesLast`, so that `doPendingFunctors()` takes the queue when its batch is empty; `Watched` |
| `PeerCloseIsNoticed` | `PeerEndIsReported`: `poll()` reports a peer that has gone (`PeerEndIsNotMissed`) | `UpIsPolled` |
| `Perseveres` | `SleepsOnAttempt`: with nothing queued the poller watches an attempt (`NeverAsleepForNothing`) | `Persevering` |
| `NothingIsLeft` | `EndIsQuiet`: with nothing queued nothing is half up or half down, and only what the poller watches, what the user keeps and what refers to itself is open (`NothingIsForgotten`) | `Left` |
| `EveryMessageArrives` | `IdleIsComplete`: with nothing on the way all is delivered, or one was refused (`NoMessageIsLeft`) | `Asleep`: `onMessage()` returns only without a complete message |

What fairness adds is that each of these things that are under way goes on, and that
it does so only finitely often before the end; that, and so the leads-to itself, is
checked by TLC. For `EveryReadyIsReported` (whose heart is
the growing array), `DestructorReturns` (a single flag) and `AcceptsAgain` (strong
fairness) no core is stated.

Every safety invariant, action property and refinement that a run checks is proved.
Only model-checked: the liveness properties as such.

## 7. Plan and what is not modelled

Nothing of the plan is left. What would extend it is a model of the lifetime of a
`TcpConnection` that users of a server keep (see `TcpServer` above).

Not modelled:

* `Logger`: one level for all threads, which only changes what is printed.
* `InetAddress`, `Timestamp`, `CurrentThread`, `StringPiece`, `Endian`, `Types`,
  `Copyable`/`NonCopyable` and the formatting parts of `SockOps`: values without a
  state that several steps depend on. Byte order is in `Header`/`HeaderValue`.
* Socket options, addresses and names, thread ids, log output.
* The test programs, which serve as documentation of the use.
