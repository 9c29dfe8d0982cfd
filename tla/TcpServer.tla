----------------------------- MODULE TcpServer -----------------------------
(***************************************************************************)
(* A TcpServer with its Acceptor: the base loop, whose thread starts the   *)
(* server, runs the acceptor and destroys the server after loop() has      *)
(* returned; the I/O loops of its thread pool; and the life of its         *)
(* connections, which are kept by shared pointers in connections_ and in   *)
(* functors.                                                               *)
(*                                                                         *)
(* Loop 0 is the base loop.  What goes on inside a connection, a loop and  *)
(* the start of a thread is in TcpConnection, EventLoop and                *)
(* EventLoopThreadPool.                                                    *)
(***************************************************************************)
EXTENDS Naturals, Sequences, FiniteSets, SequencesExt

CONSTANTS MaxThreads,     \* setThreadNum() is called with at most this
          MaxClients,     \* bound: clients that connect
          MaxFds          \* connected sockets the process may have

ASSUME BoundsAssumption == MaxThreads \in Nat /\ MaxClients \in Nat
ASSUME FdsAssumption == MaxFds \in Nat \ {0}

Loops == 0..MaxThreads
Connections == 1..MaxClients

VARIABLES
  n,            \* numThreads_
  phase,        \* what the base thread is about
  cur,          \* the thread of the pool that is being destroyed
  listening,    \* the acceptor's channel is enabled
  arrived,      \* clients that have connected so far
  lastId,       \* nextConnId_ - 1: clients that have been accepted
  next,         \* next_ of the thread pool
  map,          \* connections_
  state,        \* state_ of each connection
  loopOf,       \* getLoop() of each connection
  polled,       \* connections whose channel is in channels_ of their poller
  at,           \* where each loop's thread is
  quit,         \* quit_ of each loop
  queue,        \* pendingFunctors_ of each loop
  batch         \* functors each loop's doPendingFunctors() has still to run

server == <<phase, cur, listening, map>>
accepts == <<lastId, next, loopOf>>
conns  == <<state, polled>>
loops  == <<at, quit, queue, batch>>
vars   == <<n, arrived, server, accepts, conns, loops>>

PoolLoops == 1..n

Init ==
  /\ n \in 0..MaxThreads
  /\ phase = "new" /\ cur = 1 /\ listening = FALSE
  /\ arrived = 0 /\ lastId = 0 /\ next = 0
  /\ map = {} /\ state = [c \in Connections |-> "none"]
  /\ loopOf = [c \in Connections |-> 0] /\ polled = {}
  /\ at = [l \in Loops |-> "out"] /\ quit = [l \in Loops |-> FALSE]
  /\ queue = [l \in Loops |-> <<>>] /\ batch = [l \in Loops |-> <<>>]

Functors(l) == ToSet(queue[l]) \cup ToSet(batch[l])

\* The last reference destroys the connection, which closes its socket.
Alive(c) == c \in map \/ \E l \in Loops : \E f \in Functors(l) : f[2] = c

Open == {c \in 1..lastId : Alive(c)}

\* queueInLoop()
Queue(l, op, c) == queue' = [queue EXCEPT ![l] = Append(@, <<op, c>>)]
-----------------------------------------------------------------------------
(* The base thread: the server is started.                                  *)

\* start(), the first time: the pool has published its loops, whose threads
\* are on the way into loop(); listen() runs at once.
Start ==
  /\ phase = "new"
  /\ phase' = "up"
  /\ listening' = TRUE
  /\ at' = [l \in Loops |-> IF l \in PoolLoops THEN "entering" ELSE at[l]]
  /\ UNCHANGED <<n, arrived, cur, map, accepts, conns, quit, queue, batch>>

\* The user calls loop() of the base loop.
RunBase ==
  /\ phase = "up" /\ at[0] = "out"
  /\ at' = [at EXCEPT ![0] = "entering"]
  /\ UNCHANGED <<n, arrived, server, accepts, conns, quit, queue, batch>>

\* Anyone may call quit() of the base loop.
QuitBase ==
  /\ phase = "up" /\ ~quit[0]
  /\ quit' = [quit EXCEPT ![0] = TRUE]
  /\ UNCHANGED <<n, arrived, server, accepts, conns, at, queue, batch>>
-----------------------------------------------------------------------------
(* Every loop's thread.                                                     *)

EnterLoop(l) ==
  /\ at[l] = "entering"
  /\ at' = [at EXCEPT ![l] = "check"]
  /\ quit' = [quit EXCEPT ![l] = FALSE]
  /\ UNCHANGED <<n, arrived, server, accepts, conns, queue, batch>>

\* The test of quit_: a pool thread's loop is destroyed with the functors it has
\* not run.
CheckQuit(l) ==
  /\ at[l] = "check"
  /\ at' = [at EXCEPT ![l] = IF ~quit[l] THEN "events" ELSE IF l = 0 THEN "left" ELSE "exited"]
  /\ queue' = [queue EXCEPT ![l] = IF at'[l] = "exited" THEN <<>> ELSE @]
  /\ UNCHANGED <<n, arrived, server, accepts, conns, quit, batch>>

TakePending(l) ==
  /\ at[l] = "events"
  /\ at' = [at EXCEPT ![l] = "functors"]
  /\ batch' = [batch EXCEPT ![l] = queue[l]]
  /\ queue' = [queue EXCEPT ![l] = <<>>]
  /\ UNCHANGED <<n, arrived, server, accepts, conns, quit>>

EndBatch(l) ==
  /\ at[l] = "functors" /\ batch[l] = <<>>
  /\ at' = [at EXCEPT ![l] = "check"]
  /\ UNCHANGED <<n, arrived, server, accepts, conns, quit, queue, batch>>

Starts(l, op) == at[l] = "functors" /\ batch[l] # <<>> /\ Head(batch[l])[1] = op
Of(l) == Head(batch[l])[2]
Dequeue(l) == batch' = [batch EXCEPT ![l] = Tail(@)]

\* connectEstablished()
Established(c) ==
  /\ state' = [state EXCEPT ![c] = "up"]
  /\ polled' = polled \cup {c}

RunEstablished(l) ==
  /\ Starts(l, "establish")
  /\ Dequeue(l)
  /\ Established(Of(l))
  /\ UNCHANGED <<n, arrived, server, accepts, at, quit, queue>>

\* Mutant of Destroyed: the channel stays in the poller.
DestroyedKeepsChannel(c) ==
  /\ state' = [state EXCEPT ![c] = IF @ = "up" THEN "down" ELSE @]
  /\ UNCHANGED polled

\* connectDestroyed()
Destroyed(c) ==
  /\ state' = [state EXCEPT ![c] = IF @ = "up" THEN "down" ELSE @]
  /\ polled' = polled \ {c}

RunDestroyed(l) ==
  /\ Starts(l, "destroy")
  /\ Dequeue(l)
  /\ Destroyed(Of(l))
  /\ UNCHANGED <<n, arrived, server, accepts, at, quit, queue>>

\* Mutant of RemoveInLoop: the connection stays in connections_.
RemoveKeepsMap(c) ==
  /\ Queue(loopOf[c], "destroy", c)
  /\ UNCHANGED map

\* removeConnectionInLoop()
RemoveInLoop(c) ==
  /\ map' = map \ {c}
  /\ Queue(loopOf[c], "destroy", c)

RunRemove ==
  /\ Starts(0, "remove")
  /\ Dequeue(0)
  /\ RemoveInLoop(Of(0))
  /\ UNCHANGED <<n, arrived, phase, cur, listening, accepts, conns, at, quit>>

\* shutdown(), called in a callback.
Shutdown(c) ==
  /\ state[c] = "up" /\ at[loopOf[c]] = "events"
  /\ state' = [state EXCEPT ![c] = "disconnecting"]
  /\ UNCHANGED <<n, arrived, server, accepts, polled, loops>>

\* handleClose(), with the close callback: removeConnection() of the server.
\* handleEvent() calls it only for an object that exists: the channel is tied.
HandleClose(c) ==
  /\ at[loopOf[c]] = "events" /\ state[c] \in {"up", "disconnecting"}
  /\ Alive(c) /\ c \in polled
  /\ state' = [state EXCEPT ![c] = "down"]
  /\ IF loopOf[c] = 0 THEN RemoveInLoop(c) ELSE Queue(0, "remove", c) /\ UNCHANGED map
  /\ UNCHANGED <<n, arrived, phase, cur, listening, accepts, polled, at, quit, batch>>
-----------------------------------------------------------------------------
(* The acceptor, in the base loop.                                          *)

Acceptable == at[0] = "events" /\ listening /\ arrived > lastId

\* Mutant of NextLoop: off by one.
PastLastLoop == IF n = 0 THEN 0 ELSE next + 2

\* getNextLoop()
NextLoop == IF n = 0 THEN 0 ELSE next + 1

\* Mutant of Accept: the connection is not put into connections_.
AcceptUnmapped ==
  /\ Acceptable /\ Cardinality(Open) < MaxFds
  /\ lastId' = lastId + 1
  /\ loopOf' = [loopOf EXCEPT ![lastId'] = NextLoop]
  /\ next' = IF n = 0 THEN next ELSE (next + 1) % n
  /\ IF n = 0
     THEN Established(lastId') /\ UNCHANGED queue
     ELSE /\ state' = [state EXCEPT ![lastId'] = "connecting"]
          /\ Queue(NextLoop, "establish", lastId')
          /\ UNCHANGED polled
  /\ UNCHANGED <<n, arrived, server, at, quit, batch>>

\* handleRead() and newConnection(): the connection belongs to the next loop,
\* where it is established.
Accept ==
  /\ Acceptable /\ Cardinality(Open) < MaxFds
  /\ lastId' = lastId + 1
  /\ loopOf' = [loopOf EXCEPT ![lastId'] = NextLoop]
  /\ next' = IF n = 0 THEN next ELSE (next + 1) % n
  /\ map' = map \cup {lastId'}
  /\ IF n = 0
     THEN Established(lastId') /\ UNCHANGED queue
     ELSE /\ state' = [state EXCEPT ![lastId'] = "connecting"]
          /\ Queue(NextLoop, "establish", lastId')
          /\ UNCHANGED polled
  /\ UNCHANGED <<n, arrived, phase, cur, listening, at, quit, batch>>

\* Mutant of AcceptFails: stops listening.
AcceptGivesUp ==
  /\ Acceptable /\ Cardinality(Open) >= MaxFds
  /\ listening' = FALSE
  /\ UNCHANGED <<n, arrived, phase, cur, map, accepts, conns, loops>>

\* handleRead(): accept() fails with EMFILE, which is only logged.
AcceptFails ==
  /\ Acceptable /\ Cardinality(Open) >= MaxFds
  /\ UNCHANGED vars
-----------------------------------------------------------------------------
(* The base thread: the server is destroyed, member by member.              *)

\* loop() has returned, and ~TcpServer begins.
BeginDestroy ==
  /\ phase = "up" /\ at[0] = "left"
  /\ phase' = "closing"
  /\ UNCHANGED <<n, arrived, cur, listening, map, accepts, conns, loops>>

\* The next connection of the map: connectDestroyed in its loop.
CloseNext ==
  /\ phase = "closing"
  /\ \E c \in map :
       /\ map' = map \ {c}
       /\ IF loopOf[c] = 0
          THEN Destroyed(c) /\ UNCHANGED queue
          ELSE Queue(loopOf[c], "destroy", c) /\ UNCHANGED conns
  /\ UNCHANGED <<n, arrived, phase, cur, listening, accepts, at, quit, batch>>

\* Mutant of QuitThread: join() only.
QuitForgotten ==
  /\ \/ phase = "closing" /\ map = {}
     \/ phase = "joined"
  /\ cur <= n
  /\ phase' = "joining"
  /\ UNCHANGED <<n, arrived, cur, listening, map, accepts, conns, loops>>

\* ~EventLoopThread for each thread of the pool: quit() ...
QuitThread ==
  /\ \/ phase = "closing" /\ map = {}
     \/ phase = "joined"
  /\ cur <= n
  /\ quit' = [quit EXCEPT ![cur] = TRUE]
  /\ phase' = "joining"
  /\ UNCHANGED <<n, arrived, cur, listening, map, accepts, conns, at, queue, batch>>

\* ... and join().
Join ==
  /\ phase = "joining" /\ at[cur] = "exited"
  /\ phase' = "joined"
  /\ cur' = cur + 1
  /\ UNCHANGED <<n, arrived, listening, map, accepts, conns, loops>>

\* ~Acceptor, the last member.
DestroyAcceptor ==
  /\ \/ phase = "closing" /\ map = {}
     \/ phase = "joined"
  /\ cur > n
  /\ phase' = "gone"
  /\ listening' = FALSE
  /\ UNCHANGED <<n, arrived, cur, map, accepts, conns, loops>>

\* The base loop outlives the server, and is destroyed with its functors.
DestroyBase ==
  /\ phase = "gone" /\ at[0] # "exited"
  /\ at' = [at EXCEPT ![0] = "exited"]
  /\ queue' = [queue EXCEPT ![0] = <<>>]
  /\ UNCHANGED <<n, arrived, server, accepts, conns, quit, batch>>
-----------------------------------------------------------------------------
ClientConnects ==
  /\ arrived < MaxClients /\ phase = "up"
  /\ arrived' = arrived + 1
  /\ UNCHANGED <<n, server, accepts, conns, loops>>

LoopStep(l) ==
  \/ EnterLoop(l) \/ CheckQuit(l) \/ TakePending(l) \/ EndBatch(l)
  \/ RunEstablished(l) \/ RunDestroyed(l)
  \/ l = 0 /\ RunRemove

BaseStep ==
  \/ BeginDestroy \/ CloseNext \/ QuitThread \/ Join \/ DestroyAcceptor \/ DestroyBase

Next ==
  \/ Start \/ RunBase \/ QuitBase \/ ClientConnects
  \/ Accept \/ AcceptFails
  \/ \E c \in Connections : Shutdown(c) \/ HandleClose(c)
  \/ \E l \in Loops : LoopStep(l)
  \/ BaseStep

Spec == Init /\ [][Next]_vars

(***************************************************************************)
(* Fairness: every thread is scheduled, and as epoll is level-triggered,   *)
(* every poll() reports a listening socket that has a client.  Nobody need *)
(* connect, close or quit.                                                 *)
(***************************************************************************)
Fairness ==
  /\ \A l \in Loops : WF_vars(LoopStep(l))
  /\ WF_vars(BaseStep)
  /\ SF_vars(Accept)

FairSpec == Spec /\ Fairness
-----------------------------------------------------------------------------
(* Properties.                                                              *)

Ops == {"establish", "remove", "destroy"}

\* Types; connections have ids of their own, and only accepted ones are known.
TypeOK ==
  /\ n \in 0..MaxThreads /\ next \in 0..MaxThreads /\ cur \in 1..(MaxThreads + 1)
  /\ phase \in {"new", "up", "closing", "joining", "joined", "gone"}
  /\ listening \in BOOLEAN
  /\ arrived \in 0..MaxClients /\ lastId \in 0..arrived
  /\ map \subseteq 1..lastId /\ polled \subseteq 1..lastId
  /\ state \in [Connections -> {"none", "connecting", "up", "disconnecting", "down"}]
  /\ loopOf \in [Connections -> 0..n]
  /\ at \in [Loops -> {"out", "entering", "check", "events", "functors", "left", "exited"}]
  /\ quit \in [Loops -> BOOLEAN]
  /\ \A l \in Loops : Functors(l) \subseteq Ops \X (1..lastId)

\* A connection is not destroyed, by whichever thread drops the last reference,
\* while its loop runs and the poller has a pointer to its channel; functors are
\* only queued to loops that exist; and no loop that may call back into the
\* server outlives it.
NothingDangles ==
  /\ \A c \in polled : Alive(c) \/ at[loopOf[c]] = "exited"
  /\ \A l \in Loops : at[l] = "exited" => Functors(l) = {}
  /\ phase = "gone" => \A l \in PoolLoops : at[l] = "exited"

\* Connections go through their life in order, and are released early only by a
\* server that is closing.
Life == [c \in Connections |->
           IF c > lastId THEN "none"
           ELSE IF ~Alive(c) THEN "released"
           ELSE CASE state[c] = "connecting" -> "accepted"
                  [] state[c] \in {"up", "disconnecting"} -> "up"
                  [] state[c] = "down" -> "down"]
CL == INSTANCE ConnectionLife WITH life <- Life, closing <- phase \notin {"new", "up"}
LivesInOrder == CL!Spec

\* No descriptor leaks: a connection that went down is destroyed, although three
\* functors on two loops have to drop it first.
ClosedIsReleased ==
  \A c \in Connections : state[c] = "down" ~> ~Alive(c) \/ at[0] = "left"

\* The acceptor survives a shortage of descriptors: once there is one, the next
\* client is accepted.
AcceptsAgain ==
  \A c \in Connections :
    arrived >= c /\ at[0] = "events" /\ Cardinality(Open) < MaxFds ~> lastId >= c \/ quit[0]
                                                                     \/ Cardinality(Open) >= MaxFds

\* ~TcpServer returns, if the threads of the pool are in loop() by then, and
\* in the end every connection has been destroyed.
EverythingIsReleased ==
  phase = "closing" /\ (\A l \in PoolLoops : at[l] # "entering")
    ~> phase = "gone" /\ Open = {}
=============================================================================
