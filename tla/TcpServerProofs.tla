-------------------------- MODULE TcpServerProofs --------------------------
(***************************************************************************)
(* Proofs about TcpServer, for any number of threads, clients and          *)
(* descriptors: a connection that a poller points to is kept by            *)
(* connections_ or by a functor that will take it out of the poller;       *)
(* functors are queued only to loops that exist; and connections live as   *)
(* ConnectionLife says.                                                    *)
(***************************************************************************)
EXTENDS TcpServer, SequenceTheorems, TLAPS

Functor == Ops \X Connections

\* A functor g that would bring up a connection that another, f, came for before.
Reborn(f, g) == g[1] = "establish" /\ f[2] = g[2]
NoRebirth(s) == \A i, j \in DOMAIN s : i < j => ~Reborn(s[i], s[j])
InOrder(b, q) ==
  /\ NoRebirth(b) /\ NoRebirth(q)
  /\ \A f \in ToSet(b), g \in ToSet(q) : ~Reborn(f, g)

\* The invariant, beside TypeOK: the range of the counters ...
Counters ==
  /\ next \in 0..(IF n = 0 THEN 0 ELSE n - 1)
  /\ cur \in 1..(n + 1)

\* ... which loops there are in which phase of the server ...
Phases ==
  /\ \A l \in Loops : at[l] = "left" => l = 0
  /\ phase = "new" => \A l \in Loops : at[l] = "out"
  /\ phase \in {"new", "up", "closing"} =>
       cur = 1 /\ \A l \in PoolLoops : at[l] # "exited" /\ ~quit[l]
  /\ phase \notin {"new", "up"} => at[0] \in {"left", "exited"}
  /\ at[0] = "exited" => phase = "gone"
  /\ phase = "joining" => cur <= n
  /\ phase = "gone" => cur > n
  /\ \A l \in PoolLoops : l < cur => at[l] = "exited"

\* ... when functors are waiting ...
Queues ==
  /\ queue \in [Loops -> Seq(Functor)]
  /\ batch \in [Loops -> Seq(Functor)]
  /\ \A l \in Loops : at[l] # "functors" => batch[l] = <<>>
  /\ \A l \in Loops : at[l] = "exited" => queue[l] = <<>>

\* ... where ...
Places ==
  \A l \in Loops : \A f \in Functors(l) :
    /\ f[1] = "establish" => l = loopOf[f[2]] /\ l # 0
    /\ f[1] = "destroy" => l = loopOf[f[2]]
    /\ f[1] = "remove" => l = 0

\* ... in which order ...
Order == \A l \in Loops : InOrder(batch[l], queue[l])

\* ... for connections in which state ...
States ==
  \A c \in 1..lastId :
    /\ state[c] # "none"
    /\ <<"establish", c>> \in Functors(loopOf[c]) => state[c] = "connecting"
    /\ phase \in {"new", "up"}
         => /\ <<"remove", c>> \in Functors(0) => state[c] = "down"
            /\ <<"destroy", c>> \in Functors(loopOf[c]) => state[c] = "down"

\* ... and what keeps a connection that is, or will be, in a poller.
Watched(c) ==
  at[loopOf[c]] # "exited" /\ (c \in polled \/ <<"establish", c>> \in Functors(loopOf[c]))
Kept(c) ==
  c \in map \/ <<"remove", c>> \in Functors(0) \/ <<"destroy", c>> \in Functors(loopOf[c])
Referenced == \A c \in 1..lastId : Watched(c) => Kept(c)

Inv ==
  /\ TypeOK /\ Counters /\ Phases /\ Queues
  /\ Places /\ Order /\ States /\ Referenced
-----------------------------------------------------------------------------
(* Sequences of functors.                                                  *)

\* Nothing is queued in an empty queue.
LEMMA EmptyQueue == ToSet(<<>>) = {} /\ NoRebirth(<<>>)
  BY DEF ToSet, NoRebirth

\* Append adds one functor.
LEMMA SetOfAppend ==
  ASSUME NEW S, NEW s \in Seq(S), NEW e \in S
  PROVE  Append(s, e) \in Seq(S) /\ ToSet(Append(s, e)) = ToSet(s) \cup {e}
<1>1. /\ Append(s, e) \in Seq(S) /\ Len(Append(s, e)) = Len(s) + 1
      /\ \A i \in 1..Len(s) : Append(s, e)[i] = s[i]
      /\ Append(s, e)[Len(s) + 1] = e
  BY AppendProperties
<1>2. Len(s) \in Nat /\ DOMAIN s = 1..Len(s) /\ DOMAIN Append(s, e) = 1..(Len(s) + 1)
  BY <1>1, LenProperties
<1> QED  BY <1>1, <1>2 DEF ToSet

\* Head and Tail share out the functors.
LEMMA SetOfTail ==
  ASSUME NEW S, NEW s \in Seq(S), s # <<>>
  PROVE  /\ Head(s) \in S /\ Tail(s) \in Seq(S) /\ Len(s) \in Nat \ {0}
         /\ DOMAIN s = 1..Len(s) /\ Head(s) = s[1]
         /\ DOMAIN Tail(s) = 1..(Len(s) - 1)
         /\ \A i \in DOMAIN Tail(s) : Tail(s)[i] = s[i + 1]
         /\ ToSet(s) = {Head(s)} \cup ToSet(Tail(s))
<1>1. /\ Head(s) \in S /\ Tail(s) \in Seq(S) /\ Len(Tail(s)) = Len(s) - 1
      /\ \A i \in 1..Len(Tail(s)) : Tail(s)[i] = s[i + 1]
  BY HeadTailProperties
<1>2. Len(s) \in Nat \ {0} /\ DOMAIN s = 1..Len(s) /\ Head(s) = s[1]
  BY LenProperties, EmptySeq
<1>3. DOMAIN Tail(s) = 1..(Len(s) - 1)
  BY <1>1, LenProperties
<1>4. ToSet(s) = {Head(s)} \cup ToSet(Tail(s))
  <2>1. \A i \in 1..(Len(s) - 1) : i + 1 \in 1..Len(s) /\ Tail(s)[i] = s[i + 1]
    BY <1>1, <1>2, <1>3
  <2>2. \A i \in 1..Len(s) : i = 1 \/ (i - 1 \in 1..(Len(s) - 1) /\ s[i] = Tail(s)[i - 1])
    <3> SUFFICES ASSUME NEW i \in 1..Len(s), i # 1
                 PROVE  i - 1 \in 1..(Len(s) - 1) /\ s[i] = Tail(s)[i - 1]
      OBVIOUS
    <3>1. i - 1 \in 1..(Len(s) - 1) /\ (i - 1) + 1 = i
      BY <1>2
    <3>2. Tail(s)[i - 1] = s[(i - 1) + 1]
      BY <2>1, <3>1
    <3> QED  BY <3>1, <3>2
  <2>3. 1 \in 1..Len(s)
    BY <1>2
  <2>4. \A x : x \in ToSet(s) <=> \E i \in 1..Len(s) : x = s[i]
    BY <1>2 DEF ToSet
  <2>5. \A x : x \in ToSet(Tail(s)) <=> \E i \in 1..(Len(s) - 1) : x = Tail(s)[i]
    BY <1>3 DEF ToSet
  <2>6. ASSUME NEW x \in ToSet(s) PROVE x = Head(s) \/ x \in ToSet(Tail(s))
    <3>1. PICK i \in 1..Len(s) : x = s[i]
      BY <2>4
    <3>2. CASE i = 1
      BY <1>2, <3>1, <3>2
    <3>3. CASE i # 1
      <4>1. i - 1 \in 1..(Len(s) - 1) /\ x = Tail(s)[i - 1]
        BY <2>2, <3>1, <3>3
      <4> QED  BY <2>5, <4>1
    <3> QED  BY <3>2, <3>3
  <2>7. ASSUME NEW x \in ToSet(Tail(s)) PROVE x \in ToSet(s)
    BY <2>1, <2>4, <2>5
  <2>8. Head(s) \in ToSet(s)
    BY <1>2, <2>3, <2>4
  <2> QED  BY <2>6, <2>7, <2>8
<1> QED  BY <1>1, <1>2, <1>3, <1>4

\* What is queued keeps the order if it brings nothing up again.
LEMMA OrderOfAppend ==
  ASSUME NEW b \in Seq(Functor), NEW q \in Seq(Functor), NEW e \in Functor, InOrder(b, q),
         \A f \in ToSet(b) \cup ToSet(q) : ~Reborn(f, e)
  PROVE  InOrder(b, Append(q, e))
<1>1. /\ Append(q, e) \in Seq(Functor) /\ Len(Append(q, e)) = Len(q) + 1
      /\ \A i \in 1..Len(q) : Append(q, e)[i] = q[i]
      /\ Append(q, e)[Len(q) + 1] = e
  BY AppendProperties
<1>2. Len(q) \in Nat /\ DOMAIN q = 1..Len(q) /\ DOMAIN Append(q, e) = 1..(Len(q) + 1)
  BY <1>1, LenProperties
<1>3. NoRebirth(Append(q, e))
  <2> SUFFICES ASSUME NEW i \in 1..(Len(q) + 1), NEW j \in 1..(Len(q) + 1), i < j
               PROVE  ~Reborn(Append(q, e)[i], Append(q, e)[j])
    BY <1>2 DEF NoRebirth
  <2>1. i \in 1..Len(q) /\ Append(q, e)[i] = q[i] /\ q[i] \in ToSet(q)
    BY <1>1, <1>2 DEF ToSet
  <2>2. CASE j = Len(q) + 1
    BY <1>1, <2>1, <2>2
  <2>3. CASE j # Len(q) + 1
    <3>1. j \in 1..Len(q) /\ Append(q, e)[j] = q[j]
      BY <1>1, <1>2, <2>3
    <3> QED  BY <1>2, <2>1, <3>1 DEF InOrder, NoRebirth
  <2> QED  BY <2>2, <2>3
<1>4. ToSet(Append(q, e)) = ToSet(q) \cup {e}
  BY SetOfAppend
<1> QED  BY <1>3, <1>4 DEF InOrder

\* What is taken from the batch leaves the others in order, and a connection that is
\* destroyed does not come up any more.
LEMMA OrderOfTail ==
  ASSUME NEW b \in Seq(Functor), NEW q \in Seq(Functor), b # <<>>, InOrder(b, q)
  PROVE  /\ InOrder(Tail(b), q)
         /\ \A f \in ToSet(Tail(b)) \cup ToSet(q) : ~Reborn(Head(b), f)
<1>1. /\ Head(b) \in Functor /\ Tail(b) \in Seq(Functor) /\ Len(b) \in Nat \ {0}
      /\ DOMAIN b = 1..Len(b) /\ Head(b) = b[1]
      /\ DOMAIN Tail(b) = 1..(Len(b) - 1)
      /\ \A i \in DOMAIN Tail(b) : Tail(b)[i] = b[i + 1]
      /\ ToSet(b) = {Head(b)} \cup ToSet(Tail(b))
  BY SetOfTail
<1>2. NoRebirth(b) /\ NoRebirth(q) /\ \A f \in ToSet(b), g \in ToSet(q) : ~Reborn(f, g)
  BY DEF InOrder
<1>3. \A i \in 1..(Len(b) - 1) : 1 \in DOMAIN b /\ i + 1 \in DOMAIN b /\ 1 < i + 1
  BY <1>1
<1>4. \A i \in 1..(Len(b) - 1) : ~Reborn(b[1], b[i + 1])
  BY <1>2, <1>3 DEF NoRebirth
<1>5. NoRebirth(Tail(b))
  <2> SUFFICES ASSUME NEW i \in 1..(Len(b) - 1), NEW j \in 1..(Len(b) - 1), i < j
               PROVE  ~Reborn(b[i + 1], b[j + 1])
    BY <1>1 DEF NoRebirth
  <2>1. i + 1 \in DOMAIN b /\ j + 1 \in DOMAIN b /\ i + 1 < j + 1
    BY <1>1
  <2> QED  BY <1>2, <2>1 DEF NoRebirth
<1>6. \A f \in ToSet(Tail(b)) : ~Reborn(Head(b), f)
  BY <1>1, <1>4 DEF ToSet
<1>7. \A f \in ToSet(q) : ~Reborn(Head(b), f)
  BY <1>1, <1>2
<1>8. \A f \in ToSet(Tail(b)), g \in ToSet(q) : ~Reborn(f, g)
  BY <1>1, <1>2
<1> QED  BY <1>2, <1>5, <1>6, <1>7, <1>8 DEF InOrder
-----------------------------------------------------------------------------
(* What a step does to the functors of all loops.                          *)

\* Steps that leave the functors alone, and where connections belong.
LEMMA Undisturbed ==
  ASSUME Inv, UNCHANGED <<queue, batch, loopOf>>
  PROVE  /\ Places' /\ Order'
         /\ \A l \in Loops : Functors(l)' = Functors(l)
<1>1. \A l \in Loops : Functors(l)' = Functors(l)
  BY DEF Functors
<1> QED  BY <1>1 DEF Inv, Places, Order

\* If moreover no loop ends in it, only Phases is left to prove.
LEMMA Quiet ==
  ASSUME Inv, UNCHANGED <<n, next, lastId, map, polled, loopOf, queue, batch>>,
         arrived' \in 0..MaxClients, lastId <= arrived',
         cur' \in 1..(n + 1),
         phase' \in {"new", "up", "closing", "joining", "joined", "gone"},
         listening' \in BOOLEAN,
         state' \in [Connections -> {"none", "connecting", "up", "disconnecting", "down"}],
         at' \in [Loops -> {"out", "entering", "check", "events", "functors", "left", "exited"}],
         quit' \in [Loops -> BOOLEAN],
         \A l \in Loops : at[l] = "functors" /\ at'[l] # "functors" => batch[l] = <<>>,
         \A l \in Loops : at[l] = "exited" <=> at'[l] = "exited",
         \A c \in Connections :
           state'[c] = state[c] \/ (state[c] = "up" /\ state'[c] = "disconnecting"),
         phase' \in {"new", "up"} => phase \in {"new", "up"},
         Phases'
  PROVE  Inv'
<1>1. \A l \in Loops : Functors(l)' = Functors(l)
  BY Undisturbed
<1>2. Places' /\ Order'
  BY Undisturbed
<1>3. 0 \in Loops /\ \A c \in 1..lastId : loopOf[c] \in Loops
  BY BoundsAssumption DEF Inv, TypeOK, Loops, Connections
<1>4. Referenced'
  BY <1>1, <1>3 DEF Inv, Referenced, Watched, Kept
<1>5. Queues'
  BY DEF Inv, Queues
<1>6. TypeOK'
  <2>1. /\ n \in 0..MaxThreads /\ next \in 0..MaxThreads
        /\ lastId \in Nat /\ map \subseteq 1..lastId /\ polled \subseteq 1..lastId
        /\ loopOf \in [Connections -> 0..n]
        /\ \A l \in Loops : Functors(l) \subseteq Ops \X (1..lastId)
    BY BoundsAssumption DEF Inv, TypeOK
  <2>2. cur' \in 1..(MaxThreads + 1)
    BY <2>1, BoundsAssumption
  <2>3. lastId' \in 0..arrived'
    BY <2>1, BoundsAssumption
  <2>4. \A l \in Loops : Functors(l)' \subseteq Ops \X (1..lastId')
    BY <1>1, <2>1
  <2> QED  BY <2>1, <2>2, <2>3, <2>4 DEF TypeOK, Connections
<1>7. Counters'
  BY DEF Inv, Counters
<1>8. States'
  <2>1. 1..lastId \subseteq Connections
    BY BoundsAssumption DEF Inv, TypeOK, Connections
  <2> QED  BY <1>1, <1>3, <2>1 DEF Inv, States
<1> QED  BY <1>2, <1>4, <1>5, <1>6, <1>7, <1>8 DEF Inv
-----------------------------------------------------------------------------
(* The invariant is inductive.                                             *)

\* It holds of a new server.
LEMMA InvInitially == Init => Inv
<1> SUFFICES ASSUME Init PROVE Inv
  OBVIOUS
<1>1. \A l \in Loops : Functors(l) = {}
  BY EmptyQueue DEF Init, Functors
<1>2. <<>> \in Seq(Functor)
  BY EmptySeq
<1>3. TypeOK /\ Counters
  <2>1. n \in 0..MaxThreads /\ MaxThreads \in Nat /\ MaxClients \in Nat
    BY BoundsAssumption DEF Init
  <2>2. cur \in 1..(n + 1) /\ cur \in 1..(MaxThreads + 1)
    BY <2>1 DEF Init
  <2>3. next \in 0..MaxThreads /\ next \in 0..(IF n = 0 THEN 0 ELSE n - 1)
    BY <2>1 DEF Init
  <2>4. arrived \in 0..MaxClients /\ lastId \in 0..arrived
    BY <2>1 DEF Init
  <2>5. loopOf \in [Connections -> 0..n]
    BY <2>1 DEF Init
  <2> QED  BY <1>1, <2>1, <2>2, <2>3, <2>4, <2>5 DEF Init, TypeOK, Counters
<1>4. Phases
  BY BoundsAssumption DEF Init, Phases, Loops, PoolLoops
<1>5. Queues
  BY <1>2 DEF Init, Queues
<1>6. Places
  BY <1>1 DEF Places
<1>7. Order
  BY EmptyQueue DEF Init, Order, InOrder
<1>8. Referenced /\ States
  BY DEF Init, Referenced, States
<1> QED  BY <1>3, <1>4, <1>5, <1>6, <1>7, <1>8 DEF Inv

\* Steps of the base thread and of loops that leave every functor where it is.
LEMMA QuietSteps ==
  ASSUME Inv,
         \/ Start \/ RunBase \/ QuitBase \/ ClientConnects \/ AcceptFails
         \/ \E l \in Loops : EnterLoop(l) \/ EndBatch(l)
         \/ \E c \in Connections : Shutdown(c)
         \/ BeginDestroy \/ QuitThread \/ Join \/ DestroyAcceptor
         \/ UNCHANGED vars
  PROVE  Inv'
<1> USE DEF Inv, vars, server, accepts, conns, loops
<1>0. /\ n \in 0..MaxThreads /\ MaxThreads \in Nat /\ MaxClients \in Nat
      /\ cur \in 1..(n + 1) /\ 0 \in Loops /\ PoolLoops \subseteq Loops \ {0}
      /\ arrived \in 0..MaxClients /\ lastId \in 0..arrived
      /\ phase \in {"new", "up", "closing", "joining", "joined", "gone"}
      /\ listening \in BOOLEAN
      /\ state \in [Connections -> {"none", "connecting", "up", "disconnecting", "down"}]
      /\ at \in [Loops -> {"out", "entering", "check", "events", "functors", "left", "exited"}]
      /\ quit \in [Loops -> BOOLEAN]
      /\ Phases
  BY BoundsAssumption DEF TypeOK, Counters, Loops, PoolLoops
<1>1. CASE Start
  <2>1. Phases'
    BY <1>0, <1>1 DEF Start, Phases, PoolLoops
  <2> QED  BY <1>0, <1>1, <2>1, Quiet DEF Start, Phases
<1>2. CASE RunBase
  <2>1. Phases'
    BY <1>0, <1>2 DEF RunBase, Phases, PoolLoops
  <2> QED  BY <1>0, <1>2, <2>1, Quiet DEF RunBase, Phases
<1>3. CASE QuitBase
  <2>1. Phases'
    BY <1>0, <1>3 DEF QuitBase, Phases, PoolLoops
  <2> QED  BY <1>0, <1>3, <2>1, Quiet DEF QuitBase, Phases
<1>4. CASE ClientConnects
  <2>1. Phases'
    BY <1>0, <1>4 DEF ClientConnects, Phases, PoolLoops
  <2> QED  BY <1>0, <1>4, <2>1, Quiet DEF ClientConnects, Phases
<1>5. CASE AcceptFails \/ UNCHANGED vars
  <2>1. Phases'
    BY <1>0, <1>5 DEF AcceptFails, Phases, PoolLoops
  <2> QED  BY <1>0, <1>5, <2>1, Quiet DEF AcceptFails, Phases
<1>6. ASSUME NEW l \in Loops, EnterLoop(l) PROVE Inv'
  <2>1. Phases'
    BY <1>0, <1>6 DEF EnterLoop, Phases, PoolLoops
  <2> QED  BY <1>0, <1>6, <2>1, Quiet DEF EnterLoop, Phases
<1>7. ASSUME NEW l \in Loops, EndBatch(l) PROVE Inv'
  <2>1. Phases'
    BY <1>0, <1>7 DEF EndBatch, Phases, PoolLoops
  <2> QED  BY <1>0, <1>7, <2>1, Quiet DEF EndBatch, Phases
<1>8. ASSUME NEW c \in Connections, Shutdown(c) PROVE Inv'
  <2>1. Phases'
    BY <1>0, <1>8 DEF Shutdown, Phases, PoolLoops
  <2> QED  BY <1>0, <1>8, <2>1, Quiet DEF Shutdown, Phases
<1>9. CASE BeginDestroy
  <2>1. Phases'
    BY <1>0, <1>9 DEF BeginDestroy, Phases, PoolLoops
  <2> QED  BY <1>0, <1>9, <2>1, Quiet DEF BeginDestroy, Phases
<1>10. CASE QuitThread
  <2>1. Phases'
    BY <1>0, <1>10 DEF QuitThread, Phases, PoolLoops
  <2>2. quit' \in [Loops -> BOOLEAN]
    BY <1>0, <1>10 DEF QuitThread
  <2>3. /\ UNCHANGED <<n, next, lastId, map, polled, loopOf, queue, batch, at, arrived, cur,
                       listening, state>>
        /\ phase' = "joining"
    BY <1>10 DEF QuitThread
  <2> HIDE DEF Inv
  <2> QED  BY <1>0, <2>1, <2>2, <2>3, Quiet
<1>11. CASE Join
  <2>1. Phases'
    BY <1>0, <1>11 DEF Join, Phases, PoolLoops
  <2>2. cur' \in 1..(n + 1)
    BY <1>0, <1>11 DEF Join, Phases
  <2> QED  BY <1>0, <1>11, <2>1, <2>2, Quiet DEF Join, Phases
<1>12. CASE DestroyAcceptor
  <2>1. Phases'
    BY <1>0, <1>12 DEF DestroyAcceptor, Phases, PoolLoops
  <2> QED  BY <1>0, <1>12, <2>1, Quiet DEF DestroyAcceptor, Phases
<1> QED  BY <1>1, <1>2, <1>3, <1>4, <1>5, <1>6, <1>7, <1>8, <1>9, <1>10, <1>11, <1>12

\* What the cases below need of the invariant.
LEMMA Facts ==
  ASSUME Inv
  PROVE  /\ n \in 0..MaxThreads /\ MaxThreads \in Nat /\ MaxClients \in Nat
         /\ 0 \in Loops /\ PoolLoops \subseteq Loops
         /\ arrived \in 0..MaxClients /\ lastId \in 0..arrived
         /\ lastId \in Nat /\ 1..lastId \subseteq Connections
         /\ \A c \in Connections : loopOf[c] \in 0..n /\ loopOf[c] \in Loops
         /\ \A l \in Loops : /\ Functors(l) = ToSet(queue[l]) \cup ToSet(batch[l])
                             /\ Functors(l) \subseteq Ops \X (1..lastId)
         /\ queue \in [Loops -> Seq(Functor)] /\ batch \in [Loops -> Seq(Functor)]
         /\ \A l \in Loops : InOrder(batch[l], queue[l])
  BY BoundsAssumption
  DEF Inv, TypeOK, Queues, Order, Loops, PoolLoops, Connections, Functors

\* What is left of TypeOK in a step that only moves functors.
LEMMA MovedType ==
  ASSUME Inv, UNCHANGED <<n, next, lastId, cur, phase, listening, arrived, loopOf, quit>>,
         map' \subseteq 1..lastId, polled' \subseteq 1..lastId,
         state' \in [Connections -> {"none", "connecting", "up", "disconnecting", "down"}],
         at' \in [Loops -> {"out", "entering", "check", "events", "functors", "left", "exited"}],
         \A l \in Loops : Functors(l)' \subseteq Ops \X (1..lastId)
  PROVE  TypeOK' /\ Counters'
  BY DEF Inv, TypeOK, Counters

\* What is left of States in a step that brings up and removes nothing new.
LEMMA MovedStates ==
  ASSUME Inv, UNCHANGED <<lastId, loopOf, phase>>,
         \A d \in 1..lastId :
           /\ state'[d] # "none"
           /\ <<"establish", d>> \in Functors(loopOf[d])'
                => <<"establish", d>> \in Functors(loopOf[d]) /\ state'[d] = state[d]
           /\ phase \in {"new", "up"}
                => /\ state[d] = "down" => state'[d] = "down"
                   /\ <<"remove", d>> \in Functors(0)'
                        => <<"remove", d>> \in Functors(0) \/ state'[d] = "down"
                   /\ <<"destroy", d>> \in Functors(loopOf[d])'
                        => <<"destroy", d>> \in Functors(loopOf[d]) \/ state'[d] = "down"
  PROVE  States'
<1> SUFFICES ASSUME NEW c \in 1..lastId
             PROVE  /\ state'[c] # "none"
                    /\ <<"establish", c>> \in Functors(loopOf[c])' => state'[c] = "connecting"
                    /\ phase \in {"new", "up"}
                         => /\ <<"remove", c>> \in Functors(0)' => state'[c] = "down"
                            /\ <<"destroy", c>> \in Functors(loopOf[c])' => state'[c] = "down"
  BY DEF States
<1>1. /\ <<"establish", c>> \in Functors(loopOf[c]) => state[c] = "connecting"
      /\ phase \in {"new", "up"}
           => /\ <<"remove", c>> \in Functors(0) => state[c] = "down"
              /\ <<"destroy", c>> \in Functors(loopOf[c]) => state[c] = "down"
  BY DEF Inv, States
<1> QED  BY <1>1

\* The next functor of a batch, and what taking it does.
LEMMA Taken ==
  ASSUME Inv, NEW l \in Loops, NEW op, Starts(l, op), Dequeue(l)
  PROVE  /\ at[l] = "functors" /\ op \in Ops
         /\ Of(l) \in 1..lastId /\ <<op, Of(l)>> \in Functors(l)
         /\ batch' \in [Loops -> Seq(Functor)]
         /\ \A k \in Loops : k # l => batch'[k] = batch[k]
         /\ ToSet(batch[l]) = {<<op, Of(l)>>} \cup ToSet(batch'[l])
         /\ \A f \in ToSet(batch'[l]) \cup ToSet(queue[l]) : ~Reborn(<<op, Of(l)>>, f)
         /\ \A k \in Loops : InOrder(batch'[k], queue[k])
<1> DEFINE e == Head(batch[l])
<1>1. /\ at[l] = "functors" /\ batch[l] # <<>> /\ e[1] = op /\ Of(l) = e[2]
      /\ batch' = [batch EXCEPT ![l] = Tail(@)]
  BY DEF Starts, Of, Dequeue
<1>2. /\ queue \in [Loops -> Seq(Functor)] /\ batch \in [Loops -> Seq(Functor)]
      /\ \A k \in Loops : InOrder(batch[k], queue[k])
      /\ Functors(l) = ToSet(queue[l]) \cup ToSet(batch[l])
      /\ Functors(l) \subseteq Ops \X (1..lastId)
  BY Facts
<1>3. /\ batch' \in [Loops -> Seq(Functor)]
      /\ \A k \in Loops : k # l => batch'[k] = batch[k]
      /\ ToSet(batch[l]) = {e} \cup ToSet(batch'[l])
      /\ \A f \in ToSet(batch'[l]) \cup ToSet(queue[l]) : ~Reborn(e, f)
      /\ \A k \in Loops : InOrder(batch'[k], queue[k])
  <2>1. batch[l] \in Seq(Functor) /\ queue[l] \in Seq(Functor) /\ InOrder(batch[l], queue[l])
    BY <1>2
  <2>2. /\ e \in Functor /\ Tail(batch[l]) \in Seq(Functor)
        /\ ToSet(batch[l]) = {e} \cup ToSet(Tail(batch[l]))
    BY <1>1, <2>1, SetOfTail
  <2>3. /\ InOrder(Tail(batch[l]), queue[l])
        /\ \A f \in ToSet(Tail(batch[l])) \cup ToSet(queue[l]) : ~Reborn(e, f)
    BY <1>1, <2>1, OrderOfTail
  <2>4. batch' \in [Loops -> Seq(Functor)] /\ batch'[l] = Tail(batch[l])
    BY <1>1, <1>2, <2>2
  <2>5. \A k \in Loops : k # l => batch'[k] = batch[k]
    BY <1>1, <1>2
  <2> HIDE DEF e
  <2> QED  BY <1>2, <2>2, <2>3, <2>4, <2>5, Zenon
<1> HIDE DEF e
<1>4. e \in Functors(l) /\ e \in Ops \X (1..lastId)
  BY <1>2, <1>3
<1>5. e = <<op, Of(l)>> /\ op \in Ops /\ Of(l) \in 1..lastId
  BY <1>1, <1>4
<1> QED  BY <1>1, <1>3, <1>4, <1>5

\* What queueInLoop() does, in a step that may have taken a functor as well.
LEMMA Queued ==
  ASSUME Inv, NEW l \in Loops, NEW op \in Ops, NEW c \in Connections, Queue(l, op, c),
         \A k \in Loops : batch'[k] \in Seq(Functor) /\ InOrder(batch'[k], queue[k]),
         \A f \in ToSet(batch'[l]) \cup ToSet(queue[l]) : ~Reborn(f, <<op, c>>)
  PROVE  /\ queue' \in [Loops -> Seq(Functor)]
         /\ \A k \in Loops : k # l => queue'[k] = queue[k]
         /\ ToSet(queue'[l]) = ToSet(queue[l]) \cup {<<op, c>>}
         /\ \A k \in Loops : InOrder(batch'[k], queue'[k])
<1> DEFINE e == <<op, c>>
<1>1. e \in Functor /\ queue' = [queue EXCEPT ![l] = Append(@, e)]
  BY DEF Functor, Queue
<1> HIDE DEF e
<1>2. queue \in [Loops -> Seq(Functor)]
  BY Facts
<1>3. Append(queue[l], e) \in Seq(Functor) /\ ToSet(Append(queue[l], e)) = ToSet(queue[l]) \cup {e}
  BY <1>1, <1>2, SetOfAppend
<1>4. InOrder(batch'[l], Append(queue[l], e))
  <2>1. \A f \in ToSet(batch'[l]) \cup ToSet(queue[l]) : ~Reborn(f, e)
    BY DEF e
  <2>2. batch'[l] \in Seq(Functor) /\ queue[l] \in Seq(Functor) /\ InOrder(batch'[l], queue[l])
    BY <1>2
  <2> QED  BY <1>1, <2>1, <2>2, OrderOfAppend
<1>5. queue' \in [Loops -> Seq(Functor)] /\ queue'[l] = Append(queue[l], e)
  BY <1>1, <1>2, <1>3
<1>6. \A k \in Loops : k # l => queue'[k] = queue[k]
  BY <1>1, <1>2
<1>7. \A k \in Loops : InOrder(batch'[k], queue'[k])
  BY <1>4, <1>5, <1>6, Zenon
<1> QED  BY <1>3, <1>5, <1>6, <1>7 DEF e

\* connectEstablished(): the connection was kept while it waited, and still is.
LEMMA EstablishedStep ==
  ASSUME Inv, NEW l \in Loops, RunEstablished(l)
  PROVE  Inv'
<1> DEFINE c == Of(l)
<1>1. /\ Starts(l, "establish") /\ Dequeue(l)
      /\ state' = [state EXCEPT ![c] = "up"] /\ polled' = polled \cup {c}
      /\ UNCHANGED <<n, arrived, server, accepts, at, quit, queue>>
  BY DEF RunEstablished, Established
<1>2. /\ at[l] = "functors" /\ c \in 1..lastId /\ <<"establish", c>> \in Functors(l)
      /\ batch' \in [Loops -> Seq(Functor)]
      /\ \A k \in Loops : k # l => batch'[k] = batch[k]
      /\ ToSet(batch[l]) = {<<"establish", c>>} \cup ToSet(batch'[l])
      /\ \A f \in ToSet(batch'[l]) \cup ToSet(queue[l]) : ~Reborn(<<"establish", c>>, f)
      /\ \A k \in Loops : InOrder(batch'[k], queue[k])
  BY <1>1, Taken
<1> HIDE DEF c
<1>3. /\ \A k \in Loops : /\ Functors(k)' \subseteq Functors(k)
                          /\ Functors(k) \subseteq Functors(k)' \cup {<<"establish", c>>}
      /\ \A k \in Loops : Functors(k) \subseteq Ops \X (1..lastId)
  BY <1>1, <1>2, Facts DEF Functors
<1>4. TypeOK' /\ Counters'
  <2>1. state' \in [Connections -> {"none", "connecting", "up", "disconnecting", "down"}]
    BY <1>1 DEF Inv, TypeOK
  <2>2. polled' \subseteq 1..lastId /\ map' \subseteq 1..lastId
    BY <1>1, <1>2 DEF Inv, TypeOK, server
  <2>3. at' \in [Loops -> {"out", "entering", "check", "events", "functors", "left", "exited"}]
    BY <1>1 DEF Inv, TypeOK
  <2>4. UNCHANGED <<n, next, lastId, cur, phase, listening, arrived, loopOf, quit>>
    BY <1>1 DEF server, accepts
  <2> QED  BY <1>3, <2>1, <2>2, <2>3, <2>4, MovedType
<1>5. Phases'
  BY <1>1 DEF Inv, Phases, PoolLoops, server
<1>6. Queues'
  BY <1>1, <1>2 DEF Inv, Queues
<1>7. Places'
  BY <1>1, <1>3 DEF Inv, Places, accepts
<1>8. Order'
  BY <1>1, <1>2 DEF Order
<1>9. Referenced'
  <2> SUFFICES ASSUME NEW d \in 1..lastId, Watched(d)'
               PROVE  Kept(d)'
    BY <1>1 DEF Referenced, accepts
  <2>1. UNCHANGED <<at, map, loopOf>> /\ 0 \in Loops /\ loopOf[d] \in Loops
    BY <1>1, Facts DEF accepts, server
  <2>2. d = c => <<"establish", d>> \in Functors(loopOf[d])
    BY <1>2 DEF Inv, Places
  <2>3. Watched(d)
    BY <1>1, <1>3, <2>1, <2>2 DEF Watched
  <2>4. Kept(d)
    BY <2>3 DEF Inv, Referenced
  <2> QED  BY <1>3, <2>1, <2>4 DEF Kept
<1>10. States'
  <2>1. l = loopOf[c] /\ 0 \in Loops /\ \A d \in 1..lastId : loopOf[d] \in Loops
    BY <1>2, Facts DEF Inv, Places
  <2>2. state[c] = "connecting" /\ c \in Connections
    BY <1>2, <2>1, Facts DEF Inv, States
  <2>3. UNCHANGED <<lastId, loopOf, phase>>
    BY <1>1 DEF accepts, server
  <2>4. state'[c] = "up" /\ \A d \in 1..lastId : d # c => state'[d] = state[d]
    BY <1>1, <2>2, Facts DEF Inv, TypeOK
  <2>5. <<"establish", c>> \notin Functors(l)'
    <3>1. Functors(l)' = ToSet(batch'[l]) \cup ToSet(queue[l])
      BY <1>1 DEF Functors
    <3>2. Reborn(<<"establish", c>>, <<"establish", c>>)
      BY DEF Reborn
    <3> QED  BY <1>2, <3>1, <3>2
  <2>6. phase \in {"new", "up"}
          => <<"remove", c>> \notin Functors(0)' /\ <<"destroy", c>> \notin Functors(l)'
    BY <1>2, <1>3, <2>1, <2>2 DEF Inv, States
  <2>7. \A d \in 1..lastId : state[d] # "none"
    BY DEF Inv, States
  <2> QED  BY <1>2, <1>3, <2>1, <2>2, <2>3, <2>4, <2>5, <2>6, <2>7, MovedStates
<1> QED  BY <1>4, <1>5, <1>6, <1>7, <1>8, <1>9, <1>10 DEF Inv

\* connectDestroyed(): no functor behind it brings the connection up again.
LEMMA DestroyedStep ==
  ASSUME Inv, NEW l \in Loops, RunDestroyed(l)
  PROVE  Inv'
<1> DEFINE c == Of(l)
<1>1. /\ Starts(l, "destroy") /\ Dequeue(l)
      /\ state' = [state EXCEPT ![c] = IF @ = "up" THEN "down" ELSE @]
      /\ polled' = polled \ {c}
      /\ UNCHANGED <<n, arrived, server, accepts, at, quit, queue>>
  BY DEF RunDestroyed, Destroyed
<1>2. /\ at[l] = "functors" /\ c \in 1..lastId /\ <<"destroy", c>> \in Functors(l)
      /\ batch' \in [Loops -> Seq(Functor)]
      /\ \A k \in Loops : k # l => batch'[k] = batch[k]
      /\ ToSet(batch[l]) = {<<"destroy", c>>} \cup ToSet(batch'[l])
      /\ \A f \in ToSet(batch'[l]) \cup ToSet(queue[l]) : ~Reborn(<<"destroy", c>>, f)
      /\ \A k \in Loops : InOrder(batch'[k], queue[k])
  BY <1>1, Taken
<1> HIDE DEF c
<1>3. /\ \A k \in Loops : /\ Functors(k)' \subseteq Functors(k)
                          /\ Functors(k) \subseteq Functors(k)' \cup {<<"destroy", c>>}
      /\ \A k \in Loops : Functors(k) \subseteq Ops \X (1..lastId)
  BY <1>1, <1>2, Facts DEF Functors
<1>4. TypeOK' /\ Counters'
  <2>1. state' \in [Connections -> {"none", "connecting", "up", "disconnecting", "down"}]
    BY <1>1 DEF Inv, TypeOK
  <2>2. polled' \subseteq 1..lastId /\ map' \subseteq 1..lastId
    BY <1>1, <1>2 DEF Inv, TypeOK, server
  <2>3. at' \in [Loops -> {"out", "entering", "check", "events", "functors", "left", "exited"}]
    BY <1>1 DEF Inv, TypeOK
  <2>4. UNCHANGED <<n, next, lastId, cur, phase, listening, arrived, loopOf, quit>>
    BY <1>1 DEF server, accepts
  <2> QED  BY <1>3, <2>1, <2>2, <2>3, <2>4, MovedType
<1>5. Phases'
  BY <1>1 DEF Inv, Phases, PoolLoops, server
<1>6. Queues'
  BY <1>1, <1>2 DEF Inv, Queues
<1>7. Places'
  BY <1>1, <1>3 DEF Inv, Places, accepts
<1>8. Order'
  BY <1>1, <1>2 DEF Order
<1>9. Referenced'
  <2> SUFFICES ASSUME NEW d \in 1..lastId, Watched(d)'
               PROVE  Kept(d)'
    BY <1>1 DEF Referenced, accepts
  <2>1. UNCHANGED <<at, map, loopOf>> /\ 0 \in Loops /\ loopOf[d] \in Loops
    BY <1>1, Facts DEF accepts, server
  <2>2. Watched(d)
    BY <1>1, <1>3, <2>1 DEF Watched
  <2>3. Kept(d)
    BY <2>2 DEF Inv, Referenced
  <2>4. l = loopOf[c]
    BY <1>2 DEF Inv, Places
  <2>5. d # c
    <3> SUFFICES ASSUME d = c PROVE FALSE
      OBVIOUS
    <3>1. <<"establish", c>> \in Functors(l)'
      BY <1>1, <2>1, <2>4 DEF Watched
    <3>2. <<"establish", c>> \in ToSet(batch'[l]) \cup ToSet(queue[l])
      BY <1>1, <3>1 DEF Functors
    <3> QED  BY <1>2, <3>2 DEF Reborn
  <2> QED  BY <1>3, <2>1, <2>3, <2>5 DEF Kept
<1>10. States'
  <2>1. l = loopOf[c] /\ 0 \in Loops /\ \A d \in 1..lastId : loopOf[d] \in Loops
    BY <1>2, Facts DEF Inv, Places
  <2>2. UNCHANGED <<lastId, loopOf, phase>>
    BY <1>1 DEF accepts, server
  <2>3. \A d \in 1..lastId : state[d] # "none" /\ d \in Connections
    BY Facts DEF Inv, States
  <2>4. /\ state'[c] = IF state[c] = "up" THEN "down" ELSE state[c]
        /\ \A d \in 1..lastId : d # c => state'[d] = state[d]
    BY <1>1, <1>2, <2>3 DEF Inv, TypeOK
  <2>5. <<"establish", c>> \notin Functors(l)'
    <3>1. Functors(l)' = ToSet(batch'[l]) \cup ToSet(queue[l])
      BY <1>1 DEF Functors
    <3>2. Reborn(<<"destroy", c>>, <<"establish", c>>)
      BY DEF Reborn
    <3> QED  BY <1>2, <3>1, <3>2
  <2> QED  BY <1>2, <1>3, <2>1, <2>2, <2>3, <2>4, <2>5, MovedStates
<1> QED  BY <1>4, <1>5, <1>6, <1>7, <1>8, <1>9, <1>10 DEF Inv

\* doPendingFunctors() swaps the vectors.
LEMMA TakePendingStep ==
  ASSUME Inv, NEW l \in Loops, TakePending(l)
  PROVE  Inv'
<1>1. /\ at[l] = "events" /\ at' = [at EXCEPT ![l] = "functors"]
      /\ batch' = [batch EXCEPT ![l] = queue[l]]
      /\ queue' = [queue EXCEPT ![l] = <<>>]
      /\ UNCHANGED <<n, arrived, server, accepts, conns, quit>>
  BY DEF TakePending
<1>2. batch[l] = <<>> /\ <<>> \in Seq(Functor)
  BY <1>1, EmptySeq DEF Inv, Queues
<1>3. /\ queue' \in [Loops -> Seq(Functor)] /\ batch' \in [Loops -> Seq(Functor)]
      /\ queue'[l] = <<>> /\ batch'[l] = queue[l]
      /\ \A k \in Loops : k # l => queue'[k] = queue[k] /\ batch'[k] = batch[k]
  BY <1>1, <1>2, Facts
<1>4. \A k \in Loops : Functors(k)' = Functors(k)
  BY <1>2, <1>3, EmptyQueue DEF Functors
<1>5. /\ at' \in [Loops -> {"out", "entering", "check", "events", "functors", "left", "exited"}]
      /\ at'[l] = "functors" /\ \A k \in Loops : k # l => at'[k] = at[k]
  BY <1>1 DEF Inv, TypeOK
<1>6. TypeOK' /\ Counters'
  <2>1. /\ state' \in [Connections -> {"none", "connecting", "up", "disconnecting", "down"}]
        /\ polled' \subseteq 1..lastId /\ map' \subseteq 1..lastId
    BY <1>1 DEF Inv, TypeOK, server, conns
  <2>2. UNCHANGED <<n, next, lastId, cur, phase, listening, arrived, loopOf, quit>>
    BY <1>1 DEF server, accepts
  <2>3. \A k \in Loops : Functors(k)' \subseteq Ops \X (1..lastId)
    BY <1>4, Facts
  <2> QED  BY <1>5, <2>1, <2>2, <2>3, MovedType
<1>7. Phases'
  BY <1>1, <1>5, Facts DEF Inv, Phases, PoolLoops, server
<1>8. Queues'
  BY <1>1, <1>3, <1>5 DEF Inv, Queues
<1>9. Places'
  BY <1>1, <1>4 DEF Inv, Places, accepts
<1>10. Order'
  BY <1>2, <1>3, EmptyQueue DEF Inv, Order, InOrder
<1>11. Referenced'
  <2> SUFFICES ASSUME NEW d \in 1..lastId, Watched(d)'
               PROVE  Kept(d)'
    BY <1>1 DEF Referenced, accepts
  <2>1. UNCHANGED <<map, polled, loopOf>> /\ 0 \in Loops /\ loopOf[d] \in Loops
    BY <1>1, Facts DEF accepts, server, conns
  <2>2. at'[loopOf[d]] # "exited" => at[loopOf[d]] # "exited"
    BY <1>1, <1>5, <2>1
  <2>3. Watched(d)
    BY <1>4, <2>1, <2>2 DEF Watched
  <2>4. Kept(d)
    BY <2>3 DEF Inv, Referenced
  <2> QED  BY <1>4, <2>1, <2>4 DEF Kept
<1>12. States'
  <2>1. 0 \in Loops /\ \A d \in 1..lastId : loopOf[d] \in Loops /\ state[d] # "none"
    BY Facts DEF Inv, States
  <2>2. UNCHANGED <<lastId, loopOf, phase, state>>
    BY <1>1 DEF accepts, server, conns
  <2> QED  BY <1>4, <2>1, <2>2, MovedStates
<1> QED  BY <1>6, <1>7, <1>8, <1>9, <1>10, <1>11, <1>12 DEF Inv

\* A loop of the pool that ends destroys its own functors and no others.
LEMMA CheckQuitStep ==
  ASSUME Inv, NEW l \in Loops, CheckQuit(l)
  PROVE  Inv'
<1>1. /\ at[l] = "check"
      /\ at' = [at EXCEPT ![l] = IF ~quit[l] THEN "events" ELSE IF l = 0 THEN "left" ELSE "exited"]
      /\ queue' = [queue EXCEPT ![l] = IF at'[l] = "exited" THEN <<>> ELSE @]
      /\ UNCHANGED <<n, arrived, server, accepts, conns, quit, batch>>
  BY DEF CheckQuit
<1>2. batch[l] = <<>> /\ <<>> \in Seq(Functor)
  BY <1>1, EmptySeq DEF Inv, Queues
<1>3. /\ at' \in [Loops -> {"out", "entering", "check", "events", "functors", "left", "exited"}]
      /\ at'[l] = IF ~quit[l] THEN "events" ELSE IF l = 0 THEN "left" ELSE "exited"
      /\ \A k \in Loops : k # l => at'[k] = at[k]
  BY <1>1 DEF Inv, TypeOK
<1>4. /\ queue' \in [Loops -> Seq(Functor)]
      /\ queue'[l] = IF at'[l] = "exited" THEN <<>> ELSE queue[l]
      /\ \A k \in Loops : k # l => queue'[k] = queue[k]
  BY <1>1, <1>2, Facts
<1>5. /\ \A k \in Loops : at'[k] # "exited" => Functors(k)' = Functors(k)
      /\ \A k \in Loops : Functors(k)' \subseteq Functors(k)
      /\ Functors(0)' = Functors(0)
  <2>1. \A k \in Loops : k # l => Functors(k)' = Functors(k)
    BY <1>1, <1>4 DEF Functors
  <2>2. at'[l] # "exited" => Functors(l)' = Functors(l)
    BY <1>1, <1>4 DEF Functors
  <2>3. Functors(l)' \subseteq Functors(l)
    BY <1>1, <1>4, EmptyQueue DEF Functors
  <2>4. l = 0 => at'[l] # "exited"
    BY <1>3
  <2> QED  BY <2>1, <2>2, <2>3, <2>4, Facts
<1>6. TypeOK' /\ Counters'
  <2>1. /\ state' \in [Connections -> {"none", "connecting", "up", "disconnecting", "down"}]
        /\ polled' \subseteq 1..lastId /\ map' \subseteq 1..lastId
    BY <1>1 DEF Inv, TypeOK, server, conns
  <2>2. UNCHANGED <<n, next, lastId, cur, phase, listening, arrived, loopOf, quit>>
    BY <1>1 DEF server, accepts
  <2>3. \A k \in Loops : Functors(k)' \subseteq Ops \X (1..lastId)
    BY <1>5, Facts
  <2> QED  BY <1>3, <2>1, <2>2, <2>3, MovedType
<1>7. Phases'
  BY <1>1, <1>3, Facts DEF Inv, Phases, PoolLoops, server
<1>8. Queues'
  BY <1>1, <1>2, <1>3, <1>4 DEF Inv, Queues
<1>9. Places'
  BY <1>1, <1>5 DEF Inv, Places, accepts
<1>10. Order'
  BY <1>1, <1>2, <1>4, EmptyQueue DEF Inv, Order, InOrder
<1>11. Referenced'
  <2> SUFFICES ASSUME NEW d \in 1..lastId, Watched(d)'
               PROVE  Kept(d)'
    BY <1>1 DEF Referenced, accepts
  <2>1. /\ UNCHANGED <<map, polled, loopOf>> /\ loopOf[d] \in Loops
        /\ at'[loopOf[d]] # "exited"
    BY <1>1, Facts DEF accepts, server, conns, Watched
  <2>2. at[loopOf[d]] # "exited" /\ Functors(loopOf[d])' = Functors(loopOf[d])
    BY <1>1, <1>3, <1>5, <2>1
  <2>3. Watched(d)
    BY <2>1, <2>2 DEF Watched
  <2>4. Kept(d)
    BY <2>3 DEF Inv, Referenced
  <2> QED  BY <1>5, <2>1, <2>2, <2>4 DEF Kept
<1>12. States'
  <2>1. 0 \in Loops /\ \A d \in 1..lastId : loopOf[d] \in Loops /\ state[d] # "none"
    BY Facts DEF Inv, States
  <2>2. UNCHANGED <<lastId, loopOf, phase, state>>
    BY <1>1 DEF accepts, server, conns
  <2> QED  BY <1>5, <2>1, <2>2, MovedStates
<1> QED  BY <1>6, <1>7, <1>8, <1>9, <1>10, <1>11, <1>12 DEF Inv

\* removeConnectionInLoop(): the I/O loop exists as long as the base loop runs.
LEMMA RemoveStep ==
  ASSUME Inv, RunRemove
  PROVE  Inv'
<1> DEFINE c == Of(0)
           l == loopOf[c]
           e == <<"destroy", c>>
<1>1. /\ Starts(0, "remove") /\ Dequeue(0)
      /\ map' = map \ {c}
      /\ queue' = [queue EXCEPT ![l] = Append(@, e)]
      /\ UNCHANGED <<n, arrived, phase, cur, listening, accepts, conns, at, quit>>
  BY DEF RunRemove, RemoveInLoop, Queue
<1>0. 0 \in Loops
  BY Facts
<1>2. /\ at[0] = "functors" /\ c \in 1..lastId /\ <<"remove", c>> \in Functors(0)
      /\ batch' \in [Loops -> Seq(Functor)]
      /\ \A k \in Loops : k # 0 => batch'[k] = batch[k]
      /\ ToSet(batch[0]) = {<<"remove", c>>} \cup ToSet(batch'[0])
      /\ \A k \in Loops : InOrder(batch'[k], queue[k])
  BY <1>0, <1>1, Taken
<1> HIDE DEF c
<1>3. c \in Connections /\ l \in Loops /\ l \in 0..n /\ e \in Functor
  BY <1>2, Facts DEF Functor, Ops
<1>4. at[l] # "exited"
  <2>1. at[0] \notin {"left", "exited"}
    BY <1>2
  <2>2. phase \in {"new", "up"}
    BY <2>1 DEF Inv, Phases
  <2>3. \A k \in PoolLoops : at[k] # "exited"
    BY <2>2 DEF Inv, Phases
  <2>4. l = 0 \/ l \in PoolLoops
    BY <1>3, Facts DEF PoolLoops
  <2> QED  BY <1>2, <2>3, <2>4
<1> HIDE DEF l
<1>5. \A f \in ToSet(batch'[l]) \cup ToSet(queue[l]) : ~Reborn(f, e)
  BY DEF Reborn
<1> HIDE DEF e
<1>6. /\ queue' \in [Loops -> Seq(Functor)]
      /\ \A k \in Loops : k # l => queue'[k] = queue[k]
      /\ ToSet(queue'[l]) = ToSet(queue[l]) \cup {e}
      /\ \A k \in Loops : InOrder(batch'[k], queue'[k])
  <2>1. Queue(l, "destroy", c) /\ "destroy" \in Ops
    BY <1>1 DEF Queue, e, Ops
  <2>2. \A k \in Loops : batch'[k] \in Seq(Functor) /\ InOrder(batch'[k], queue[k])
    BY <1>2
  <2> QED  BY <1>3, <1>5, <2>1, <2>2, Queued DEF e
<1>7. /\ \A k \in Loops : Functors(k)' \subseteq Functors(k) \cup (IF k = l THEN {e} ELSE {})
      /\ \A k \in Loops : Functors(k) \subseteq
                           Functors(k)' \cup (IF k = 0 THEN {<<"remove", c>>} ELSE {})
      /\ \A k \in Loops : k = l => e \in Functors(k)'
      /\ \A k \in Loops : Functors(k) \subseteq Ops \X (1..lastId)
  <2>1. \A k \in Loops : /\ Functors(k) = ToSet(queue[k]) \cup ToSet(batch[k])
                         /\ Functors(k) \subseteq Ops \X (1..lastId)
    BY Facts
  <2>2. \A k \in Loops : Functors(k)' = ToSet(queue'[k]) \cup ToSet(batch'[k])
    BY DEF Functors
  <2>3. \A k \in Loops :
          ToSet(queue'[k]) = ToSet(queue[k]) \cup (IF k = l THEN {e} ELSE {})
    BY <1>6
  <2>4. \A k \in Loops :
          ToSet(batch[k]) = ToSet(batch'[k]) \cup (IF k = 0 THEN {<<"remove", c>>} ELSE {})
    BY <1>2
  <2> QED  BY <2>1, <2>2, <2>3, <2>4
<1>8. TypeOK' /\ Counters'
  <2>1. /\ state' \in [Connections -> {"none", "connecting", "up", "disconnecting", "down"}]
        /\ polled' \subseteq 1..lastId /\ map' \subseteq 1..lastId
    BY <1>1 DEF Inv, TypeOK, conns
  <2>2. at' \in [Loops -> {"out", "entering", "check", "events", "functors", "left", "exited"}]
    BY <1>1 DEF Inv, TypeOK
  <2>3. UNCHANGED <<n, next, lastId, cur, phase, listening, arrived, loopOf, quit>>
    BY <1>1 DEF accepts
  <2>4. e \in Ops \X (1..lastId)
    BY <1>2 DEF e, Ops
  <2>5. \A k \in Loops : Functors(k)' \subseteq Ops \X (1..lastId)
    BY <1>7, <2>4
  <2> QED  BY <2>1, <2>2, <2>3, <2>5, MovedType
<1>9. Phases'
  BY <1>1 DEF Inv, Phases, PoolLoops
<1>10. Queues'
  BY <1>1, <1>2, <1>4, <1>6 DEF Inv, Queues
<1>11. Places'
  <2>1. e[1] = "destroy" /\ e[2] = c /\ l = loopOf[c]
    BY DEF e, l
  <2> QED  BY <1>1, <1>7, <2>1 DEF Inv, Places, accepts
<1>12. Order'
  BY <1>6 DEF Order
<1>13. Referenced'
  <2> SUFFICES ASSUME NEW d \in 1..lastId, Watched(d)'
               PROVE  Kept(d)'
    BY <1>1 DEF Referenced, accepts
  <2>1. /\ UNCHANGED <<at, polled, loopOf>> /\ loopOf[d] \in Loops
    BY <1>1, Facts DEF accepts, conns
  <2>2. CASE d = c
    <3>1. loopOf[d] = l /\ <<"destroy", d>> = e
      BY <2>2 DEF e, l
    <3>2. \A k \in Loops : k = loopOf[d] => <<"destroy", d>> \in Functors(k)'
      BY <1>7, <3>1
    <3> QED  BY <2>1, <3>2 DEF Kept
  <2>3. CASE d # c
    <3>1. <<"establish", d>> # e
      BY DEF e
    <3>2. Watched(d)
      BY <1>7, <2>1, <3>1 DEF Watched
    <3>3. Kept(d)
      BY <3>2 DEF Inv, Referenced
    <3>4. <<"remove", d>> # <<"remove", c>> /\ <<"destroy", d>> # <<"remove", c>>
      BY <2>3
    <3>5. d \in map => d \in map'
      BY <1>1, <2>3
    <3> QED  BY <1>0, <1>7, <2>1, <3>3, <3>4, <3>5 DEF Kept
  <2> QED  BY <2>2, <2>3
<1>14. States'
  <2>1. \A d \in 1..lastId : loopOf[d] \in Loops /\ state[d] # "none"
    BY Facts DEF Inv, States
  <2>2. UNCHANGED <<lastId, loopOf, phase, state>>
    BY <1>1 DEF accepts, conns
  <2>3. phase \in {"new", "up"} => state[c] = "down"
    BY <1>2 DEF Inv, States
  <2>4. \A d \in 1..lastId :
          <<"establish", d>> # e /\ <<"remove", d>> # e /\ (<<"destroy", d>> = e => d = c)
    BY DEF e
  <2>5. \A k \in Loops : \A f \in Functors(k)' : f \in Functors(k) \/ f = e
    BY <1>7
  <2>6. \A d \in 1..lastId, k \in Loops :
          /\ <<"establish", d>> \in Functors(k)' => <<"establish", d>> \in Functors(k)
          /\ <<"remove", d>> \in Functors(k)' => <<"remove", d>> \in Functors(k)
          /\ <<"destroy", d>> \in Functors(k)' => <<"destroy", d>> \in Functors(k) \/ d = c
    BY <2>4, <2>5
  <2> QED  BY <1>0, <2>1, <2>2, <2>3, <2>6, MovedStates
<1> QED  BY <1>8, <1>9, <1>10, <1>11, <1>12, <1>13, <1>14 DEF Inv

\* A base loop that is in events or functors belongs to a server that is not closing.
LEMMA BaseRuns ==
  ASSUME Inv
  PROVE  /\ at[0] \in {"events", "functors"} =>
              phase \in {"new", "up"} /\ \A l \in PoolLoops : at[l] # "exited"
         /\ \A l \in PoolLoops : at[l] # "exited" => at[0] # "exited"
<1>1. n \in Nat /\ cur \in Int
  BY Facts DEF Inv, Counters
<1>2. at[0] \in {"events", "functors"} => phase \in {"new", "up"}
  BY DEF Inv, Phases
<1>3. phase \in {"new", "up"} => \A l \in PoolLoops : at[l] # "exited"
  BY DEF Inv, Phases
<1>4. ASSUME NEW l \in PoolLoops, at[l] # "exited", at[0] = "exited" PROVE FALSE
  <2>1. phase = "gone" /\ cur > n
    BY <1>4 DEF Inv, Phases
  <2>2. l < cur
    BY <1>1, <2>1 DEF PoolLoops
  <2> QED  BY <1>4, <2>2 DEF Inv, Phases
<1> QED  BY <1>2, <1>3, <1>4

\* handleClose(): the base loop exists, and will take the connection out of its poller.
LEMMA HandleCloseStep ==
  ASSUME Inv, NEW c \in Connections, HandleClose(c)
  PROVE  Inv'
<1>1. /\ at[loopOf[c]] = "events" /\ c \in polled /\ state[c] \in {"up", "disconnecting"}
      /\ state' = [state EXCEPT ![c] = "down"]
      /\ UNCHANGED <<n, arrived, phase, cur, listening, accepts, polled, at, quit, batch>>
  BY DEF HandleClose
<1>2. c \in 1..lastId /\ 0 \in Loops
  BY <1>1, Facts DEF Inv, TypeOK
<1>3. PICK op \in {"remove", "destroy"} :
        /\ Queue(0, op, c) /\ op = (IF loopOf[c] = 0 THEN "destroy" ELSE "remove")
        /\ map' \subseteq map /\ map \subseteq map' \cup {c}
  BY DEF HandleClose, RemoveInLoop
<1> DEFINE e == <<op, c>>
<1> HIDE DEF e
<1>4. /\ queue' \in [Loops -> Seq(Functor)]
      /\ \A k \in Loops : k # 0 => queue'[k] = queue[k]
      /\ ToSet(queue'[0]) = ToSet(queue[0]) \cup {e}
      /\ \A k \in Loops : InOrder(batch'[k], queue'[k])
  <2>1. \A k \in Loops : batch'[k] \in Seq(Functor) /\ InOrder(batch'[k], queue[k])
    BY <1>1, Facts
  <2>2. \A f \in ToSet(batch'[0]) \cup ToSet(queue[0]) : ~Reborn(f, <<op, c>>)
    BY DEF Reborn
  <2>3. op \in Ops /\ Queue(0, op, c)
    BY <1>3 DEF Ops
  <2> QED  BY <1>2, <2>1, <2>2, <2>3, Queued DEF e
<1>5. \A k \in Loops : Functors(k)' = Functors(k) \cup (IF k = 0 THEN {e} ELSE {})
  <2>1. \A k \in Loops : Functors(k) = ToSet(queue[k]) \cup ToSet(batch[k])
    BY Facts
  <2>2. \A k \in Loops : Functors(k)' = ToSet(queue'[k]) \cup ToSet(batch[k])
    BY <1>1 DEF Functors
  <2> QED  BY <1>4, <2>1, <2>2
<1>6. at[0] # "exited"
  <2>1. loopOf[c] = 0 \/ loopOf[c] \in PoolLoops
    BY Facts DEF PoolLoops
  <2> QED  BY <1>1, <2>1, BaseRuns
<1>7. TypeOK' /\ Counters'
  <2>1. /\ state' \in [Connections -> {"none", "connecting", "up", "disconnecting", "down"}]
        /\ polled' \subseteq 1..lastId /\ map' \subseteq 1..lastId
    BY <1>1, <1>3 DEF Inv, TypeOK
  <2>2. at' \in [Loops -> {"out", "entering", "check", "events", "functors", "left", "exited"}]
    BY <1>1 DEF Inv, TypeOK
  <2>3. UNCHANGED <<n, next, lastId, cur, phase, listening, arrived, loopOf, quit>>
    BY <1>1 DEF accepts
  <2>4. e \in Ops \X (1..lastId)
    BY <1>2 DEF e, Ops
  <2>5. \A k \in Loops : Functors(k)' \subseteq Ops \X (1..lastId)
    BY <1>5, <2>4, Facts
  <2> QED  BY <2>1, <2>2, <2>3, <2>5, MovedType
<1>8. Phases'
  BY <1>1 DEF Inv, Phases, PoolLoops
<1>9. Queues'
  BY <1>1, <1>4, <1>6 DEF Inv, Queues
<1>10. Places'
  <2>1. e[1] = op /\ e[2] = c
    BY DEF e
  <2> QED  BY <1>1, <1>3, <1>5, <2>1 DEF Inv, Places, accepts
<1>11. Order'
  BY <1>4 DEF Order
<1>12. Referenced'
  <2> SUFFICES ASSUME NEW d \in 1..lastId, Watched(d)'
               PROVE  Kept(d)'
    BY <1>1 DEF Referenced, accepts
  <2>1. UNCHANGED <<at, polled, loopOf>> /\ loopOf[d] \in Loops
    BY <1>1, Facts DEF accepts
  <2>2. CASE d = c
    <3>1. <<op, d>> \in Functors(0)'
      BY <1>2, <1>5, <2>2 DEF e
    <3> QED  BY <1>3, <2>1, <2>2, <3>1 DEF Kept
  <2>3. CASE d # c
    <3>1. <<"establish", d>> # e
      BY <2>3 DEF e
    <3>2. Watched(d)
      BY <1>5, <2>1, <3>1 DEF Watched
    <3>3. Kept(d)
      BY <3>2 DEF Inv, Referenced
    <3> QED  BY <1>2, <1>3, <1>5, <2>1, <2>3, <3>3 DEF Kept
  <2> QED  BY <2>2, <2>3
<1>13. States'
  <2>1. \A d \in 1..lastId : loopOf[d] \in Loops /\ state[d] # "none"
    BY Facts DEF Inv, States
  <2>2. UNCHANGED <<lastId, loopOf, phase>>
    BY <1>1 DEF accepts
  <2>3. state'[c] = "down" /\ \A d \in 1..lastId : d # c => state'[d] = state[d]
    BY <1>1, Facts DEF Inv, TypeOK
  <2>4. <<"establish", c>> \notin Functors(loopOf[c])
    BY <1>1, <1>2 DEF Inv, States
  <2>5. /\ \A d \in 1..lastId : <<"establish", d>> # e
        /\ \A d \in 1..lastId : <<"remove", d>> = e \/ <<"destroy", d>> = e => d = c
    BY <1>3 DEF e
  <2> QED  BY <1>2, <1>5, <2>1, <2>2, <2>3, <2>4, <2>5, MovedStates
<1> QED  BY <1>7, <1>8, <1>9, <1>10, <1>11, <1>12, <1>13 DEF Inv

\* ~TcpServer: a connection of the base loop goes at once, any other by a functor
\* of its loop, which still exists.
LEMMA CloseNextStep ==
  ASSUME Inv, CloseNext
  PROVE  Inv'
<1>1. PICK c \in map :
        /\ map' = map \ {c}
        /\ IF loopOf[c] = 0
           THEN Destroyed(c) /\ UNCHANGED queue
           ELSE Queue(loopOf[c], "destroy", c) /\ UNCHANGED conns
  BY DEF CloseNext
<1>2. /\ phase = "closing"
      /\ UNCHANGED <<n, arrived, phase, cur, listening, accepts, at, quit, batch>>
  BY DEF CloseNext
<1>3. /\ c \in 1..lastId /\ c \in Connections /\ loopOf[c] \in Loops
      /\ loopOf[c] = 0 \/ loopOf[c] \in PoolLoops
  <2>1. c \in 1..lastId
    BY DEF Inv, TypeOK
  <2>2. c \in Connections
    BY <2>1, Facts
  <2>3. loopOf[c] \in 0..n /\ loopOf[c] \in Loops
    BY <2>2, Facts
  <2>4. n \in Nat
    BY Facts
  <2> QED  BY <2>1, <2>2, <2>3, <2>4 DEF PoolLoops
<1>4. /\ queue' \in [Loops -> Seq(Functor)]
      /\ \A k \in Loops : InOrder(batch'[k], queue'[k])
      /\ \A k \in Loops : k # loopOf[c] => queue'[k] = queue[k]
      /\ ToSet(queue'[loopOf[c]]) =
           ToSet(queue[loopOf[c]]) \cup (IF loopOf[c] = 0 THEN {} ELSE {<<"destroy", c>>})
      /\ loopOf[c] = 0 => queue' = queue
  <2>1. CASE loopOf[c] = 0
    BY <1>1, <1>2, <2>1, Facts
  <2>2. CASE loopOf[c] # 0
    <3>1. Queue(loopOf[c], "destroy", c) /\ "destroy" \in Ops
      BY <1>1, <2>2 DEF Ops
    <3>2. \A k \in Loops : batch'[k] \in Seq(Functor) /\ InOrder(batch'[k], queue[k])
      BY <1>2, Facts
    <3>3. \A f \in ToSet(batch'[loopOf[c]]) \cup ToSet(queue[loopOf[c]]) :
            ~Reborn(f, <<"destroy", c>>)
      BY DEF Reborn
    <3> QED  BY <1>3, <2>2, <3>1, <3>2, <3>3, Queued
  <2> QED  BY <2>1, <2>2
<1>5. \A k \in Loops :
        Functors(k)' = Functors(k) \cup
                         (IF k = loopOf[c] /\ k # 0 THEN {<<"destroy", c>>} ELSE {})
  <2>1. \A k \in Loops : Functors(k) = ToSet(queue[k]) \cup ToSet(batch[k])
    BY Facts
  <2>2. \A k \in Loops : Functors(k)' = ToSet(queue'[k]) \cup ToSet(batch[k])
    BY <1>2 DEF Functors
  <2> QED  BY <1>4, <2>1, <2>2
<1>6. \A l \in PoolLoops : at[l] # "exited"
  BY <1>2 DEF Inv, Phases
<1>7. /\ polled' \subseteq polled /\ (loopOf[c] = 0 => c \notin polled')
      /\ state' \in [Connections -> {"none", "connecting", "up", "disconnecting", "down"}]
  BY <1>1 DEF Destroyed, conns, Inv, TypeOK
<1>8. TypeOK' /\ Counters'
  <2>1. polled' \subseteq 1..lastId /\ map' \subseteq 1..lastId
    BY <1>1, <1>7 DEF Inv, TypeOK
  <2>2. at' \in [Loops -> {"out", "entering", "check", "events", "functors", "left", "exited"}]
    BY <1>2 DEF Inv, TypeOK
  <2>3. UNCHANGED <<n, next, lastId, cur, phase, listening, arrived, loopOf, quit>>
    BY <1>2 DEF accepts
  <2>4. <<"destroy", c>> \in Ops \X (1..lastId)
    BY <1>3 DEF Ops
  <2>5. \A k \in Loops : Functors(k)' \subseteq Ops \X (1..lastId)
    BY <1>5, <2>4, Facts
  <2> QED  BY <1>7, <2>1, <2>2, <2>3, <2>5, MovedType
<1>9. Phases'
  BY <1>2 DEF Inv, Phases, PoolLoops
<1>10. Queues'
  BY <1>2, <1>3, <1>4, <1>6 DEF Inv, Queues
<1>11. Places'
  BY <1>2, <1>5 DEF Inv, Places, accepts
<1>12. Order'
  BY <1>4 DEF Order
<1>13. Referenced'
  <2> SUFFICES ASSUME NEW d \in 1..lastId, Watched(d)'
               PROVE  Kept(d)'
    BY <1>2 DEF Referenced, accepts
  <2>1. UNCHANGED <<at, loopOf>> /\ loopOf[d] \in Loops /\ 0 \in Loops
    BY <1>2, Facts DEF accepts
  <2>2. Watched(d)
    BY <1>5, <1>7, <2>1 DEF Watched
  <2>3. Kept(d)
    BY <2>2 DEF Inv, Referenced
  <2>4. CASE d = c
    <3>1. loopOf[c] # 0
      <4> SUFFICES ASSUME loopOf[c] = 0 PROVE FALSE
        OBVIOUS
      <4>1. <<"establish", c>> \in Functors(0)
        BY <1>5, <1>7, <2>1, <2>4 DEF Watched
      <4> QED  BY <2>1, <4>1 DEF Inv, Places
    <3> QED  BY <1>5, <2>1, <2>4, <3>1 DEF Kept
  <2>5. CASE d # c
    BY <1>1, <1>5, <2>1, <2>3, <2>5 DEF Kept
  <2> QED  BY <2>4, <2>5
<1>14. States'
  <2>1. \A d \in 1..lastId : loopOf[d] \in Loops /\ state[d] # "none"
    BY Facts DEF Inv, States
  <2>2. UNCHANGED <<lastId, loopOf, phase>>
    BY <1>2 DEF accepts
  <2>3. /\ \A d \in 1..lastId : d # c => state'[d] = state[d]
        /\ loopOf[c] # 0 => state' = state
        /\ state'[c] = state[c] \/ state'[c] = "down"
    <3>1. state \in [Connections -> {"none", "connecting", "up", "disconnecting", "down"}]
          /\ 1..lastId \subseteq Connections
      BY Facts DEF Inv, TypeOK
    <3>2. \/ state' = [state EXCEPT ![c] = IF @ = "up" THEN "down" ELSE @] /\ loopOf[c] = 0
          \/ state' = state
      BY <1>1 DEF Destroyed, conns
    <3> QED  BY <1>3, <3>1, <3>2
  <2>4. loopOf[c] = 0 => <<"establish", c>> \notin Functors(loopOf[c])
    BY <1>3 DEF Inv, Places
  <2>5. \A d \in 1..lastId : <<"establish", d>> # <<"destroy", c>>
    OBVIOUS
  <2> QED  BY <1>2, <1>3, <1>5, <2>1, <2>2, <2>3, <2>4, <2>5, MovedStates
<1> QED  BY <1>8, <1>9, <1>10, <1>11, <1>12, <1>13, <1>14 DEF Inv

\* newConnection(): the connection is in connections_ before any loop hears of it,
\* and no functor that waits is about it.
LEMMA AcceptStep ==
  ASSUME Inv, Accept
  PROVE  Inv'
<1> DEFINE c == lastId + 1
           l == NextLoop
<1>1. /\ at[0] = "events" /\ arrived > lastId /\ lastId' = c
      /\ loopOf' = [loopOf EXCEPT ![c] = l]
      /\ next' = IF n = 0 THEN next ELSE (next + 1) % n
      /\ map' = map \cup {c}
      /\ UNCHANGED <<n, arrived, phase, cur, listening, at, quit, batch>>
  BY DEF Accept, Acceptable
<1>2. IF n = 0
      THEN /\ state' = [state EXCEPT ![c] = "up"] /\ polled' = polled \cup {c}
           /\ queue' = queue
      ELSE /\ state' = [state EXCEPT ![c] = "connecting"] /\ polled' = polled
           /\ Queue(l, "establish", c)
  BY <1>1 DEF Accept, Established
<1>3. /\ lastId \in Nat /\ c \in Nat /\ c \notin 1..lastId /\ 1..c = (1..lastId) \cup {c}
      /\ c \in Connections /\ c \in 0..arrived
  BY <1>1, Facts DEF Connections
<1>4. /\ l \in 0..n /\ l \in Loops /\ (n # 0 => l \in PoolLoops /\ l # 0)
      /\ next' \in 0..(IF n = 0 THEN 0 ELSE n - 1)
  <2>1. n \in 0..MaxThreads /\ MaxThreads \in Nat /\ next \in 0..(IF n = 0 THEN 0 ELSE n - 1)
    BY Facts DEF Inv, Counters
  <2>2. CASE n = 0
    BY <1>1, <2>1, <2>2 DEF NextLoop, Loops
  <2>3. CASE n # 0
    <3>1. l = next + 1 /\ l \in 1..n
      BY <2>1, <2>3 DEF NextLoop
    <3>2. (next + 1) % n \in 0..(n - 1)
      BY <2>1, <2>3
    <3> QED  BY <1>1, <2>1, <2>3, <3>1, <3>2 DEF Loops, PoolLoops
  <2> QED  BY <2>2, <2>3
<1>5. /\ loopOf' \in [Connections -> 0..n]
      /\ loopOf'[c] = l
      /\ \A d \in 1..lastId : loopOf'[d] = loopOf[d] /\ loopOf[d] \in Loops
  BY <1>1, <1>3, <1>4, Facts DEF Inv, TypeOK
<1>6. \A k \in Loops : \A f \in Functors(k) : f[2] \in 1..lastId /\ f[2] # c
  BY <1>3, Facts
<1> HIDE DEF c, l
<1>7. /\ queue' \in [Loops -> Seq(Functor)]
      /\ \A k \in Loops : InOrder(batch'[k], queue'[k])
      /\ \A k \in Loops : k # l => queue'[k] = queue[k]
      /\ ToSet(queue'[l]) = ToSet(queue[l]) \cup (IF n = 0 THEN {} ELSE {<<"establish", c>>})
  <2>1. CASE n = 0
    BY <1>1, <1>2, <2>1, Facts
  <2>2. CASE n # 0
    <3>1. Queue(l, "establish", c) /\ "establish" \in Ops
      BY <1>2, <2>2 DEF Ops
    <3>2. \A k \in Loops : batch'[k] \in Seq(Functor) /\ InOrder(batch'[k], queue[k])
      BY <1>1, Facts
    <3>3. \A f \in ToSet(batch'[l]) \cup ToSet(queue[l]) : ~Reborn(f, <<"establish", c>>)
      BY <1>1, <1>4, <1>6, Facts DEF Reborn
    <3> QED  BY <1>3, <1>4, <2>2, <3>1, <3>2, <3>3, Queued
  <2> QED  BY <2>1, <2>2
<1>8. \A k \in Loops :
        Functors(k)' = Functors(k) \cup
                         (IF k = l /\ n # 0 THEN {<<"establish", c>>} ELSE {})
  <2>1. \A k \in Loops : Functors(k) = ToSet(queue[k]) \cup ToSet(batch[k])
    BY Facts
  <2>2. \A k \in Loops : Functors(k)' = ToSet(queue'[k]) \cup ToSet(batch[k])
    BY <1>1 DEF Functors
  <2> QED  BY <1>7, <2>1, <2>2
<1>9. at[l] # "exited"
  BY <1>1, <1>4, BaseRuns, Facts DEF NextLoop, l
<1>10. TypeOK' /\ Counters'
  <2>1. state' \in [Connections -> {"none", "connecting", "up", "disconnecting", "down"}]
    BY <1>2 DEF Inv, TypeOK
  <2>2. polled' \subseteq 1..c /\ map' \subseteq 1..c
    BY <1>1, <1>2, <1>3 DEF Inv, TypeOK
  <2>3. \A k \in Loops : Functors(k)' \subseteq Ops \X (1..c)
    <3>1. <<"establish", c>> \in Ops \X (1..c)
      BY <1>3 DEF Ops
    <3>2. \A k \in Loops : Functors(k) \subseteq Ops \X (1..c)
      BY <1>3, Facts
    <3> QED  BY <1>8, <3>1, <3>2
  <2>4. next' \in 0..MaxThreads
    BY <1>4, Facts
  <2>5. Counters'
    BY <1>1, <1>4 DEF Inv, Counters
  <2> QED  BY <1>1, <1>3, <1>5, <2>1, <2>2, <2>3, <2>4, <2>5 DEF Inv, TypeOK
<1>11. Phases'
  BY <1>1 DEF Inv, Phases, PoolLoops
<1>12. Queues'
  BY <1>1, <1>4, <1>7, <1>9 DEF Inv, Queues
<1>13. Places'
  <2> SUFFICES ASSUME NEW k \in Loops, NEW f \in Functors(k)'
               PROVE  /\ f[1] = "establish" => k = loopOf'[f[2]] /\ k # 0
                      /\ f[1] = "destroy" => k = loopOf'[f[2]]
                      /\ f[1] = "remove" => k = 0
    BY DEF Places
  <2>1. CASE f \in Functors(k)
    BY <1>5, <1>6, <2>1 DEF Inv, Places
  <2>2. CASE f \notin Functors(k)
    BY <1>4, <1>5, <1>8, <2>2
  <2> QED  BY <2>1, <2>2
<1>14. Order'
  BY <1>7 DEF Order
<1>15. Referenced'
  <2> SUFFICES ASSUME NEW d \in 1..c, Watched(d)'
               PROVE  Kept(d)'
    BY <1>1 DEF Referenced
  <2>1. CASE d = c
    BY <1>1, <2>1 DEF Kept
  <2>2. CASE d # c
    <3>1. d \in 1..lastId /\ loopOf'[d] = loopOf[d] /\ loopOf[d] \in Loops /\ 0 \in Loops
      BY <1>3, <1>5, <2>2, Facts
    <3>2. d \in polled' => d \in polled
      BY <1>2, <2>2
    <3>3. <<"establish", d>> # <<"establish", c>>
      BY <2>2
    <3>4. Watched(d)
      BY <1>1, <1>8, <3>1, <3>2, <3>3 DEF Watched
    <3>5. Kept(d)
      BY <3>1, <3>4 DEF Inv, Referenced
    <3> QED  BY <1>1, <1>8, <3>1, <3>5 DEF Kept
  <2> QED  BY <2>1, <2>2
<1>16. States'
  <2>1. /\ state'[c] = IF n = 0 THEN "up" ELSE "connecting"
        /\ \A d \in 1..lastId : state'[d] = state[d]
    BY <1>2, <1>3, Facts DEF Inv, TypeOK
  <2>2. \A k \in Loops, op \in Ops : <<op, c>> \notin Functors(k)
    <3>1. \A op : <<op, c>>[2] = c
      OBVIOUS
    <3> QED  BY <1>6, <3>1
  <2>3. \A d \in 1..lastId, op \in Ops : <<op, d>> # <<"establish", c>>
    BY <1>3
  <2>4. 0 \in Loops /\ lastId' = c /\ phase' = phase
    BY <1>1, Facts
  <2> SUFFICES ASSUME NEW d \in 1..c, NEW k \in Loops, k = loopOf'[d]
               PROVE  /\ state'[d] # "none"
                      /\ <<"establish", d>> \in Functors(k)' => state'[d] = "connecting"
                      /\ phase \in {"new", "up"}
                           => /\ <<"remove", d>> \in Functors(0)' => state'[d] = "down"
                              /\ <<"destroy", d>> \in Functors(k)' => state'[d] = "down"
    <3>1. \A d \in 1..c : loopOf'[d] \in Loops
      BY <1>3, <1>4, <1>5
    <3> QED  BY <2>4, <3>1 DEF States
  <2>5. CASE d = c
    <3>1. k = l
      BY <1>5, <2>5
    <3>2. <<"remove", c>> \notin Functors(0)' /\ <<"destroy", c>> \notin Functors(k)'
      BY <1>8, <2>2, <2>4 DEF Ops
    <3>3. n = 0 => <<"establish", c>> \notin Functors(k)'
      BY <1>8, <2>2 DEF Ops
    <3> QED  BY <2>1, <2>5, <3>2, <3>3
  <2>6. CASE d # c
    <3>1. d \in 1..lastId /\ k = loopOf[d]
      BY <1>3, <1>5, <2>6
    <3>2. \A m \in Loops, op \in Ops : <<op, d>> \in Functors(m)' => <<op, d>> \in Functors(m)
      BY <1>8, <2>3, <3>1
    <3>3. /\ <<"establish", d>> \in Functors(k)' => <<"establish", d>> \in Functors(k)
          /\ <<"remove", d>> \in Functors(0)' => <<"remove", d>> \in Functors(0)
          /\ <<"destroy", d>> \in Functors(k)' => <<"destroy", d>> \in Functors(k)
      BY <2>4, <3>2 DEF Ops
    <3> QED  BY <2>1, <3>1, <3>3 DEF Inv, States
  <2> QED  BY <2>5, <2>6
<1> QED  BY <1>10, <1>11, <1>12, <1>13, <1>14, <1>15, <1>16 DEF Inv

\* The base loop goes last: what waits in it waits for loops that are gone.
LEMMA DestroyBaseStep ==
  ASSUME Inv, DestroyBase
  PROVE  Inv'
<1>1. /\ phase = "gone" /\ at[0] # "exited"
      /\ at' = [at EXCEPT ![0] = "exited"]
      /\ queue' = [queue EXCEPT ![0] = <<>>]
      /\ UNCHANGED <<n, arrived, server, accepts, conns, quit, batch>>
  BY DEF DestroyBase
<1>2. 0 \in Loops /\ <<>> \in Seq(Functor)
  BY Facts, EmptySeq
<1>3. at[0] = "left" /\ batch[0] = <<>>
  <2>1. at[0] = "left"
    BY <1>1 DEF Inv, Phases
  <2> QED  BY <1>2, <2>1 DEF Inv, Queues
<1>4. \A k \in 0..n : at'[k] = "exited"
  <2>1. \A k \in PoolLoops : k < cur
    BY <1>1, Facts DEF Inv, Phases, PoolLoops, Counters
  <2>2. \A k \in PoolLoops : at[k] = "exited"
    BY <2>1 DEF Inv, Phases
  <2>3. \A k \in 0..n : k = 0 \/ (k \in PoolLoops /\ k \in Loops)
    BY Facts DEF PoolLoops
  <2> QED  BY <1>1, <1>2, <2>2, <2>3 DEF Inv, TypeOK
<1>5. /\ queue' \in [Loops -> Seq(Functor)] /\ queue'[0] = <<>>
      /\ \A k \in Loops : k # 0 => queue'[k] = queue[k]
  BY <1>1, <1>2, Facts
<1>6. \A k \in Loops : Functors(k)' \subseteq Functors(k)
  BY <1>1, <1>5, EmptyQueue DEF Functors
<1>7. /\ at' \in [Loops -> {"out", "entering", "check", "events", "functors", "left", "exited"}]
      /\ at'[0] = "exited" /\ \A k \in Loops : k # 0 => at'[k] = at[k]
  BY <1>1, <1>2 DEF Inv, TypeOK
<1>8. TypeOK' /\ Counters'
  <2>1. /\ state' \in [Connections -> {"none", "connecting", "up", "disconnecting", "down"}]
        /\ polled' \subseteq 1..lastId /\ map' \subseteq 1..lastId
    BY <1>1 DEF Inv, TypeOK, server, conns
  <2>2. UNCHANGED <<n, next, lastId, cur, phase, listening, arrived, loopOf, quit>>
    BY <1>1 DEF server, accepts
  <2>3. \A k \in Loops : Functors(k)' \subseteq Ops \X (1..lastId)
    BY <1>6, Facts
  <2> QED  BY <1>7, <2>1, <2>2, <2>3, MovedType
<1>9. Phases'
  BY <1>1, <1>7, Facts DEF Inv, Phases, PoolLoops, server
<1>10. Queues'
  BY <1>1, <1>3, <1>5, <1>7 DEF Inv, Queues
<1>11. Places'
  BY <1>1, <1>6 DEF Inv, Places, accepts
<1>12. Order'
  BY <1>1, <1>3, <1>5, EmptyQueue DEF Inv, Order, InOrder
<1>13. Referenced'
  <2>1. \A d \in 1..lastId : loopOf[d] \in 0..n
    BY Facts
  <2>2. UNCHANGED <<lastId, loopOf>>
    BY <1>1 DEF accepts
  <2> QED  BY <1>4, <2>1, <2>2 DEF Referenced, Watched
<1>14. States'
  <2>1. 0 \in Loops /\ \A d \in 1..lastId : loopOf[d] \in Loops /\ state[d] # "none"
    BY Facts DEF Inv, States
  <2>2. UNCHANGED <<lastId, loopOf, phase, state>>
    BY <1>1 DEF accepts, server, conns
  <2> QED  BY <1>6, <2>1, <2>2, MovedStates
<1> QED  BY <1>8, <1>9, <1>10, <1>11, <1>12, <1>13, <1>14 DEF Inv

\* The invariant, for any number of threads, clients and descriptors.
LEMMA Invariance == Spec => []Inv
<1>1. Inv /\ [Next]_vars => Inv'
  <2> SUFFICES ASSUME Inv, [Next]_vars
               PROVE  Inv'
    OBVIOUS
  <2>1. CASE \/ Start \/ RunBase \/ QuitBase \/ ClientConnects \/ AcceptFails
             \/ \E l \in Loops : EnterLoop(l) \/ EndBatch(l)
             \/ \E c \in Connections : Shutdown(c)
             \/ BeginDestroy \/ QuitThread \/ Join \/ DestroyAcceptor
             \/ UNCHANGED vars
    BY <2>1, QuietSteps
  <2>2. CASE Accept
    BY <2>2, AcceptStep
  <2>3. ASSUME NEW c \in Connections, HandleClose(c) PROVE Inv'
    BY <2>3, HandleCloseStep
  <2>4. ASSUME NEW l \in Loops, CheckQuit(l) PROVE Inv'
    BY <2>4, CheckQuitStep
  <2>5. ASSUME NEW l \in Loops, TakePending(l) PROVE Inv'
    BY <2>5, TakePendingStep
  <2>6. ASSUME NEW l \in Loops, RunEstablished(l) PROVE Inv'
    BY <2>6, EstablishedStep
  <2>7. ASSUME NEW l \in Loops, RunDestroyed(l) PROVE Inv'
    BY <2>7, DestroyedStep
  <2>8. CASE RunRemove
    BY <2>8, RemoveStep
  <2>9. CASE CloseNext
    BY <2>9, CloseNextStep
  <2>10. CASE DestroyBase
    BY <2>10, DestroyBaseStep
  <2> QED  BY <2>1, <2>2, <2>3, <2>4, <2>5, <2>6, <2>7, <2>8, <2>9, <2>10
           DEF Next, LoopStep, BaseStep
<1> QED  BY <1>1, InvInitially, PTL DEF Spec

\* Types, and which connections and loops a functor, the map and the pollers name.
THEOREM TypeCorrect == Spec => []TypeOK
<1>1. Inv => TypeOK
  BY DEF Inv
<1> QED  BY <1>1, Invariance, PTL

\* No connection is destroyed while the poller of a loop that runs points to its
\* channel, no functor waits in a loop that is gone, and ~TcpServer leaves no loop
\* behind that could call it.
THEOREM NothingEverDangles == Spec => []NothingDangles
<1>1. Inv => NothingDangles
  <2> SUFFICES ASSUME Inv PROVE NothingDangles
    OBVIOUS
  <2>1. ASSUME NEW c \in polled, at[loopOf[c]] # "exited" PROVE Alive(c)
    <3>1. c \in 1..lastId /\ loopOf[c] \in Loops /\ 0 \in Loops
      BY Facts DEF Inv, TypeOK
    <3>2. Kept(c)
      BY <2>1, <3>1 DEF Inv, Referenced, Watched
    <3>3. ASSUME NEW op, NEW l \in Loops, <<op, c>> \in Functors(l) PROVE Alive(c)
      <4>1. <<op, c>>[2] = c
        OBVIOUS
      <4> QED  BY <3>3, <4>1 DEF Alive
    <3> QED  BY <3>1, <3>2, <3>3 DEF Kept, Alive
  <2>2. ASSUME NEW l \in Loops, at[l] = "exited" PROVE Functors(l) = {}
    BY <2>2, EmptyQueue DEF Inv, Queues, Functors
  <2>3. ASSUME phase = "gone", NEW l \in PoolLoops PROVE at[l] = "exited"
    <3>1. cur > n
      BY <2>3 DEF Inv, Phases
    <3>2. l < cur
      BY <3>1, Facts DEF PoolLoops, Inv, Counters
    <3> QED  BY <3>2 DEF Inv, Phases
  <2> QED  BY <2>1, <2>2, <2>3 DEF NothingDangles
<1> QED  BY <1>1, Invariance, PTL
-----------------------------------------------------------------------------
(* The life of every connection, as ConnectionLife tells it.               *)

Stage(s) ==
  CASE s = "connecting" -> "accepted"
    [] s \in {"up", "disconnecting"} -> "up"
    [] s = "down" -> "down"

LifeIsStage ==
  /\ Life \in [Connections -> {"none", "accepted", "up", "down", "released"}]
  /\ \A c \in 1..lastId : /\ c \in Connections /\ Life[c] # "none"
                          /\ ~Alive(c) => Life[c] = "released"
                          /\ Alive(c) => Life[c] = Stage(state[c])
  /\ \A c \in Connections : c \notin 1..lastId => Life[c] = "none"

\* Life is defined for all that are accepted, as States has no other states.
LEMMA StageOfAccepted == Inv => LifeIsStage
<1> SUFFICES ASSUME Inv PROVE LifeIsStage
  OBVIOUS
<1>1. /\ lastId \in Nat /\ 1..lastId \subseteq Connections
      /\ \A c \in Connections : c \notin 1..lastId => c > lastId
      /\ \A c \in 1..lastId : ~(c > lastId)
  BY Facts DEF Connections
<1>2. \A c \in 1..lastId : state[c] \in {"connecting", "up", "disconnecting", "down"}
  BY <1>1 DEF Inv, States, TypeOK
<1>3. \A s \in {"connecting", "up", "disconnecting", "down"} :
        Stage(s) \in {"accepted", "up", "down"}
  BY DEF Stage
<1> DEFINE LifeOf(c) ==
             IF c > lastId THEN "none"
             ELSE IF ~Alive(c) THEN "released"
             ELSE CASE state[c] = "connecting" -> "accepted"
                    [] state[c] \in {"up", "disconnecting"} -> "up"
                    [] state[c] = "down" -> "down"
<1>4. Life = [c \in Connections |-> LifeOf(c)]
  BY DEF Life
<1>5. \A c \in Connections :
        LifeOf(c) = IF c > lastId THEN "none" ELSE IF ~Alive(c) THEN "released" ELSE Stage(state[c])
  BY DEF Stage
<1> HIDE DEF LifeOf
<1>6. \A c \in Connections : LifeOf(c) \in {"none", "accepted", "up", "down", "released"}
  BY <1>1, <1>2, <1>3, <1>5
<1>7. Life \in [Connections -> {"none", "accepted", "up", "down", "released"}]
  BY <1>4, <1>6
<1> QED  BY <1>1, <1>2, <1>3, <1>4, <1>5, <1>7 DEF LifeIsStage

\* So it is after a step.
LEMMA StageAfter == Inv' => LifeIsStage'
  BY StageOfAccepted, PTL

\* A functor keeps its connection.
LEMMA FunctorKeeps ==
  ASSUME NEW c, NEW op, NEW l \in Loops
  PROVE  /\ <<op, c>> \in Functors(l) => Alive(c)
         /\ <<op, c>> \in Functors(l)' => Alive(c)'
<1>1. <<op, c>>[2] = c
  OBVIOUS
<1> QED  BY <1>1 DEF Alive

\* Steps after which every connection is where it was.
LEMMA LifeGoesOn ==
  ASSUME Inv, Inv', lastId' = lastId,
         phase \in {"new", "up"} <=> phase' \in {"new", "up"},
         \A c \in 1..lastId :
           /\ Alive(c)' <=> Alive(c)
           /\ state'[c] = state[c] \/ (state[c] = "up" /\ state'[c] = "disconnecting")
  PROVE  UNCHANGED CL!vars
<1>1. LifeIsStage /\ LifeIsStage'
  BY StageOfAccepted, StageAfter
<1>2. \A c \in 1..lastId : Stage(state'[c]) = Stage(state[c])
  BY DEF Stage
<1>3. \A c \in Connections : Life'[c] = Life[c]
  <2> SUFFICES ASSUME NEW c \in Connections PROVE Life'[c] = Life[c]
    OBVIOUS
  <2>1. CASE c \in 1..lastId
    <3>1. CASE Alive(c)
      BY <1>1, <1>2, <2>1, <3>1 DEF LifeIsStage
    <3>2. CASE ~Alive(c)
      BY <1>1, <2>1, <3>2 DEF LifeIsStage
    <3> QED  BY <3>1, <3>2
  <2>2. CASE c \notin 1..lastId
    BY <1>1, <2>2 DEF LifeIsStage
  <2> QED  BY <2>1, <2>2
<1>4. Life' = Life
  BY <1>1, <1>3 DEF LifeIsStage
<1>5. (phase \notin {"new", "up"})' = (phase \notin {"new", "up"})
  OBVIOUS
<1> QED  BY <1>4, <1>5 DEF CL!vars

\* Steps after which one connection is in another stage.
LEMMA OneMoves ==
  ASSUME Inv, Inv', NEW c \in 1..lastId', NEW stage,
         lastId <= lastId',
         \A d \in 1..lastId' : d # c => /\ d \in 1..lastId
                                        /\ Alive(d)' <=> Alive(d)
                                        /\ state'[d] = state[d],
         Life'[c] = stage
  PROVE  c \in Connections /\ Life' = [Life EXCEPT ![c] = stage]
<1>1. LifeIsStage /\ LifeIsStage'
  BY StageOfAccepted, StageAfter
<1>2. c \in Connections
  BY <1>1 DEF LifeIsStage
<1>3. lastId' \in Nat /\ lastId \in Nat
  BY BoundsAssumption DEF Inv, TypeOK
<1>4. \A d \in Connections : d # c => Life'[d] = Life[d]
  <2> SUFFICES ASSUME NEW d \in Connections, d # c PROVE Life'[d] = Life[d]
    OBVIOUS
  <2>1. CASE d \in 1..lastId'
    <3>1. d \in 1..lastId /\ state'[d] = state[d] /\ (Alive(d)' <=> Alive(d))
      BY <2>1
    <3>2. CASE Alive(d)
      BY <1>1, <2>1, <3>1, <3>2 DEF LifeIsStage
    <3>3. CASE ~Alive(d)
      BY <1>1, <2>1, <3>1, <3>3 DEF LifeIsStage
    <3> QED  BY <3>2, <3>3
  <2>2. CASE d \notin 1..lastId'
    <3>1. d \notin 1..lastId
      BY <1>3, <2>2
    <3> QED  BY <1>1, <2>2, <3>1 DEF LifeIsStage
  <2> QED  BY <2>1, <2>2
<1> QED  BY <1>1, <1>2, <1>4 DEF LifeIsStage

\* Steps that leave the map, the stages and the functors as they are, though functors
\* may go from a queue to the batch.
LEMMA StutteringSteps ==
  ASSUME Inv, Inv',
         \/ Start \/ RunBase \/ QuitBase \/ ClientConnects \/ AcceptFails
         \/ \E l \in Loops : EnterLoop(l) \/ EndBatch(l) \/ TakePending(l)
         \/ \E c \in Connections : Shutdown(c)
         \/ QuitThread \/ Join \/ DestroyAcceptor
         \/ UNCHANGED vars
  PROVE  UNCHANGED CL!vars
<1>1. /\ UNCHANGED <<lastId, map>>
      /\ phase \in {"new", "up"} <=> phase' \in {"new", "up"}
      /\ \A c \in Connections :
           state'[c] = state[c] \/ (state[c] = "up" /\ state'[c] = "disconnecting")
  <2>1. state \in [Connections -> {"none", "connecting", "up", "disconnecting", "down"}]
        /\ phase \in {"new", "up", "closing", "joining", "joined", "gone"}
    BY DEF Inv, TypeOK
  <2> QED
    BY <2>1 DEF Start, RunBase, QuitBase, ClientConnects, AcceptFails, EnterLoop, EndBatch,
                TakePending, Shutdown, QuitThread, Join, DestroyAcceptor,
                vars, server, accepts, conns, loops
<1>2. \A l \in Loops : Functors(l)' = Functors(l)
  <2>1. ASSUME NEW l \in Loops, TakePending(l), NEW k \in Loops
        PROVE  Functors(k)' = Functors(k)
    <3>1. /\ at[l] = "events"
          /\ batch' = [batch EXCEPT ![l] = queue[l]]
          /\ queue' = [queue EXCEPT ![l] = <<>>]
      BY <2>1 DEF TakePending
    <3>2. batch[l] = <<>>
      BY <3>1 DEF Inv, Queues
    <3>3. /\ queue'[l] = <<>> /\ batch'[l] = queue[l]
          /\ k # l => queue'[k] = queue[k] /\ batch'[k] = batch[k]
      BY <3>1, Facts
    <3> QED  BY <3>2, <3>3, EmptyQueue DEF Functors
  <2>2. CASE UNCHANGED <<queue, batch>>
    BY <2>2 DEF Functors
  <2> QED
    BY <2>1, <2>2 DEF Start, RunBase, QuitBase, ClientConnects, AcceptFails, EnterLoop, EndBatch,
                      Shutdown, QuitThread, Join, DestroyAcceptor, vars, loops
<1>3. \A c : Alive(c)' <=> Alive(c)
  BY <1>1, <1>2 DEF Alive
<1> QED  BY <1>1, <1>3, Facts, LifeGoesOn

\* What taking a functor does to all functors.
LEMMA TakenOnly ==
  ASSUME Inv, NEW l \in Loops, NEW op, Starts(l, op), Dequeue(l), UNCHANGED <<queue, map>>
  PROVE  /\ Of(l) \in 1..lastId /\ <<op, Of(l)>> \in Functors(l) /\ at[l] = "functors"
         /\ \A d : Alive(d)' => Alive(d)
         /\ \A d : d # Of(l) => (Alive(d) => Alive(d)')
<1> DEFINE c == Of(l)
<1>1. /\ at[l] = "functors" /\ c \in 1..lastId /\ <<op, c>> \in Functors(l)
      /\ \A k \in Loops : k # l => batch'[k] = batch[k]
      /\ ToSet(batch[l]) = {<<op, c>>} \cup ToSet(batch'[l])
  BY Taken
<1> HIDE DEF c
<1>2. \A k \in Loops : /\ Functors(k)' \subseteq Functors(k)
                       /\ Functors(k) \subseteq Functors(k)' \cup {<<op, c>>}
  BY <1>1 DEF Functors
<1>3. \A d : Alive(d)' => Alive(d)
  BY <1>2 DEF Alive
<1>4. ASSUME NEW d, d # c, Alive(d) PROVE Alive(d)'
  <2>1. CASE d \in map
    BY <2>1 DEF Alive
  <2>2. CASE d \notin map
    <3>1. PICK k \in Loops : \E f \in Functors(k) : f[2] = d
      BY <1>4, <2>2 DEF Alive
    <3>2. PICK f \in Functors(k) : f[2] = d
      BY <3>1
    <3>3. f # <<op, c>>
      BY <1>4, <3>2
    <3>4. f \in Functors(k)'
      BY <1>2, <3>3
    <3> QED  BY <3>2, <3>4 DEF Alive
  <2> QED  BY <2>1, <2>2
<1> QED  BY <1>1, <1>3, <1>4 DEF c

\* connectEstablished(): whatever keeps the connection in the poller keeps it alive.
LEMMA EstablishedComesUp ==
  ASSUME Inv, Inv', NEW l \in Loops, RunEstablished(l)
  PROVE  \E c \in Connections : CL!ComeUp(c)
<1>0. Of(l) \in 1..lastId
  BY Taken DEF RunEstablished
<1>1. PICK c \in 1..lastId :
        /\ c = Of(l) /\ Starts(l, "establish") /\ Dequeue(l)
        /\ state' = [state EXCEPT ![c] = "up"] /\ polled' = polled \cup {c}
        /\ UNCHANGED <<map, phase, lastId, loopOf, at, queue>>
  BY <1>0 DEF RunEstablished, Established, server, accepts
<1>2. /\ <<"establish", c>> \in Functors(l) /\ at[l] = "functors"
      /\ \A d : Alive(d)' => Alive(d)
      /\ \A d : d # c => (Alive(d) => Alive(d)')
  BY <1>1, TakenOnly
<1>3. c \in Connections /\ l = loopOf[c] /\ 0 \in Loops
  BY <1>2, Facts DEF Inv, Places
<1>4. state[c] = "connecting"
  BY <1>2, <1>3 DEF Inv, States
<1>5. Alive(c) /\ Alive(c)'
  <2>1. c \in polled' /\ at'[loopOf'[c]] # "exited" /\ c \in 1..lastId' /\ loopOf'[c] = l
    BY <1>1, <1>2, <1>3
  <2>2. Watched(c)'
    BY <2>1 DEF Watched
  <2>3. Kept(c)'
    BY <2>1, <2>2 DEF Inv, Referenced
  <2>4. c \in map' \/ <<"remove", c>> \in Functors(0)' \/ <<"destroy", c>> \in Functors(l)'
    BY <2>1, <2>3 DEF Kept
  <2>5. Alive(c)'
    BY <1>3, <2>4, FunctorKeeps DEF Alive
  <2> QED  BY <1>2, <2>5
<1>6. LifeIsStage /\ LifeIsStage'
  BY StageOfAccepted, StageAfter
<1>7. Life[c] = "accepted" /\ Life'[c] = "up"
  <2>1. state'[c] = "up" /\ c \in 1..lastId'
    BY <1>1, <1>2, <1>3 DEF Inv, TypeOK
  <2> QED  BY <1>2, <1>4, <1>5, <1>6, <2>1 DEF LifeIsStage, Stage
<1>8. \A d \in 1..lastId' : d # c => /\ d \in 1..lastId
                                     /\ Alive(d)' <=> Alive(d)
                                     /\ state'[d] = state[d]
  BY <1>1, <1>2, Facts DEF Inv, TypeOK
<1>9. Life' = [Life EXCEPT ![c] = "up"]
  <2>1. c \in 1..lastId' /\ lastId <= lastId'
    BY <1>1, Facts
  <2> QED  BY <1>7, <1>8, <2>1, OneMoves
<1>10. CL!ComeUp(c)
  BY <1>1, <1>7, <1>9 DEF CL!ComeUp, CL!Become
<1> QED  BY <1>3, <1>10

\* handleClose(): the functor that it queues keeps the connection.
LEMMA HandleCloseGoesDown ==
  ASSUME Inv, Inv', NEW c \in Connections, HandleClose(c)
  PROVE  CL!GoDown(c)
<1>1. /\ c \in polled /\ state[c] \in {"up", "disconnecting"} /\ Alive(c)
      /\ state' = [state EXCEPT ![c] = "down"]
      /\ UNCHANGED <<phase, lastId, batch>>
  BY DEF HandleClose, accepts
<1>2. c \in 1..lastId /\ 0 \in Loops
  BY <1>1, Facts DEF Inv, TypeOK
<1>3. PICK op \in {"remove", "destroy"} :
        Queue(0, op, c) /\ map' \subseteq map /\ map \subseteq map' \cup {c}
  BY DEF HandleClose, RemoveInLoop
<1> DEFINE e == <<op, c>>
<1>4. e \in Functor /\ queue' = [queue EXCEPT ![0] = Append(@, e)]
  BY <1>3 DEF Functor, Ops, Queue
<1>5. e[2] = c
  OBVIOUS
<1> HIDE DEF e
<1>6. \A k \in Loops : Functors(k)' = Functors(k) \cup (IF k = 0 THEN {e} ELSE {})
  <2>1. ToSet(Append(queue[0], e)) = ToSet(queue[0]) \cup {e}
    BY <1>2, <1>4, Facts, SetOfAppend
  <2>2. \A k \in Loops : queue'[k] = IF k = 0 THEN Append(queue[0], e) ELSE queue[k]
    BY <1>2, <1>4, Facts
  <2>3. \A k \in Loops : ToSet(queue'[k]) = ToSet(queue[k]) \cup (IF k = 0 THEN {e} ELSE {})
    BY <2>1, <2>2
  <2> QED  BY <1>1, <2>3 DEF Functors
<1>7. Alive(c)'
  <2>1. e \in Functors(0)'
    BY <1>2, <1>6
  <2> QED  BY <1>2, <1>5, <2>1 DEF Alive
<1>8. \A d : d # c => (Alive(d)' <=> Alive(d))
  BY <1>3, <1>5, <1>6 DEF Alive
<1>9. LifeIsStage /\ LifeIsStage'
  BY StageOfAccepted, StageAfter
<1>10. Life[c] = "up" /\ Life'[c] = "down"
  <2>1. state'[c] = "down" /\ c \in 1..lastId'
    BY <1>1, <1>2 DEF Inv, TypeOK
  <2> QED  BY <1>1, <1>2, <1>7, <1>9, <2>1 DEF LifeIsStage, Stage
<1>11. \A d \in 1..lastId' : d # c => /\ d \in 1..lastId
                                      /\ Alive(d)' <=> Alive(d)
                                      /\ state'[d] = state[d]
  BY <1>1, <1>8, Facts DEF Inv, TypeOK
<1>12. Life' = [Life EXCEPT ![c] = "down"]
  <2>1. c \in 1..lastId' /\ lastId <= lastId'
    BY <1>1, <1>2, Facts
  <2> QED  BY <1>10, <1>11, <2>1, OneMoves
<1> QED  BY <1>1, <1>10, <1>12 DEF CL!GoDown, CL!Become

\* newConnection(): connections_ keeps it.
LEMMA AcceptAccepts ==
  ASSUME Inv, Inv', Accept
  PROVE  \E c \in Connections : CL!Accept(c)
<1>1. PICK c \in {lastId + 1} :
        /\ at[0] = "events" /\ arrived > lastId /\ lastId' = c
        /\ loopOf' = [loopOf EXCEPT ![c] = NextLoop] /\ map' = map \cup {c}
        /\ IF n = 0
           THEN state' = [state EXCEPT ![c] = "up"] /\ queue' = queue
           ELSE state' = [state EXCEPT ![c] = "connecting"] /\ Queue(NextLoop, "establish", c)
        /\ UNCHANGED <<phase, batch>>
  BY DEF Accept, Acceptable, Established
<1>2. /\ c \in Connections /\ c \notin 1..lastId /\ c \in 1..lastId' /\ lastId <= lastId'
      /\ \A d \in 1..lastId' : d # c => d \in 1..lastId
  BY <1>1, Facts DEF Connections
<1>3. state' \in [Connections -> {"connecting", "none", "up", "disconnecting", "down"}]
      /\ state'[c] \in {"connecting", "up"} /\ \A d \in Connections : d # c => state'[d] = state[d]
  BY <1>1, <1>2 DEF Inv, TypeOK
<1>4. \A d : d # c => (Alive(d)' <=> Alive(d))
  <2>1. CASE n = 0
    BY <1>1, <2>1 DEF Alive, Functors
  <2>2. CASE n # 0
    <3>1. PICK l \in Loops, e \in Functor :
            e[2] = c /\ queue' = [queue EXCEPT ![l] = Append(@, e)]
      <4>1. NextLoop \in Loops
        <5>1. Counters
          BY DEF Inv
        <5> QED  BY <2>2, <5>1, Facts DEF NextLoop, Counters, Loops
      <4>2. <<"establish", c>> \in Functor /\ <<"establish", c>>[2] = c
        BY <1>2 DEF Functor, Ops
      <4> QED  BY <1>1, <2>2, <4>1, <4>2 DEF Queue
    <3>2. ToSet(Append(queue[l], e)) = ToSet(queue[l]) \cup {e}
      BY Facts, SetOfAppend
    <3>3. \A k \in Loops : ToSet(queue'[k]) = ToSet(queue[k]) \cup (IF k = l THEN {e} ELSE {})
      BY <3>1, <3>2, Facts
    <3>4. \A k \in Loops : Functors(k)' = Functors(k) \cup (IF k = l THEN {e} ELSE {})
      BY <1>1, <3>3 DEF Functors
    <3> QED  BY <1>1, <3>1, <3>4 DEF Alive
  <2> QED  BY <2>1, <2>2
<1>5. Alive(c)'
  BY <1>1 DEF Alive
<1>6. LifeIsStage /\ LifeIsStage'
  BY StageOfAccepted, StageAfter
<1>7. Life[c] = "none" /\ Life'[c] \in {"accepted", "up"}
  BY <1>2, <1>3, <1>5, <1>6 DEF LifeIsStage, Stage
<1>8. Life' = [Life EXCEPT ![c] = Life'[c]]
  <2>1. \A d \in 1..lastId' : d # c => /\ d \in 1..lastId
                                       /\ Alive(d)' <=> Alive(d)
                                       /\ state'[d] = state[d]
    BY <1>2, <1>3, <1>4, <1>6 DEF LifeIsStage
  <2> QED  BY <1>2, <2>1, OneMoves
<1>9. phase \in {"new", "up"} /\ phase' = phase
  BY <1>1, BaseRuns
<1>10. CL!Accept(c)
  BY <1>7, <1>8, <1>9 DEF CL!Accept, CL!Become
<1> QED  BY <1>2, <1>10

\* A server that is closing releases connections, or takes one down.
LEMMA ClosingReleases ==
  ASSUME Inv, Inv', UNCHANGED <<lastId, phase>>, phase \notin {"new", "up"},
         \A d \in 1..lastId : Alive(d)' => Alive(d),
         \/ \A d \in 1..lastId : Alive(d)' => state'[d] = state[d]
         \/ \E c \in 1..lastId :
              /\ state[c] = "up" /\ state'[c] = "down" /\ Alive(c)'
              /\ \A d \in 1..lastId : d # c => state'[d] = state[d] /\ (Alive(d)' <=> Alive(d))
  PROVE  CL!Next
<1>1. LifeIsStage /\ LifeIsStage'
  BY StageOfAccepted, StageAfter
<1>2. CASE \A d \in 1..lastId : Alive(d)' => state'[d] = state[d]
  <2> DEFINE C == {d \in 1..lastId : Life'[d] = "released"}
  <2>1. \A d \in C : Life[d] # "none"
    BY <1>1 DEF LifeIsStage
  <2>2. C \in SUBSET Connections
    BY Facts
  <2>3. \A d \in Connections : Life'[d] = IF d \in C THEN "released" ELSE Life[d]
    <3> SUFFICES ASSUME NEW d \in Connections, d \notin C PROVE Life'[d] = Life[d]
      OBVIOUS
    <3>1. CASE d \in 1..lastId
      <4>1. Alive(d)'
        BY <1>1, <3>1 DEF LifeIsStage
      <4> QED  BY <1>1, <1>2, <3>1, <4>1 DEF LifeIsStage
    <3>2. CASE d \notin 1..lastId
      BY <1>1, <3>2 DEF LifeIsStage
    <3> QED  BY <3>1, <3>2
  <2> HIDE DEF C
  <2>4. Life' = [d \in Connections |-> IF d \in C THEN "released" ELSE Life[d]]
    BY <1>1, <2>3 DEF LifeIsStage
  <2>5. CL!ReleaseEarly(C)
    BY <2>1, <2>4 DEF CL!ReleaseEarly
  <2> QED  BY <2>2, <2>5 DEF CL!Next
<1>3. ASSUME NEW c \in 1..lastId, state[c] = "up", state'[c] = "down", Alive(c)',
             \A d \in 1..lastId : d # c => state'[d] = state[d] /\ (Alive(d)' <=> Alive(d))
      PROVE  CL!Next
  <2>1. Life[c] = "up" /\ Life'[c] = "down" /\ c \in Connections
    BY <1>1, <1>3 DEF LifeIsStage, Stage
  <2>2. c \in 1..lastId' /\ lastId <= lastId'
    BY Facts
  <2>3. \A d \in 1..lastId' :
          d # c => d \in 1..lastId /\ (Alive(d)' <=> Alive(d)) /\ state'[d] = state[d]
    BY <1>3
  <2>4. Life' = [Life EXCEPT ![c] = "down"]
    BY <2>1, <2>2, <2>3, OneMoves
  <2>5. CL!GoDown(c)
    BY <2>1, <2>4 DEF CL!GoDown, CL!Become
  <2> QED  BY <2>1, <2>5 DEF CL!Next
<1> QED  BY <1>2, <1>3

\* connectDestroyed(): the connection is down, unless the server is closing.
LEMMA DestroyedReleases ==
  ASSUME Inv, Inv', NEW l \in Loops, RunDestroyed(l)
  PROVE  CL!Next \/ UNCHANGED CL!vars
<1>0. Of(l) \in 1..lastId
  BY Taken DEF RunDestroyed
<1>1. PICK c \in 1..lastId :
        /\ c = Of(l) /\ Starts(l, "destroy") /\ Dequeue(l)
        /\ state' = [state EXCEPT ![c] = IF @ = "up" THEN "down" ELSE @]
        /\ UNCHANGED <<map, phase, lastId, loopOf, at, queue>>
  BY <1>0 DEF RunDestroyed, Destroyed, server, accepts
<1>2. /\ <<"destroy", c>> \in Functors(l)
      /\ \A d : Alive(d)' => Alive(d)
      /\ \A d : d # c => (Alive(d) => Alive(d)')
  BY <1>1, TakenOnly
<1>3. c \in Connections /\ l = loopOf[c] /\ Alive(c)
  BY <1>2, FunctorKeeps, Facts DEF Inv, Places
<1>4. /\ state'[c] = IF state[c] = "up" THEN "down" ELSE state[c]
      /\ \A d \in 1..lastId : d # c => state'[d] = state[d]
  BY <1>1, <1>3, Facts DEF Inv, TypeOK
<1>5. CASE phase \in {"new", "up"} /\ Alive(c)'
  <2>1. state[c] = "down"
    BY <1>2, <1>3, <1>5 DEF Inv, States
  <2>2. \A d \in 1..lastId : (Alive(d)' <=> Alive(d)) /\ state'[d] = state[d]
    BY <1>2, <1>4, <1>5, <2>1
  <2> QED  BY <1>1, <2>2, LifeGoesOn
<1>6. CASE phase \in {"new", "up"} /\ ~Alive(c)'
  <2>1. LifeIsStage /\ LifeIsStage' /\ state[c] = "down"
    BY <1>2, <1>3, <1>6, StageOfAccepted, StageAfter DEF Inv, States
  <2>2. c \in 1..lastId' /\ lastId <= lastId'
    BY <1>1, Facts
  <2>3. Life[c] = "down" /\ Life'[c] = "released"
    BY <1>3, <1>6, <2>1, <2>2 DEF LifeIsStage, Stage
  <2>4. \A d \in 1..lastId' :
          d # c => d \in 1..lastId /\ (Alive(d)' <=> Alive(d)) /\ state'[d] = state[d]
    BY <1>1, <1>2, <1>4
  <2>5. Life' = [Life EXCEPT ![c] = "released"]
    BY <2>2, <2>3, <2>4, OneMoves
  <2>6. CL!Release(c)
    BY <1>1, <2>3, <2>5 DEF CL!Release, CL!Become
  <2> QED  BY <1>3, <2>6 DEF CL!Next
<1>7. CASE phase \notin {"new", "up"}
  <2>1. \/ \A d \in 1..lastId : Alive(d)' => state'[d] = state[d]
        \/ /\ state[c] = "up" /\ state'[c] = "down" /\ Alive(c)'
           /\ \A d \in 1..lastId : d # c => state'[d] = state[d] /\ (Alive(d)' <=> Alive(d))
    BY <1>2, <1>4
  <2> QED  BY <1>1, <1>2, <1>7, <2>1, ClosingReleases
<1> QED  BY <1>5, <1>6, <1>7

\* removeConnectionInLoop(): the functor it queues keeps what connections_ kept.
LEMMA RemoveKeeps ==
  ASSUME Inv, Inv', RunRemove
  PROVE  UNCHANGED CL!vars
<1>0. 0 \in Loops /\ Of(0) \in 1..lastId
  BY Facts, Taken DEF RunRemove
<1>1. PICK c \in 1..lastId :
        /\ c = Of(0) /\ Starts(0, "remove") /\ Dequeue(0)
        /\ map' = map \ {c} /\ Queue(loopOf[c], "destroy", c)
        /\ UNCHANGED <<phase, lastId, loopOf, state, at>>
  BY <1>0 DEF RunRemove, RemoveInLoop, accepts, conns
<1>2. /\ <<"remove", c>> \in Functors(0)
      /\ \A k \in Loops : k # 0 => batch'[k] = batch[k]
      /\ ToSet(batch[0]) = {<<"remove", c>>} \cup ToSet(batch'[0])
  BY <1>0, <1>1, Taken
<1>3. PICK l \in Loops, e \in Functor : e[2] = c /\ queue' = [queue EXCEPT ![l] = Append(@, e)]
  <2>1. loopOf[c] \in Loops /\ <<"destroy", c>> \in Functor /\ <<"destroy", c>>[2] = c
    BY Facts DEF Functor, Ops
  <2> QED  BY <1>1, <2>1 DEF Queue
<1>4. \A k \in Loops : ToSet(queue'[k]) = ToSet(queue[k]) \cup (IF k = l THEN {e} ELSE {})
  <2>1. ToSet(Append(queue[l], e)) = ToSet(queue[l]) \cup {e}
    BY Facts, SetOfAppend
  <2> QED  BY <1>3, <2>1, Facts
<1>5. /\ \A k \in Loops : \A f \in Functors(k) : f \in Functors(k)' \/ f[2] = c
      /\ \A k \in Loops : \A f \in Functors(k)' : f \in Functors(k) \/ f[2] = c
      /\ e \in Functors(l)'
  <2>1. <<"remove", c>>[2] = c
    OBVIOUS
  <2>2. \A k \in Loops : /\ Functors(k) = ToSet(queue[k]) \cup ToSet(batch[k])
                         /\ Functors(k)' = ToSet(queue'[k]) \cup ToSet(batch'[k])
    BY DEF Functors
  <2> QED  BY <1>2, <1>3, <1>4, <2>1, <2>2
<1>6. Alive(c) /\ Alive(c)'
  BY <1>0, <1>2, <1>3, <1>5, FunctorKeeps DEF Alive
<1>7. \A d : d # c => (Alive(d)' <=> Alive(d))
  <2> SUFFICES ASSUME NEW d, d # c PROVE Alive(d)' <=> Alive(d)
    OBVIOUS
  <2>1. d \in map' <=> d \in map
    BY <1>1
  <2>2. \A k \in Loops : (\E f \in Functors(k)' : f[2] = d) <=> (\E f \in Functors(k) : f[2] = d)
    BY <1>5
  <2> QED  BY <2>1, <2>2 DEF Alive
<1>8. \A d \in 1..lastId : (Alive(d)' <=> Alive(d)) /\ state'[d] = state[d]
  BY <1>1, <1>6, <1>7
<1> QED  BY <1>1, <1>8, LifeGoesOn

\* ~TcpServer: a connection of the base loop is destroyed at once.
LEMMA CloseNextReleases ==
  ASSUME Inv, Inv', CloseNext
  PROVE  CL!Next \/ UNCHANGED CL!vars
<1>1. PICK c \in map :
        /\ map' = map \ {c}
        /\ \/ /\ state' = [state EXCEPT ![c] = IF @ = "up" THEN "down" ELSE @]
              /\ queue' = queue
           \/ loopOf[c] # 0 /\ Queue(loopOf[c], "destroy", c) /\ state' = state
  BY DEF CloseNext, Destroyed, conns
<1>2. phase = "closing" /\ UNCHANGED <<phase, lastId, batch>>
  BY DEF CloseNext, accepts
<1>3. c \in 1..lastId /\ c \in Connections /\ Alive(c)
  BY Facts DEF Inv, TypeOK, Alive
<1>4. \A d : d # c => (Alive(d)' <=> Alive(d))
  <2>1. CASE queue' = queue
    BY <1>1, <1>2, <2>1 DEF Alive, Functors
  <2>2. CASE queue' # queue
    <3>1. PICK l \in Loops, e \in Functor : e[2] = c /\ queue' = [queue EXCEPT ![l] = Append(@, e)]
      <4>1. loopOf[c] \in Loops /\ <<"destroy", c>> \in Functor /\ <<"destroy", c>>[2] = c
        BY <1>3, Facts DEF Functor, Ops
      <4> QED  BY <1>1, <2>2, <4>1 DEF Queue
    <3>2. ToSet(Append(queue[l], e)) = ToSet(queue[l]) \cup {e}
      BY Facts, SetOfAppend
    <3>3. \A k \in Loops : ToSet(queue'[k]) = ToSet(queue[k]) \cup (IF k = l THEN {e} ELSE {})
      BY <3>1, <3>2, Facts
    <3>4. \A k \in Loops : Functors(k)' = Functors(k) \cup (IF k = l THEN {e} ELSE {})
      BY <1>2, <3>3 DEF Functors
    <3> QED  BY <1>1, <3>1, <3>4 DEF Alive
  <2> QED  BY <2>1, <2>2
<1>5. /\ state'[c] = state[c] \/ (state[c] = "up" /\ state'[c] = "down")
      /\ \A d \in 1..lastId : d # c => state'[d] = state[d]
  <2>1. state \in [Connections -> {"none", "connecting", "up", "disconnecting", "down"}]
        /\ 1..lastId \subseteq Connections
    BY Facts DEF Inv, TypeOK
  <2> QED  BY <1>1, <1>3, <2>1
<1>6. \A d \in 1..lastId : Alive(d)' => Alive(d)
  BY <1>3, <1>4
<1>7. \/ \A d \in 1..lastId : Alive(d)' => state'[d] = state[d]
      \/ /\ state[c] = "up" /\ state'[c] = "down" /\ Alive(c)'
         /\ \A d \in 1..lastId : d # c => state'[d] = state[d] /\ (Alive(d)' <=> Alive(d))
  BY <1>4, <1>5
<1> QED  BY <1>2, <1>3, <1>6, <1>7, ClosingReleases

\* A loop that ends destroys its functors, and only a server that is closing makes one end.
LEMMA LoopEndReleases ==
  ASSUME Inv, Inv', DestroyBase \/ \E l \in Loops : CheckQuit(l)
  PROVE  CL!Next \/ UNCHANGED CL!vars
<1>1. UNCHANGED <<lastId, phase, state, map, batch>>
  BY DEF DestroyBase, CheckQuit, server, accepts, conns
<1>2. PICK l \in Loops :
        /\ queue' = queue \/ queue' = [queue EXCEPT ![l] = <<>>]
        /\ queue' = queue \/ phase \notin {"new", "up"} \/ l \notin 0..n
  <2>1. CASE DestroyBase
    BY <2>1, Facts DEF DestroyBase
  <2>2. ASSUME NEW l \in Loops, CheckQuit(l)
        PROVE  \/ queue' = queue
               \/ /\ queue' = [queue EXCEPT ![l] = <<>>]
                  /\ phase \notin {"new", "up"} \/ l \notin 0..n
    <3>1. /\ queue' = [queue EXCEPT ![l] = IF at'[l] = "exited" THEN <<>> ELSE @]
          /\ at' = [at EXCEPT ![l] = IF ~quit[l] THEN "events"
                                    ELSE IF l = 0 THEN "left" ELSE "exited"]
      BY <2>2 DEF CheckQuit
    <3>2. /\ queue \in [Loops -> Seq(Functor)]
          /\ at \in [Loops -> {"out", "entering", "check", "events", "functors", "left", "exited"}]
      BY Facts DEF Inv, TypeOK
    <3>3. CASE quit[l] /\ l # 0
      <4>1. queue' = [queue EXCEPT ![l] = <<>>]
        BY <3>1, <3>2, <3>3
      <4>2. phase \in {"new", "up"} => l \notin PoolLoops
        BY <3>3 DEF Inv, Phases
      <4>3. l \notin PoolLoops => l \notin 0..n
        BY <3>3, Facts DEF PoolLoops
      <4> QED  BY <4>1, <4>2, <4>3
    <3>4. CASE ~(quit[l] /\ l # 0)
      <4>1. at'[l] # "exited"
        BY <3>1, <3>2, <3>4
      <4> QED  BY <3>1, <3>2, <4>1
    <3> QED  BY <3>3, <3>4
  <2>3. 0 \in Loops
    BY Facts
  <2> QED  BY <2>1, <2>2, <2>3
<1>3. \A k \in Loops : Functors(k)' \subseteq Functors(k) /\ (k # l => Functors(k)' = Functors(k))
  <2>1. \A k \in Loops : k # l => queue'[k] = queue[k]
    BY <1>2, Facts
  <2>2. queue'[l] = queue[l] \/ queue'[l] = <<>>
    BY <1>2, Facts
  <2> QED  BY <1>1, <2>1, <2>2, EmptyQueue DEF Functors
<1>4. \A d : Alive(d)' => Alive(d)
  BY <1>1, <1>3 DEF Alive
<1>5. CASE phase \notin {"new", "up"}
  BY <1>1, <1>4, <1>5, ClosingReleases
<1>6. CASE queue' = queue
  <2>1. \A d : Alive(d)' <=> Alive(d)
    BY <1>1, <1>6 DEF Alive, Functors
  <2> QED  BY <1>1, <2>1, LifeGoesOn
<1>7. CASE l \notin 0..n
  <2>1. Functors(l) = {}
    <3> SUFFICES ASSUME NEW f \in Functors(l) PROVE FALSE
      OBVIOUS
    <3>1. f[1] \in Ops /\ f[2] \in Connections
      BY Facts
    <3>2. l = 0 \/ l = loopOf[f[2]]
      BY <3>1 DEF Inv, Places, Ops
    <3> QED  BY <1>7, <3>1, <3>2, Facts
  <2>2. \A k \in Loops : Functors(k)' = Functors(k)
    BY <1>3, <2>1
  <2>3. \A d : Alive(d)' <=> Alive(d)
    BY <1>1, <2>2 DEF Alive
  <2> QED  BY <1>1, <2>3, LifeGoesOn
<1> QED  BY <1>2, <1>5, <1>6, <1>7

\* TcpServer implements ConnectionLife: for any number of threads, clients and
\* descriptors, every connection comes up, goes down and is released in this order
\* and once, and only a server that is closing releases it before.
THEOREM LifeInOrder == Spec => LivesInOrder
<1>1. Init => CL!Init
  <2> SUFFICES ASSUME Init PROVE CL!Init
    OBVIOUS
  <2>1. Inv
    BY InvInitially
  <2>2. LifeIsStage /\ 1..lastId = {}
    BY <2>1, StageOfAccepted DEF Init
  <2>3. Life = [c \in Connections |-> "none"]
    BY <2>2 DEF LifeIsStage
  <2>4. (phase \notin {"new", "up"}) = FALSE
    BY DEF Init
  <2> QED  BY <2>3, <2>4 DEF CL!Init
<1>2. Inv /\ Inv' /\ [Next]_vars => [CL!Next]_(CL!vars)
  <2> SUFFICES ASSUME Inv, Inv', [Next]_vars
               PROVE  CL!Next \/ UNCHANGED CL!vars
    OBVIOUS
  <2>1. CASE \/ Start \/ RunBase \/ QuitBase \/ ClientConnects \/ AcceptFails
             \/ \E l \in Loops : EnterLoop(l) \/ EndBatch(l) \/ TakePending(l)
             \/ \E c \in Connections : Shutdown(c)
             \/ QuitThread \/ Join \/ DestroyAcceptor
             \/ UNCHANGED vars
    BY <2>1, StutteringSteps
  <2>2. CASE Accept
    BY <2>2, AcceptAccepts DEF CL!Next
  <2>3. ASSUME NEW c \in Connections, HandleClose(c) PROVE CL!Next
    BY <2>3, HandleCloseGoesDown DEF CL!Next
  <2>4. ASSUME NEW l \in Loops, RunEstablished(l) PROVE CL!Next
    BY <2>4, EstablishedComesUp DEF CL!Next
  <2>5. ASSUME NEW l \in Loops, RunDestroyed(l) PROVE CL!Next \/ UNCHANGED CL!vars
    BY <2>5, DestroyedReleases
  <2>6. CASE RunRemove
    BY <2>6, RemoveKeeps
  <2>7. CASE CloseNext
    BY <2>7, CloseNextReleases
  <2>8. CASE DestroyBase \/ \E l \in Loops : CheckQuit(l)
    BY <2>8, LoopEndReleases
  <2>9. CASE BeginDestroy
    <3>1. /\ phase = "up" /\ phase' = "closing"
          /\ UNCHANGED <<lastId, map, state, queue, batch>>
      BY <2>9 DEF BeginDestroy, accepts, conns, loops
    <3>2. Life' = Life
      BY <3>1 DEF Life, Alive, Functors
    <3>3. CL!Close
      BY <3>1, <3>2 DEF CL!Close
    <3> QED  BY <3>3 DEF CL!Next
  <2> QED  BY <2>1, <2>2, <2>3, <2>4, <2>5, <2>6, <2>7, <2>8, <2>9
           DEF Next, LoopStep, BaseStep
<1> QED  BY <1>1, <1>2, Invariance, PTL DEF Spec, LivesInOrder, CL!Spec
-----------------------------------------------------------------------------
(* No connection is left over: what ClosedIsReleased and                   *)
(* EverythingIsReleased add to this is fairness.                           *)

\* A connection that went down while the server is up, and is still in connections_, will
\* be removed.
RemovalIsQueued ==
  phase \in {"new", "up"} =>
    \A c \in map : state[c] = "down" => <<"remove", c>> \in Functors(0)

\* What keeps a connection that is down is one of the two functors that let go of it.
DownIsOnItsWay ==
  phase \in {"new", "up"} =>
    \A c \in Open : state[c] = "down" =>
      <<"remove", c>> \in Functors(0) \/ <<"destroy", c>> \in Functors(loopOf[c])

\* ~TcpServer goes on only when connections_ is empty.
MapIsEmptied == phase \in {"joining", "joined", "gone"} => map = {}

\* Nothing outlives the base loop.
EndIsClean == at[0] = "exited" => Open = {}

\* A queue only grows where something is appended.
LEMMA QueueGrows ==
  ASSUME Inv, NEW l \in Loops, NEW op \in Ops, NEW c \in Connections, Queue(l, op, c)
  PROVE  /\ \A k \in Loops : ToSet(queue[k]) \subseteq ToSet(queue'[k])
         /\ <<op, c>> \in ToSet(queue'[l])
<1> DEFINE e == <<op, c>>
<1>1. e \in Functor /\ queue' = [queue EXCEPT ![l] = Append(@, e)]
  BY DEF Functor, Queue
<1> HIDE DEF e
<1>2. queue \in [Loops -> Seq(Functor)]
  BY Facts
<1>3. ToSet(Append(queue[l], e)) = ToSet(queue[l]) \cup {e}
  BY <1>1, <1>2, SetOfAppend
<1>4. queue'[l] = Append(queue[l], e) /\ \A k \in Loops : k # l => queue'[k] = queue[k]
  BY <1>1, <1>2
<1> QED  BY <1>3, <1>4 DEF e

\* Where the steps that queue a functor queue it.
LEMMA QueuesWhere ==
  ASSUME Inv, RunRemove \/ Accept \/ CloseNext \/ \E c \in Connections : HandleClose(c)
  PROVE  \/ queue' = queue
         \/ \E l \in Loops, op \in Ops, c \in Connections : Queue(l, op, c)
<1> USE Facts DEF Ops
<1>1. CASE RunRemove
  <2>1. Of(0) \in Connections
    BY <1>1, Taken DEF RunRemove
  <2> QED  BY <1>1, <2>1 DEF RunRemove, RemoveInLoop
<1>2. CASE Accept
  <2>1. lastId' \in Connections
    BY <1>2 DEF Accept, Acceptable, Connections, Inv, TypeOK
  <2>2. NextLoop \in Loops
    BY DEF NextLoop, Inv, Counters, Loops
  <2> QED  BY <1>2, <2>1, <2>2 DEF Accept
<1>3. CASE CloseNext
  <2>1. map \subseteq Connections
    BY DEF Inv, TypeOK
  <2> QED  BY <1>3, <2>1 DEF CloseNext
<1>4. ASSUME NEW c \in Connections, HandleClose(c)
      PROVE  \E l \in Loops, op \in Ops, d \in Connections : Queue(l, op, d)
  BY <1>4 DEF HandleClose, RemoveInLoop
<1> QED  BY <1>1, <1>2, <1>3, <1>4

\* While the server is up, the base loop loses a removal only by running it.
LEMMA RemovalStays ==
  ASSUME Inv, [Next]_vars, phase' \in {"new", "up"}, NEW c \in map',
         <<"remove", c>> \in Functors(0)
  PROVE  <<"remove", c>> \in Functors(0)'
<1> USE DEF server, accepts, conns, loops, vars
<1> DEFINE f == <<"remove", c>>
<1>0. /\ 0 \in Loops /\ f \in ToSet(queue[0]) \cup ToSet(batch[0])
      /\ queue \in [Loops -> Seq(Functor)] /\ batch \in [Loops -> Seq(Functor)]
  BY Facts
<1>9. Functors(0)' = ToSet(queue'[0]) \cup ToSet(batch'[0])
  BY DEF Functors
<1> HIDE DEF f
<1>1. CASE \/ Start \/ RunBase \/ QuitBase \/ ClientConnects \/ AcceptFails
           \/ \E l \in Loops : EnterLoop(l) \/ EndBatch(l)
           \/ \E d \in Connections : Shutdown(d)
           \/ BeginDestroy \/ QuitThread \/ Join \/ DestroyAcceptor
           \/ UNCHANGED vars
  <2>1. UNCHANGED <<queue, batch>>
    BY <1>1 DEF Start, RunBase, QuitBase, ClientConnects, AcceptFails, EnterLoop, EndBatch,
                Shutdown, BeginDestroy, QuitThread, Join, DestroyAcceptor
  <2> QED  BY <1>0, <1>9, <2>1 DEF f
<1>2. ASSUME NEW l \in Loops, TakePending(l)
      PROVE  f \in ToSet(queue'[0]) \cup ToSet(batch'[0])
  <2>1. /\ at[l] = "events" /\ batch' = [batch EXCEPT ![l] = queue[l]]
        /\ queue' = [queue EXCEPT ![l] = <<>>]
    BY <1>2 DEF TakePending
  <2>2. CASE l = 0
    <3>1. batch[0] = <<>>
      BY <1>0, <2>1, <2>2 DEF Inv, Queues
    <3>2. f \in ToSet(queue[0]) /\ batch'[0] = queue[0]
      BY <1>0, <2>1, <2>2, <3>1, EmptyQueue
    <3> QED  BY <3>2
  <2>3. CASE l # 0
    <3>1. queue'[0] = queue[0] /\ batch'[0] = batch[0]
      BY <1>0, <2>1, <2>3
    <3> QED  BY <1>0, <3>1
  <2> QED  BY <2>2, <2>3
<1>3. ASSUME NEW l \in Loops, CheckQuit(l)
      PROVE  f \in ToSet(queue'[0]) \cup ToSet(batch'[0])
  <2>1. /\ at' = [at EXCEPT ![l] = IF ~quit[l] THEN "events"
                                  ELSE IF l = 0 THEN "left" ELSE "exited"]
        /\ queue' = [queue EXCEPT ![l] = IF at'[l] = "exited" THEN <<>> ELSE @]
        /\ UNCHANGED batch
    BY <1>3 DEF CheckQuit
  <2>2. l = 0 => at'[l] # "exited"
    BY <2>1 DEF Inv, TypeOK
  <2>3. queue'[0] = queue[0] /\ batch'[0] = batch[0]
    BY <1>0, <2>1, <2>2
  <2> QED  BY <1>0, <2>3
<1>4. ASSUME NEW l \in Loops, NEW op \in Ops, Starts(l, op), Dequeue(l), <<op, Of(l)>> # f,
             \A k \in Loops : ToSet(queue[k]) \subseteq ToSet(queue'[k])
      PROVE  f \in ToSet(queue'[0]) \cup ToSet(batch'[0])
  <2>1. /\ \A k \in Loops : k # l => batch'[k] = batch[k]
        /\ ToSet(batch[l]) = {<<op, Of(l)>>} \cup ToSet(batch'[l])
    BY <1>4, Taken
  <2> QED  BY <1>0, <1>4, <2>1
<1>5. ASSUME NEW l \in Loops, RunEstablished(l) \/ RunDestroyed(l)
      PROVE  f \in ToSet(queue'[0]) \cup ToSet(batch'[0])
  <2>1. PICK op \in {"establish", "destroy"} : Starts(l, op) /\ Dequeue(l) /\ queue' = queue
    BY <1>5 DEF RunEstablished, RunDestroyed
  <2>2. op \in Ops /\ <<op, Of(l)>> # f
    BY DEF f, Ops
  <2>3. \A k \in Loops : ToSet(queue[k]) \subseteq ToSet(queue'[k])
    BY <2>1
  <2> QED  BY <1>4, <2>1, <2>2, <2>3
<1>6. CASE RunRemove
  <2>1. Starts(0, "remove") /\ Dequeue(0) /\ map' = map \ {Of(0)}
    BY <1>6 DEF RunRemove, RemoveInLoop
  <2>2. "remove" \in Ops /\ <<"remove", Of(0)>> # f
    BY <2>1 DEF f, Ops
  <2>3. \A k \in Loops : ToSet(queue[k]) \subseteq ToSet(queue'[k])
    BY <1>6, QueuesWhere, QueueGrows
  <2> QED  BY <1>0, <1>4, <1>9, <2>1, <2>2, <2>3 DEF f
<1>7. CASE Accept \/ CloseNext \/ \E d \in Connections : HandleClose(d)
  <2>1. \A k \in Loops : ToSet(queue[k]) \subseteq ToSet(queue'[k])
    BY <1>7, QueuesWhere, QueueGrows
  <2>2. UNCHANGED batch
    BY <1>7 DEF Accept, CloseNext, HandleClose
  <2> QED  BY <1>0, <1>9, <2>1, <2>2 DEF f
<1>8. CASE DestroyBase
  BY <1>8 DEF DestroyBase
<1> QED  BY <1>1, <1>2, <1>3, <1>5, <1>6, <1>7, <1>8, <1>9 DEF Next, LoopStep, BaseStep, f

\* While the server is up, a connection in connections_ goes down in handleClose().
LEMMA NewlyDown ==
  ASSUME Inv, [Next]_vars, phase' \in {"new", "up"}, NEW c \in map', state'[c] = "down"
  PROVE  (c \in map /\ state[c] = "down") \/ (c \in Connections /\ HandleClose(c))
<1> USE DEF server, accepts, conns, loops, vars
<1>0. /\ state \in [Connections -> {"none", "connecting", "up", "disconnecting", "down"}]
      /\ map \subseteq 1..lastId /\ 1..lastId \subseteq Connections
  BY Facts DEF Inv, TypeOK
<1>1. CASE \/ Start \/ RunBase \/ QuitBase \/ ClientConnects \/ AcceptFails
           \/ \E l \in Loops : EnterLoop(l) \/ EndBatch(l) \/ TakePending(l) \/ CheckQuit(l)
           \/ BeginDestroy \/ QuitThread \/ Join \/ DestroyAcceptor \/ DestroyBase
           \/ UNCHANGED vars
  <2>1. UNCHANGED <<map, state>>
    BY <1>1 DEF Start, RunBase, QuitBase, ClientConnects, AcceptFails, EnterLoop, EndBatch,
                TakePending, CheckQuit, BeginDestroy, QuitThread, Join, DestroyAcceptor,
                DestroyBase
  <2> QED  BY <2>1
<1>2. CASE RunRemove
  BY <1>2 DEF RunRemove, RemoveInLoop
<1>3. ASSUME NEW d \in Connections, Shutdown(d) PROVE c \in map /\ state[c] = "down"
  BY <1>0, <1>3 DEF Shutdown
<1>4. ASSUME NEW d \in Connections, HandleClose(d), d # c PROVE c \in map /\ state[c] = "down"
  BY <1>0, <1>4 DEF HandleClose, RemoveInLoop
<1>5. ASSUME NEW d \in Connections, HandleClose(d), d = c PROVE c \in Connections /\ HandleClose(c)
  BY <1>5
<1>6. CASE Accept
  <2>1. lastId' \in Connections /\ lastId' \notin 1..lastId
    BY <1>6, Facts DEF Accept, Acceptable, Connections, Inv, TypeOK
  <2>2. /\ map' = map \cup {lastId'}
        /\ \E new \in {"up", "connecting"} : state' = [state EXCEPT ![lastId'] = new]
    BY <1>6 DEF Accept, Established
  <2> QED  BY <1>0, <2>1, <2>2
<1>7. ASSUME NEW l \in Loops, RunEstablished(l) PROVE c \in map /\ state[c] = "down"
  <2>1. state' = [state EXCEPT ![Of(l)] = "up"] /\ UNCHANGED map
    BY <1>7 DEF RunEstablished, Established
  <2> QED  BY <1>0, <2>1
<1>8. ASSUME NEW l \in Loops, RunDestroyed(l) PROVE c \in map /\ state[c] = "down"
  <2>1. /\ state' = [state EXCEPT ![Of(l)] = IF @ = "up" THEN "down" ELSE @]
        /\ UNCHANGED <<map, phase>> /\ Starts(l, "destroy") /\ Dequeue(l)
    BY <1>8 DEF RunDestroyed, Destroyed
  <2>2. <<"destroy", Of(l)>> \in Functors(l) /\ Of(l) \in 1..lastId
    BY <2>1, Taken
  <2>3. l = loopOf[Of(l)]
    BY <2>2 DEF Inv, Places
  <2>4. state[Of(l)] = "down"
    BY <2>1, <2>2, <2>3 DEF Inv, States
  <2> QED  BY <1>0, <2>1, <2>4
<1>9. CASE CloseNext
  BY <1>9 DEF CloseNext
<1> QED  BY <1>1, <1>2, <1>3, <1>4, <1>5, <1>6, <1>7, <1>8, <1>9 DEF Next, LoopStep, BaseStep

\* No step leads back to a server that is up.
LEMMA UpBefore ==
  ASSUME Inv, [Next]_vars, phase' \in {"new", "up"}
  PROVE  phase \in {"new", "up"}
<1> USE DEF server, accepts, conns, loops, vars
<1>1. phase' = phase \/ phase = "new" \/ phase' \notin {"new", "up"}
  BY DEF Next, LoopStep, BaseStep, Start, RunBase, QuitBase, ClientConnects, Accept, AcceptFails,
         Shutdown, HandleClose, EnterLoop, CheckQuit, TakePending, EndBatch, RunEstablished,
         RunDestroyed, RunRemove, BeginDestroy, CloseNext, QuitThread, Join, DestroyAcceptor,
         DestroyBase
<1> QED  BY <1>1

\* Every connection that goes down has its removal queued, until that has run.
LEMMA AlwaysRemoved == Spec => []RemovalIsQueued
<1>1. Init => RemovalIsQueued
  BY DEF Init, RemovalIsQueued
<1>2. Inv /\ RemovalIsQueued /\ [Next]_vars => RemovalIsQueued'
  <2> SUFFICES ASSUME Inv, RemovalIsQueued, [Next]_vars, phase' \in {"new", "up"},
                      NEW c \in map', state'[c] = "down"
               PROVE  <<"remove", c>> \in Functors(0)'
    BY DEF RemovalIsQueued
  <2>1. phase \in {"new", "up"}
    BY UpBefore
  <2>2. CASE c \in map /\ state[c] = "down"
    <3>1. <<"remove", c>> \in Functors(0)
      BY <2>1, <2>2 DEF RemovalIsQueued
    <3> QED  BY <3>1, RemovalStays
  <2>3. CASE c \in Connections /\ HandleClose(c)
    <3>1. Queue(0, "remove", c)
      BY <2>3 DEF HandleClose, RemoveInLoop
    <3>2. <<"remove", c>> \in ToSet(queue'[0])
      BY <2>3, <3>1, QueueGrows, Facts DEF Ops
    <3> QED  BY <3>2 DEF Functors
  <2> QED  BY <2>2, <2>3, NewlyDown
<1> QED  BY <1>1, <1>2, Invariance, PTL DEF Spec

\* ~TcpServer has closed every connection before it destroys the pool, and no loop then
\* accepts another.
LEMMA AlwaysEmptied == Spec => []MapIsEmptied
<1>1. Init => MapIsEmptied
  BY DEF Init, MapIsEmptied
<1>2. Inv /\ MapIsEmptied /\ [Next]_vars => MapIsEmptied'
  <2> SUFFICES ASSUME Inv, MapIsEmptied, [Next]_vars, phase' \in {"joining", "joined", "gone"}
               PROVE  map' = {}
    BY DEF MapIsEmptied
  <2> USE DEF server, accepts, conns, loops, vars
  <2>1. CASE Accept
    <3>1. phase' = phase /\ at[0] = "events"
      BY <2>1 DEF Accept, Acceptable
    <3> QED  BY <3>1, BaseRuns
  <2>2. CASE RunRemove \/ \E c \in Connections : HandleClose(c)
    <3>1. phase' = phase /\ map' \subseteq map
      BY <2>2 DEF RunRemove, HandleClose, RemoveInLoop
    <3> QED  BY <3>1 DEF MapIsEmptied
  <2>3. CASE CloseNext \/ Start \/ BeginDestroy
    BY <2>3 DEF CloseNext, Start, BeginDestroy
  <2>4. CASE QuitThread \/ DestroyAcceptor \/ Join
    BY <2>4 DEF QuitThread, DestroyAcceptor, Join, MapIsEmptied
  <2>5. CASE \/ RunBase \/ QuitBase \/ ClientConnects \/ AcceptFails
             \/ \E l \in Loops : EnterLoop(l) \/ EndBatch(l) \/ TakePending(l) \/ CheckQuit(l)
                                 \/ RunEstablished(l) \/ RunDestroyed(l)
             \/ \E d \in Connections : Shutdown(d)
             \/ DestroyBase \/ UNCHANGED vars
    <3>1. UNCHANGED <<map, phase>>
      BY <2>5 DEF RunBase, QuitBase, ClientConnects, AcceptFails, EnterLoop, EndBatch,
                  TakePending, CheckQuit, RunEstablished, RunDestroyed, Shutdown, DestroyBase
    <3> QED  BY <3>1 DEF MapIsEmptied
  <2> QED  BY <2>1, <2>2, <2>3, <2>4, <2>5 DEF Next, LoopStep, BaseStep
<1> QED  BY <1>1, <1>2, Invariance, PTL DEF Spec

\* While a server is up, whatever still refers to a connection that went down, one of the
\* two functors that let go of it is queued (removeConnectionInLoop() in the base loop, then
\* connectDestroyed() in its own): a descriptor cannot leak between the three loops' queues.
THEOREM ClosedIsOnItsWayOut == Spec => []DownIsOnItsWay
<1>1. Inv /\ RemovalIsQueued => DownIsOnItsWay
  <2> SUFFICES ASSUME Inv, RemovalIsQueued, phase \in {"new", "up"}, NEW c \in Open,
                      state[c] = "down"
               PROVE  \/ <<"remove", c>> \in Functors(0)
                      \/ <<"destroy", c>> \in Functors(loopOf[c])
    BY DEF DownIsOnItsWay
  <2>1. c \in 1..lastId /\ Alive(c)
    BY DEF Open
  <2>2. CASE c \in map
    BY <2>2 DEF RemovalIsQueued
  <2>3. CASE c \notin map
    <3>1. PICK l \in Loops : \E f \in Functors(l) : f[2] = c
      BY <2>1, <2>3 DEF Alive
    <3>2. PICK f \in Functors(l) : f[2] = c
      BY <3>1
    <3>3. f = <<f[1], c>> /\ f[1] \in Ops
      BY <3>2, Facts
    <3>4. f[1] # "establish"
      <4> SUFFICES ASSUME f[1] = "establish" PROVE FALSE
        OBVIOUS
      <4>1. l = loopOf[c]
        BY <3>2 DEF Inv, Places
      <4> QED  BY <2>1, <3>2, <3>3, <4>1 DEF Inv, States
    <3>5. /\ f[1] = "destroy" => l = loopOf[c]
          /\ f[1] = "remove" => l = 0
      BY <3>2 DEF Inv, Places
    <3> QED  BY <3>2, <3>3, <3>4, <3>5 DEF Ops
  <2> QED  BY <2>2, <2>3
<1> QED  BY <1>1, AlwaysRemoved, Invariance, PTL

\* Once the base loop is destroyed, after the server, every connection that was ever accepted
\* has been destroyed and its descriptor closed, although loops that quit drop their functors.
THEOREM NothingOutlivesTheServer == Spec => []EndIsClean
<1>1. Inv /\ MapIsEmptied /\ NothingDangles => EndIsClean
  <2> SUFFICES ASSUME Inv, MapIsEmptied, NothingDangles, at[0] = "exited", NEW c \in Open
               PROVE  FALSE
    BY DEF EndIsClean
  <2>1. phase = "gone" /\ c \in 1..lastId /\ Alive(c)
    BY DEF Inv, Phases, Open
  <2>2. c \notin map
    BY <2>1 DEF MapIsEmptied
  <2>3. PICK l \in Loops : \E f \in Functors(l) : f[2] = c
    BY <2>1, <2>2 DEF Alive
  <2>4. PICK f \in Functors(l) : f[2] = c
    BY <2>3
  <2>5. l = 0 \/ l = loopOf[c]
    <3>1. f[1] \in Ops
      BY <2>4, Facts
    <3> QED  BY <2>4, <3>1 DEF Inv, Places, Ops
  <2>6. l = 0 \/ l \in PoolLoops
    <3>1. c \in Connections
      BY <2>1, Facts
    <3>2. loopOf[c] \in 0..n /\ n \in Nat
      BY <3>1, Facts
    <3> QED  BY <2>5, <3>2 DEF PoolLoops
  <2>7. at[l] = "exited"
    BY <2>1, <2>6 DEF NothingDangles
  <2> QED  BY <2>4, <2>7 DEF NothingDangles
<1> QED  BY <1>1, AlwaysEmptied, NothingEverDangles, Invariance, PTL
=============================================================================
