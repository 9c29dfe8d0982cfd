--------------------- MODULE EventLoopThreadPoolProofs ---------------------
(***************************************************************************)
(* Proofs about EventLoopThreadPool for any number of threads.             *)
(***************************************************************************)
EXTENDS EventLoopThreadPool, TLAPS

InLoop  == {"enter", "loop", "clear"}          \* loop_ points to the loop
Leaving == {"unlock", "destroy", "done"}       \* loop_ has been cleared

\* loop_ follows the thread; a thread past loop() was told to quit.
PointerFollows ==
  \A i \in Threads :
    /\ loopSet[i] <=> worker[i] \in InLoop
    /\ worker[i] \in {"clear"} \cup Leaving => quit[i]

\* How far the threads are that start() has collected and those it has still to
\* create.
StartOrder ==
  \A i \in Threads :
    /\ Returned(i) => worker[i] \in InLoop \cup Leaving
    /\ owner \in {"start", "sem", "test", "wait"} /\ i > cur => worker[i] = "none"
    /\ owner = "start" /\ i = cur => worker[i] = "none"

\* The loops before next_ have been handed out once more than the others.
RoundRobin ==
  \A i \in Threads : picks[i] = picks[N] + (IF i <= next THEN 1 ELSE 0)

Inv == TypeOK /\ PointerFollows /\ StartOrder /\ ObjectOutlivesThread

LEMMA InitInv == Init => Inv
<1> SUFFICES ASSUME Init PROVE Inv
  OBVIOUS
<1> USE NAssumption DEF Init, Threads
<1>1. TypeOK
  BY DEF TypeOK, OwnerPlaces, WorkerPlaces
<1>2. PointerFollows /\ StartOrder
  BY DEF PointerFollows, StartOrder, Returned, InLoop, Leaving
<1>3. ObjectOutlivesThread
  BY DEF ObjectOutlivesThread
<1> QED  BY <1>1, <1>2, <1>3 DEF Inv

\* start() creates the threads one by one and collects a loop that is published.
LEMMA StartInv ==
  ASSUME Inv, StartThread \/ ThreadRuns \/ TestLoop \/ SpuriousWakeup
  PROVE  Inv'
<1> USE NAssumption DEF Inv, Threads, threadVars
<1>1. CASE StartThread
  <2>1. TypeOK'
    BY <1>1 DEF StartThread, Goes, TypeOK, OwnerPlaces, WorkerPlaces
  <2>2. PointerFollows'
    BY <1>1 DEF StartThread, Goes, TypeOK, PointerFollows, StartOrder, InLoop, Leaving
  <2>3. StartOrder'
    BY <1>1 DEF StartThread, Goes, TypeOK, StartOrder, Returned
  <2>4. ObjectOutlivesThread'
    BY <1>1 DEF StartThread, Goes, TypeOK, StartOrder, ObjectOutlivesThread
  <2> QED  BY <2>1, <2>2, <2>3, <2>4
<1>2. CASE ThreadRuns \/ SpuriousWakeup
  BY <1>2 DEF ThreadRuns, SpuriousWakeup, TypeOK, OwnerPlaces, PointerFollows, StartOrder,
              Returned, ObjectOutlivesThread
<1>3. CASE TestLoop
  <2>1. TypeOK'
    BY <1>3 DEF TestLoop, TypeOK, OwnerPlaces
  <2>2. PointerFollows' /\ ObjectOutlivesThread'
    BY <1>3 DEF TestLoop, PointerFollows, ObjectOutlivesThread
  <2>3. StartOrder'
    <3>1. CASE ~loopSet[cur]
      BY <1>3, <3>1 DEF TestLoop, TypeOK, StartOrder, Returned
    <3>2. CASE loopSet[cur] /\ cur < N
      BY <1>3, <3>2 DEF TestLoop, TypeOK, PointerFollows, StartOrder, Returned
    <3>3. CASE loopSet[cur] /\ ~(cur < N)
      BY <1>3, <3>3 DEF TestLoop, TypeOK, PointerFollows, StartOrder, Returned
    <3> QED  BY <3>1, <3>2, <3>3
  <2> QED  BY <2>1, <2>2, <2>3
<1> QED  BY <1>1, <1>2, <1>3

\* The destructors destroy an EventLoopThread only behind its thread.
LEMMA DestroyInv ==
  ASSUME Inv, DestroyPool \/ SkipEnded \/ ReadLoop \/ QuitLoop \/ WakeupLoop \/ Join
  PROVE  Inv'
<1> USE NAssumption DEF Inv, Threads, threadVars
<1>1. CASE DestroyPool \/ ReadLoop \/ WakeupLoop
  <2>1. TypeOK'
    <3>1. owner' \in OwnerPlaces
      BY <1>1 DEF DestroyPool, ReadLoop, WakeupLoop, OwnerPlaces
    <3>2. cur' \in Threads
      BY <1>1 DEF DestroyPool, ReadLoop, WakeupLoop, TypeOK
    <3>3. UNCHANGED <<threadVars, next, picks>>
      BY <1>1 DEF DestroyPool, ReadLoop, WakeupLoop
    <3> QED  BY <3>1, <3>2, <3>3 DEF TypeOK
  <2>2. PointerFollows' /\ ObjectOutlivesThread'
    BY <1>1 DEF DestroyPool, ReadLoop, WakeupLoop, PointerFollows, ObjectOutlivesThread
  <2>3. StartOrder'
    BY <1>1 DEF DestroyPool, ReadLoop, WakeupLoop, StartOrder, Returned
  <2> QED  BY <2>1, <2>2, <2>3
<1>2. CASE QuitLoop
  <2>1. TypeOK' /\ StartOrder' /\ ObjectOutlivesThread'
    BY <1>2 DEF QuitLoop, TypeOK, OwnerPlaces, StartOrder, Returned, ObjectOutlivesThread
  <2>2. PointerFollows'
    BY <1>2 DEF QuitLoop, TypeOK, PointerFollows
  <2> QED  BY <2>1, <2>2
<1>3. CASE SkipEnded \/ Join
  <2>1. worker[cur] \in Leaving
    <3>1. worker[cur] \in InLoop \cup Leaving
      BY <1>3 DEF SkipEnded, Join, TypeOK, StartOrder, Returned
    <3>2. CASE SkipEnded
      BY <3>1, <3>2 DEF SkipEnded, TypeOK, PointerFollows
    <3>3. CASE Join
      BY <3>3 DEF Join, At, Leaving
    <3> QED  BY <1>3, <3>2, <3>3
  <2>2. TypeOK'
    <3>1. owner' \in OwnerPlaces
      BY <1>3 DEF SkipEnded, Join, Destroyed, OwnerPlaces
    <3>2. cur' \in Threads
      BY <1>3 DEF SkipEnded, Join, Destroyed, TypeOK
    <3>3. gone' \subseteq Threads
      BY <1>3 DEF SkipEnded, Join, Destroyed, TypeOK
    <3>4. UNCHANGED <<worker, loopSet, quit, next, picks>>
      BY <1>3 DEF SkipEnded, Join
    <3> QED  BY <3>1, <3>2, <3>3, <3>4 DEF TypeOK
  <2>3. PointerFollows'
    BY <1>3 DEF SkipEnded, Join, PointerFollows
  <2>4. StartOrder'
    BY <1>3 DEF SkipEnded, Join, Destroyed, StartOrder, Returned
  <2>5. ObjectOutlivesThread'
    BY <1>3, <2>1 DEF SkipEnded, Join, Destroyed, ObjectOutlivesThread, Leaving
  <2> QED  BY <2>2, <2>3, <2>4, <2>5
<1> QED  BY <1>1, <1>2, <1>3

\* A thread publishes its loop while it exists and quits before it leaves.
LEMMA WorkerInv ==
  ASSUME Inv, NEW i \in Threads, WorkerStep(i) \/ UserQuits(i)
  PROVE  Inv'
<1> USE NAssumption DEF Inv, Threads, At, Goes
<1> USE DEF RunThread, ConstructLoop, Publish, EnterLoop, LeaveLoop, ClearLoop, Unlock,
            DestroyLoop, UserQuits
<1>1. TypeOK'
  BY DEF WorkerStep, TypeOK, OwnerPlaces, WorkerPlaces
<1>2. PointerFollows'
  <2> USE DEF TypeOK, PointerFollows, InLoop, Leaving
  <2>1. CASE RunThread(i) \/ ConstructLoop(i)
    BY <2>1
  <2>2. CASE Publish(i)
    BY <2>2
  <2>3. CASE EnterLoop(i) \/ UserQuits(i)
    BY <2>3
  <2>4. CASE LeaveLoop(i)
    BY <2>4
  <2>5. CASE ClearLoop(i)
    BY <2>5
  <2>6. CASE Unlock(i) \/ DestroyLoop(i)
    BY <2>6
  <2> QED  BY <2>1, <2>2, <2>3, <2>4, <2>5, <2>6 DEF WorkerStep
<1>3. StartOrder'
  <2>1. cur' = cur /\ (Returned(i) <=> Returned(i)')
        /\ \A j \in Threads : Returned(j)' => Returned(j)
    BY DEF WorkerStep, Returned
  <2>2. (owner' \in {"start", "sem", "test", "wait"}
           <=> owner \in {"start", "sem", "test", "wait"})
        /\ (owner' = "start" <=> owner = "start")
    BY DEF WorkerStep
  <2>3. (worker[i] # "none" /\ worker'[i] # "none") \/ worker' = worker
    BY DEF WorkerStep, TypeOK
  <2>4. worker[i] \in InLoop \cup Leaving => worker'[i] \in InLoop \cup Leaving
    BY DEF WorkerStep, TypeOK, InLoop, Leaving
  <2>5. \A j \in Threads : j # i => worker'[j] = worker[j]
    BY DEF WorkerStep, TypeOK
  <2> QED  BY <2>1, <2>2, <2>3, <2>4, <2>5 DEF StartOrder
<1>4. ObjectOutlivesThread'
  BY DEF WorkerStep, TypeOK, ObjectOutlivesThread
<1> QED  BY <1>1, <1>2, <1>3, <1>4

LEMMA Inductive == Spec => []Inv
<1>1. ASSUME Inv, GetNextLoop PROVE Inv'
  BY <1>1, NAssumption DEF Inv, GetNextLoop, threadVars, TypeOK, Threads, PointerFollows,
                           StartOrder, Returned, ObjectOutlivesThread
<1>2. ASSUME Inv, UNCHANGED vars PROVE Inv'
  BY <1>2 DEF Inv, vars, threadVars, TypeOK, PointerFollows, StartOrder, Returned,
              ObjectOutlivesThread
<1>3. Inv /\ [Next]_vars => Inv'
  BY <1>1, <1>2, StartInv, DestroyInv, WorkerInv DEF Next, OwnerStep
<1> QED  BY <1>3, InitInv, PTL DEF Spec

LEMMA RoundRobinInductive == Spec => []RoundRobin
<1>1. Init => RoundRobin
  BY NAssumption DEF Init, RoundRobin, Threads
<1>2. ASSUME TypeOK, RoundRobin, [Next]_vars PROVE RoundRobin'
  <2> USE NAssumption DEF Threads, TypeOK, RoundRobin
  <2>1. CASE GetNextLoop
    <3>1. CASE next + 1 < N
      BY <1>2, <2>1, <3>1 DEF GetNextLoop
    <3>2. CASE next + 1 = N
      BY <1>2, <2>1, <3>2 DEF GetNextLoop
    <3> QED  BY <1>2, <3>1, <3>2
  <2>2. CASE UNCHANGED <<next, picks>>
    BY <1>2, <2>2
  <2>3. GetNextLoop \/ UNCHANGED <<next, picks>>
    BY <1>2 DEF Next, OwnerStep, WorkerStep, vars, StartThread, ThreadRuns, TestLoop,
         SpuriousWakeup, DestroyPool, SkipEnded, ReadLoop, QuitLoop, WakeupLoop, Join,
         RunThread, ConstructLoop, Publish, EnterLoop, LeaveLoop, ClearLoop, Unlock,
         DestroyLoop, UserQuits
  <2> QED  BY <2>1, <2>2, <2>3
<1>3. Inv => TypeOK
  BY DEF Inv
<1> QED  BY <1>1, <1>2, <1>3, Inductive, PTL DEF Spec
-----------------------------------------------------------------------------
\* Types: next_ stays an index of loops_.
THEOREM TypeCorrect == Spec => []TypeOK
BY Inductive, PTL DEF Inv

\* loop_ never points to an EventLoop that does not exist.
THEOREM PublishedLoopsExist == Spec => []PublishedIsAlive
<1>1. Inv => PublishedIsAlive
  BY DEF Inv, TypeOK, PointerFollows, PublishedIsAlive, Alive, InLoop
<1> QED  BY <1>1, Inductive, PTL

\* start() collects only loops that run until somebody quits them.
THEOREM CollectedLoopsExist == Spec => []CollectedIsAlive
<1>1. Inv => CollectedIsAlive
  BY DEF Inv, TypeOK, PointerFollows, StartOrder, CollectedIsAlive, Alive, InLoop, Leaving
<1> QED  BY <1>1, Inductive, PTL

\* No thread comes to lock the mutex of a destroyed EventLoopThread.
THEOREM ThreadsEndBeforeTheirObject == Spec => []ObjectOutlivesThread
BY Inductive, PTL DEF Inv

\* getNextLoop() is fair to within one connection.
THEOREM RoundRobinIsBalanced == Spec => []Balanced
<1>1. ASSUME TypeOK, RoundRobin PROVE Balanced
  <2>1. picks[N] \in Nat
    BY <1>1, NAssumption DEF TypeOK, Threads
  <2>2. \A i \in Threads : picks[i] \in {picks[N], picks[N] + 1}
    BY <1>1, <2>1 DEF RoundRobin
  <2> QED  BY <2>1, <2>2 DEF Balanced
<1>2. Inv => TypeOK
  BY DEF Inv
<1> QED  BY <1>1, <1>2, Inductive, RoundRobinInductive, PTL
-----------------------------------------------------------------------------
(* No notification is lost: what StartReturns adds to this is fairness.    *)

\* Where the owner waits on the condition variable the notification is still to come.
WaitIsAnswered == owner = "wait" => At(cur, "construct") \/ At(cur, "publish")

\* How far the thread is that start() is waiting for; nobody quits a loop that
\* start() has not collected.
Awaited ==
  /\ \A i \in Threads : ~Returned(i) => ~quit[i]
  /\ owner = "sem" => ~At(cur, "none")
  /\ owner \in {"test", "wait"} => ~At(cur, "none") /\ ~At(cur, "spawned")
  /\ owner = "wait" => ~loopSet[cur]

LEMMA AwaitedInductive == Spec => []Awaited
<1>1. Init => Awaited
  BY NAssumption DEF Init, Awaited, Threads
<1>2. ASSUME TypeOK, StartOrder, Awaited, StartThread \/ ThreadRuns \/ TestLoop \/ SpuriousWakeup
      PROVE  Awaited'
  <2> USE NAssumption DEF Threads, TypeOK, Returned, At
  <2>1. CASE StartThread
    <3>1. owner = "start" /\ owner' = "sem" /\ cur' = cur /\ quit' = quit /\ worker'[cur] = "spawned"
      BY <1>2, <2>1 DEF StartThread, Goes
    <3> QED  BY <1>2, <3>1 DEF Awaited
  <2>2. CASE ThreadRuns \/ SpuriousWakeup
    BY <1>2, <2>2 DEF ThreadRuns, SpuriousWakeup, Awaited, threadVars
  <2>3. CASE TestLoop
    <3>1. owner = "test" /\ UNCHANGED <<worker, loopSet, quit>>
      BY <2>3 DEF TestLoop, threadVars
    <3>2. CASE ~loopSet[cur]
      <4>1. owner' = "wait" /\ cur' = cur
        BY <2>3, <3>2 DEF TestLoop
      <4> QED  BY <1>2, <3>1, <3>2, <4>1 DEF Awaited
    <3>3. CASE loopSet[cur]
      <4>1. owner' \in {"start", "ready"} /\ \A i \in Threads : ~Returned(i)' => ~Returned(i)
        BY <1>2, <2>3, <3>1, <3>3 DEF TestLoop
      <4> QED  BY <1>2, <3>1, <4>1 DEF Awaited
    <3> QED  BY <3>2, <3>3
  <2> QED  BY <1>2, <2>1, <2>2, <2>3
<1>3. ASSUME Awaited, SkipEnded \/ ReadLoop \/ QuitLoop \/ WakeupLoop \/ Join \/ DestroyPool
      PROVE  Awaited'
  <2>1. owner' \in {"exiting", "end", "quit", "wakeup", "join"}
    BY <1>3 DEF SkipEnded, ReadLoop, QuitLoop, WakeupLoop, Join, DestroyPool, Destroyed
  <2> QED  BY <2>1 DEF Awaited, Returned
<1>4. ASSUME TypeOK, PointerFollows, Awaited, NEW i \in Threads, WorkerStep(i) \/ UserQuits(i)
      PROVE  Awaited'
  <2> USE DEF At, Goes
  <2>1. CASE Publish(i)
    <3>1. worker' = [worker EXCEPT ![i] = "enter"] /\ cur' = cur /\ quit' = quit
          /\ loopSet' = [loopSet EXCEPT ![i] = TRUE]
          /\ owner' = IF owner = "wait" /\ cur = i THEN "test" ELSE owner
      BY <2>1 DEF Publish
    <3> QED  BY <1>4, <3>1 DEF Awaited, TypeOK, Returned
  <2>2. CASE UserQuits(i)
    BY <1>4, <2>2 DEF UserQuits, Awaited, TypeOK, Returned
  <2>3. CASE WorkerStep(i) /\ ~Publish(i)
    <3>1. owner' = owner /\ cur' = cur
      BY <2>3 DEF WorkerStep, RunThread, ConstructLoop, EnterLoop, LeaveLoop, ClearLoop, Unlock,
                  DestroyLoop
    <3>2. \A j \in Threads : (quit'[j] => quit[j]) /\ (loopSet'[j] => loopSet[j])
      BY <1>4, <2>3 DEF WorkerStep, RunThread, ConstructLoop, EnterLoop, LeaveLoop, ClearLoop,
                        Unlock, DestroyLoop, TypeOK
    <3>3. \A j \in Threads : worker'[j] # worker[j] => worker'[j] \notin {"none", "spawned"}
      BY <1>4, <2>3 DEF WorkerStep, RunThread, ConstructLoop, EnterLoop, LeaveLoop, ClearLoop,
                        Unlock, DestroyLoop, TypeOK
    <3>4. cur \in Threads
      BY <1>4 DEF TypeOK
    <3> QED  BY <1>4, <3>1, <3>2, <3>3, <3>4 DEF Awaited, Returned
  <2> QED  BY <1>4, <2>1, <2>2, <2>3
<1>5. ASSUME Awaited, GetNextLoop \/ UNCHANGED vars
      PROVE  Awaited'
  BY <1>5 DEF Awaited, GetNextLoop, vars, threadVars, Returned, At
<1>6. Inv /\ Awaited /\ [Next]_vars => Awaited'
  BY <1>2, <1>3, <1>4, <1>5 DEF Inv, Next, OwnerStep
<1> QED  BY <1>1, <1>6, Inductive, PTL DEF Spec

\* For any number of threads start() waits only for a thread that has still to publish
\* its loop and to notify: the test of loop_ and the wait leave no room for a lost
\* notification, spurious wakeups and quits of earlier loops included.
THEOREM NoNotificationIsLost == Spec => []WaitIsAnswered
<1>1. ASSUME Inv, Awaited, owner = "wait"
      PROVE  worker[cur] \in {"construct", "publish"}
  <2>1. cur \in Threads /\ worker[cur] \in WorkerPlaces /\ ~Returned(cur)
    BY <1>1 DEF Inv, TypeOK, Returned, Threads
  <2>2. worker[cur] \notin {"none", "spawned"} /\ ~quit[cur] /\ ~loopSet[cur]
    BY <1>1, <2>1 DEF Awaited, At
  <2>3. worker[cur] \notin InLoop /\ worker[cur] \notin Leaving
    BY <1>1, <2>1, <2>2 DEF Inv, PointerFollows
  <2> QED  BY <2>1, <2>2, <2>3 DEF WorkerPlaces, InLoop, Leaving
<1>2. Inv /\ Awaited => WaitIsAnswered
  BY <1>1 DEF WaitIsAnswered, At
<1> QED  BY <1>2, Inductive, AwaitedInductive, PTL
=============================================================================
