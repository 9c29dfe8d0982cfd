------------------------ MODULE EventLoopThreadPool ------------------------
(***************************************************************************)
(* An EventLoopThreadPool: its owner (the base loop's thread) starts the   *)
(* EventLoopThreads one after the other, hands out their loops round robin *)
(* and destroys them one after the other; each has a thread with an        *)
(* EventLoop on its stack.  What an EventLoop does inside loop() is the    *)
(* business of module EventLoop: here it is in loop() until told to quit.  *)
(*                                                                         *)
(* The critical sections under mutex_ that nobody can look into are one    *)
(* action.  The last one is two, because the destructor reads loop_        *)
(* without the mutex.  A pool of no threads has no state to model.         *)
(***************************************************************************)
EXTENDS Naturals

CONSTANTS N,            \* numThreads_
          MaxPicks      \* bound: how often getNextLoop() returns one loop

ASSUME NAssumption == N \in Nat \ {0}
ASSUME MaxPicksAssumption == MaxPicks \in Nat

Threads == 1..N

VARIABLES owner,        \* where the owner is
          cur,          \* the EventLoopThread it is starting or destroying
          worker,       \* where each thread is
          loopSet,      \* loop_ is not null
          quit,         \* quit_ of each thread's EventLoop
          gone,         \* the EventLoopThreads that are destroyed
          next,         \* next_
          picks         \* history: how often each loop was handed out

threadVars == <<worker, loopSet, quit, gone>>
vars == <<owner, cur, threadVars, next, picks>>

Init ==
  /\ owner = "start" /\ cur = 1
  /\ worker = [i \in Threads |-> "none"]
  /\ loopSet = [i \in Threads |-> FALSE]
  /\ quit = [i \in Threads |-> FALSE]
  /\ gone = {}
  /\ next = 0
  /\ picks = [i \in Threads |-> 0]

At(i, place) == worker[i] = place
Goes(i, place) == worker' = [worker EXCEPT ![i] = place]

\* The thread's EventLoop exists.
Alive(i) == worker[i] \in {"publish", "enter", "loop", "clear", "unlock", "destroy"}
-----------------------------------------------------------------------------
(* The owner: start().                                                     *)

\* startLoop(), Thread::start(): create the thread ...
StartThread ==
  /\ owner = "start"
  /\ Goes(cur, "spawned")
  /\ owner' = "sem"
  /\ UNCHANGED <<cur, loopSet, quit, gone, next, picks>>

\* ... and wait until it runs.
ThreadRuns ==
  /\ owner = "sem" /\ ~At(cur, "spawned")
  /\ owner' = "test"
  /\ UNCHANGED <<cur, threadVars, next, picks>>

\* Mutant of TestLoop: returns whatever loop_ is.
ReturnUntested ==
  /\ owner = "test"
  /\ owner' = IF cur < N THEN "start" ELSE "ready"
  /\ cur' = IF cur < N THEN cur + 1 ELSE cur
  /\ UNCHANGED <<threadVars, next, picks>>

\* The loop that waits under mutex_: start() goes on with the next thread, or
\* releases the mutex and waits.
TestLoop ==
  /\ owner = "test"
  /\ owner' = IF ~loopSet[cur] THEN "wait" ELSE IF cur < N THEN "start" ELSE "ready"
  /\ cur' = IF loopSet[cur] /\ cur < N THEN cur + 1 ELSE cur
  /\ UNCHANGED <<threadVars, next, picks>>

\* cond_.wait() may return for no reason.
SpuriousWakeup ==
  /\ owner = "wait"
  /\ owner' = "test"
  /\ UNCHANGED <<cur, threadVars, next, picks>>
-----------------------------------------------------------------------------
(* The owner: getNextLoop().                                               *)

\* Mutant of GetNextLoop: wraps around one loop too early.
SkipLastLoop ==
  /\ owner = "ready" /\ picks[next + 1] < MaxPicks
  /\ picks' = [picks EXCEPT ![next + 1] = @ + 1]
  /\ next' = IF next + 1 >= N - 1 THEN 0 ELSE next + 1
  /\ UNCHANGED <<owner, cur, threadVars>>

\* Mutant of GetNextLoop: wraps around one loop too late.
PastLastLoop ==
  /\ owner = "ready" /\ picks[next + 1] < MaxPicks
  /\ picks' = [picks EXCEPT ![next + 1] = @ + 1]
  /\ next' = IF next + 1 > N THEN 0 ELSE next + 1
  /\ UNCHANGED <<owner, cur, threadVars>>

\* loops_[next_] is the loop of thread next_ + 1.
GetNextLoop ==
  /\ owner = "ready" /\ picks[next + 1] < MaxPicks
  /\ picks' = [picks EXCEPT ![next + 1] = @ + 1]
  /\ next' = IF next + 1 >= N THEN 0 ELSE next + 1
  /\ UNCHANGED <<owner, cur, threadVars>>
-----------------------------------------------------------------------------
(* The owner: destruction of the pool, and so of its EventLoopThreads.     *)

DestroyPool ==
  /\ owner = "ready"
  /\ owner' = "exiting" /\ cur' = 1
  /\ UNCHANGED <<threadVars, next, picks>>

\* The EventLoopThread is destroyed, the next one follows.  ~Thread detaches a
\* thread that was not joined.
Destroyed ==
  /\ gone' = gone \cup {cur}
  /\ owner' = IF cur < N THEN "exiting" ELSE "end"
  /\ cur' = IF cur < N THEN cur + 1 ELSE cur

\* ~EventLoopThread: no loop any more.
SkipEnded ==
  /\ owner = "exiting" /\ ~loopSet[cur]
  /\ Destroyed
  /\ UNCHANGED <<worker, loopSet, quit, next, picks>>

\* ~EventLoopThread: there is a loop.
ReadLoop ==
  /\ owner = "exiting" /\ loopSet[cur]
  /\ owner' = "quit"
  /\ UNCHANGED <<cur, threadVars, next, picks>>

\* Mutant of QuitLoop: joins a thread that nobody told to stop.
JoinOnly ==
  /\ owner = "quit"
  /\ owner' = "join"
  /\ UNCHANGED <<cur, threadVars, next, picks>>

\* quit(): the store, and then the wakeup of the thread, which may be leaving
\* loop() already.
QuitLoop ==
  /\ owner = "quit"
  /\ quit' = [quit EXCEPT ![cur] = TRUE]
  /\ owner' = "wakeup"
  /\ UNCHANGED <<cur, worker, loopSet, gone, next, picks>>

WakeupLoop ==
  /\ owner = "wakeup"
  /\ owner' = "join"
  /\ UNCHANGED <<cur, threadVars, next, picks>>

\* Mutant of Join: detaches the thread instead.
JoinTooSoon ==
  /\ owner = "join"
  /\ Destroyed
  /\ UNCHANGED <<worker, loopSet, quit, next, picks>>

\* thread_.join() returns.
Join ==
  /\ owner = "join" /\ At(cur, "done")
  /\ Destroyed
  /\ UNCHANGED <<worker, loopSet, quit, next, picks>>
-----------------------------------------------------------------------------
(* The threads: threadFunc().                                              *)

\* The new thread runs and posts the semaphore; it constructs its EventLoop and
\* runs the init callback.
RunThread(i) ==
  /\ At(i, "spawned") /\ Goes(i, "construct")
  /\ UNCHANGED <<owner, cur, loopSet, quit, gone, next, picks>>

ConstructLoop(i) ==
  /\ At(i, "construct") /\ Goes(i, "publish")
  /\ UNCHANGED <<owner, cur, loopSet, quit, gone, next, picks>>

\* Mutant of Publish: without notify_one().
PublishSilently(i) ==
  /\ At(i, "publish") /\ Goes(i, "enter")
  /\ loopSet' = [loopSet EXCEPT ![i] = TRUE]
  /\ UNCHANGED <<owner, cur, quit, gone, next, picks>>

\* Under mutex_: set loop_ and notify the owner, if it is waiting.
Publish(i) ==
  /\ At(i, "publish") /\ Goes(i, "enter")
  /\ loopSet' = [loopSet EXCEPT ![i] = TRUE]
  /\ owner' = IF owner = "wait" /\ cur = i THEN "test" ELSE owner
  /\ UNCHANGED <<cur, quit, gone, next, picks>>

\* loop() clears quit_ ...
EnterLoop(i) ==
  /\ At(i, "enter") /\ Goes(i, "loop")
  /\ quit' = [quit EXCEPT ![i] = FALSE]
  /\ UNCHANGED <<owner, cur, loopSet, gone, next, picks>>

\* ... and returns once it is set.
LeaveLoop(i) ==
  /\ At(i, "loop") /\ quit[i] /\ Goes(i, "clear")
  /\ UNCHANGED <<owner, cur, loopSet, quit, gone, next, picks>>

\* Mutant of ClearLoop: the pointer stays.
LeaveLoopSet(i) ==
  /\ At(i, "clear") /\ Goes(i, "unlock")
  /\ UNCHANGED <<owner, cur, loopSet, quit, gone, next, picks>>

\* Under mutex_: clear loop_.  The mutex is released at the end of threadFunc(),
\* before the EventLoop is destroyed.
ClearLoop(i) ==
  /\ At(i, "clear") /\ Goes(i, "unlock")
  /\ loopSet' = [loopSet EXCEPT ![i] = FALSE]
  /\ UNCHANGED <<owner, cur, quit, gone, next, picks>>

Unlock(i) ==
  /\ At(i, "unlock") /\ Goes(i, "destroy")
  /\ UNCHANGED <<owner, cur, loopSet, quit, gone, next, picks>>

DestroyLoop(i) ==
  /\ At(i, "destroy") /\ Goes(i, "done")
  /\ UNCHANGED <<owner, cur, loopSet, quit, gone, next, picks>>

\* startLoop() has returned thread i's loop to start().
Returned(i) == owner \notin {"start", "sem", "test", "wait"} \/ i < cur

\* Somebody who got the loop from the pool quits it in one of its functors.
UserQuits(i) ==
  /\ Returned(i) /\ At(i, "loop")
  /\ quit' = [quit EXCEPT ![i] = TRUE]
  /\ UNCHANGED <<owner, cur, worker, loopSet, gone, next, picks>>
-----------------------------------------------------------------------------
OwnerStep ==
  \/ StartThread \/ ThreadRuns \/ TestLoop
  \/ SkipEnded \/ ReadLoop \/ QuitLoop \/ WakeupLoop \/ Join

WorkerStep(i) ==
  \/ RunThread(i) \/ ConstructLoop(i) \/ Publish(i) \/ EnterLoop(i)
  \/ LeaveLoop(i) \/ ClearLoop(i) \/ Unlock(i) \/ DestroyLoop(i)

Next ==
  \/ OwnerStep
  \/ SpuriousWakeup \/ GetNextLoop \/ DestroyPool
  \/ \E i \in Threads : WorkerStep(i) \/ UserQuits(i)

Spec == Init /\ [][Next]_vars

\* Runnable threads are scheduled; nobody has to use or destroy the pool.
Fairness == WF_vars(OwnerStep) /\ \A i \in Threads : WF_vars(WorkerStep(i))

FairSpec == Spec /\ Fairness
-----------------------------------------------------------------------------
(* Properties.                                                             *)

OwnerPlaces == {"start", "sem", "test", "wait", "ready", "exiting", "quit", "wakeup",
                "join", "end"}
WorkerPlaces == {"none", "spawned", "construct", "publish", "enter", "loop", "clear",
                 "unlock", "destroy", "done"}

\* Types.
TypeOK ==
  /\ owner \in OwnerPlaces /\ cur \in Threads
  /\ worker \in [Threads -> WorkerPlaces]
  /\ loopSet \in [Threads -> BOOLEAN] /\ quit \in [Threads -> BOOLEAN]
  /\ gone \subseteq Threads
  /\ next \in 0..(N - 1) /\ picks \in [Threads -> Nat]

\* loop_ points to a loop that exists: it is published after the loop is
\* constructed and cleared before it is destroyed.
PublishedIsAlive == \A i \in Threads : loopSet[i] => Alive(i)

\* Every loop that start() has collected was running or about to run, and nobody
\* had quit it: what getNextLoop() hands out before anyone calls quit().
CollectedIsAlive == \A i \in Threads : Returned(i) => Alive(i) \/ quit[i]

\* A thread never comes to lock the mutex_ of an EventLoopThread that has been
\* destroyed.
ObjectOutlivesThread ==
  \A i \in gone : worker[i] \in {"unlock", "destroy", "done"}

\* getNextLoop() spreads the connections evenly.
Balanced == \A i, j \in Threads : picks[i] <= picks[j] + 1

\* start() returns: what EventLoopThreadPool.cc:46 and testServer.cc:73 worry
\* about.  No notification is lost between the test of loop_ and the wait.
StartReturns == owner = "start" ~> owner = "ready"

\* ~EventLoopThread returns for a thread that is in loop() by then.
DestructorReturns ==
  \A i \in Threads :
    (owner = "exiting" /\ cur = i /\ At(i, "loop")) ~> i \in gone

\* What EventLoopThread.cc:24 says: the destructor waits until the thread has
\* exited.  Violated when quit() comes before loop(), which clears quit_: the
\* thread never exits and the destructor never returns.
JoinReturns == owner = "join" ~> owner # "join"
=============================================================================
