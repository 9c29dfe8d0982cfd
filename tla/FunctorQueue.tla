---------------------------- MODULE FunctorQueue ----------------------------
(***************************************************************************)
(* The contract of EventLoop::runInLoop and EventLoop::queueInLoop, free   *)
(* of threads, mutexes and eventfds: a functor handed to a loop is run     *)
(* exactly once, and the functors that had to be queued are run in the     *)
(* order in which they were queued.  A functor run directly (runInLoop on  *)
(* the loop's own thread) may overtake the queue.                          *)
(***************************************************************************)
EXTENDS Sequences, Functions

CONSTANT Functors      \* the functor objects; each is handed over at most once

VARIABLES todo,        \* queued and not yet run, oldest first
          ran          \* already run, oldest first

vars == <<todo, ran>>

Fresh == Functors \ (Range(todo) \cup Range(ran))

Init == todo = <<>> /\ ran = <<>>

Queue(f) ==
  /\ f \in Fresh
  /\ todo' = Append(todo, f)
  /\ UNCHANGED ran

RunDirectly(f) ==
  /\ f \in Fresh
  /\ ran' = Append(ran, f)
  /\ UNCHANGED todo

RunOldest ==
  /\ todo # <<>>
  /\ ran' = Append(ran, Head(todo))
  /\ todo' = Tail(todo)

Next == RunOldest \/ \E f \in Functors : Queue(f) \/ RunDirectly(f)

Spec == Init /\ [][Next]_vars
=============================================================================
