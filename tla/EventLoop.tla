----------------------------- MODULE EventLoop -----------------------------
(***************************************************************************)
(* One EventLoop: its own thread inside EventLoop::loop(), and the other   *)
(* threads that hand it functors (runInLoop, queueInLoop) or stop it       *)
(* (quit).  An operation of another thread is split where that thread can  *)
(* be preempted between two accesses to shared state: the locked append    *)
(* (or the store to quit_) and the write to the eventfd are two steps.     *)
(*                                                                         *)
(* The eventfd counter is kept as "readable or not", which is all that     *)
(* epoll and handldRead() tell apart.                                      *)
(***************************************************************************)
EXTENDS Naturals, Sequences, Functions

CONSTANTS Callers,        \* threads other than the loop's own
          Functors,       \* functor objects; each is handed over at most once
          InitFunctors,   \* those queued by the loop's own thread before loop()
          IoChannels,     \* channels of the loop other than wakeupChannel_
          WakeupChannel   \* wakeupChannel_

ASSUME InitFunctorsAssumption == InitFunctors \subseteq Functors
ASSUME WakeupAssumption == WakeupChannel \notin IoChannels

VARIABLES at,             \* where the loop's own thread is in loop()
          quit,           \* quit_
          active,         \* activeChannels_ not yet handled
          wakeupFd,       \* wakeupFd_ is readable
          pending,        \* pendingFunctors_, guarded by mux_
          batch,          \* the local vector `functors` of doPendingFunctors()
          calling,        \* callingPendingFunctors_
          caller,         \* per other thread: idle, or about to call wakeup()
          ran             \* history: functors run so far, in order

vars == <<at, quit, active, wakeupFd, pending, batch, calling, caller, ran>>

Fresh == Functors \ (Range(ran) \cup Range(batch) \cup Range(pending))

Init ==
  /\ at = "notStarted"
  /\ quit = FALSE
  /\ active = {}
  /\ wakeupFd = FALSE
  /\ pending = <<>>
  /\ batch = <<>>
  /\ calling = FALSE
  /\ caller = [c \in Callers |-> "idle"]
  /\ ran = <<>>
-----------------------------------------------------------------------------
(* The other threads.                                                      *)

\* Mutant of QueueInLoop: returns without wakeup().
QueueWithoutWakeup(c, f) ==
  /\ caller[c] = "idle"
  /\ f \in Fresh \ InitFunctors
  /\ pending' = Append(pending, f)
  /\ UNCHANGED <<at, quit, active, wakeupFd, batch, calling, caller, ran>>

\* queueInLoop (and runInLoop, which forwards to it off the loop's thread):
\* append under mux_; the wakeup() is still to come.
QueueInLoop(c, f) ==
  /\ caller[c] = "idle"
  /\ f \in Fresh \ InitFunctors
  /\ pending' = Append(pending, f)
  /\ caller' = [caller EXCEPT ![c] = "wakeup"]
  /\ UNCHANGED <<at, quit, active, wakeupFd, batch, calling, ran>>

\* wakeup(): the write to the eventfd.
Wakeup(c) ==
  /\ caller[c] = "wakeup"
  /\ wakeupFd' = TRUE
  /\ caller' = [caller EXCEPT ![c] = "idle"]
  /\ UNCHANGED <<at, quit, active, pending, batch, calling, ran>>

\* Mutant of Quit: forgets that a sleeping loop has to be woken.
QuitWithoutWakeup(c) ==
  /\ caller[c] = "idle"
  /\ quit' = TRUE
  /\ UNCHANGED <<at, active, wakeupFd, pending, batch, calling, caller, ran>>

\* quit() from another thread: store quit_; the wakeup() is still to come.
Quit(c) ==
  /\ caller[c] = "idle"
  /\ quit' = TRUE
  /\ caller' = [caller EXCEPT ![c] = "wakeup"]
  /\ UNCHANGED <<at, active, wakeupFd, pending, batch, calling, ran>>
-----------------------------------------------------------------------------
(* The loop's own thread, in code called by the loop or before loop().     *)

InHandler == at = "events" /\ active \cap IoChannels # {}
InFunctor == at = "functors" /\ batch # <<>>
OwnCode   == at = "notStarted" \/ InHandler \/ InFunctor

\* Mutant of OwnQueueInLoop: without the test of callingPendingFunctors_.
OwnQueueNeverWakes(f) ==
  /\ OwnCode
  /\ f \in Fresh
  /\ f \in InitFunctors <=> at = "notStarted"
  /\ pending' = Append(pending, f)
  /\ UNCHANGED <<at, quit, active, wakeupFd, batch, calling, caller, ran>>

\* queueInLoop on the loop's own thread wakes the loop only while it is
\* running functors: from a channel's handler doPendingFunctors() is still
\* to come in this iteration.
OwnQueueInLoop(f) ==
  /\ OwnCode
  /\ f \in Fresh
  /\ f \in InitFunctors <=> at = "notStarted"
  /\ pending' = Append(pending, f)
  /\ wakeupFd' = (wakeupFd \/ calling)
  /\ UNCHANGED <<at, quit, active, batch, calling, caller, ran>>

\* runInLoop on the loop's own thread calls the functor at once.
OwnRunInLoop(f) ==
  /\ OwnCode
  /\ f \in Fresh \ InitFunctors
  /\ ran' = Append(ran, f)
  /\ UNCHANGED <<at, quit, active, wakeupFd, pending, batch, calling, caller>>

\* quit() on the loop's own thread.
OwnQuit ==
  /\ OwnCode
  /\ quit' = TRUE
  /\ UNCHANGED <<at, active, wakeupFd, pending, batch, calling, caller, ran>>
-----------------------------------------------------------------------------
(* The loop's own thread, the body of loop().                              *)

\* Entering loop() clears quit_, whoever set it before.
StartLoop ==
  /\ at = "notStarted"
  /\ quit' = FALSE
  /\ at' = "check"
  /\ UNCHANGED <<active, wakeupFd, pending, batch, calling, caller, ran>>

\* while (!quit_)
CheckQuit ==
  /\ at = "check"
  /\ at' = IF quit THEN "exited" ELSE "poll"
  /\ UNCHANGED <<quit, active, wakeupFd, pending, batch, calling, caller, ran>>

\* epoll_wait reports some of the ready channels (level triggered; its array
\* may be too short for all of them).
Ready == IoChannels \cup (IF wakeupFd THEN {WakeupChannel} ELSE {})

PollReturns ==
  /\ at = "poll"
  /\ active' \in (SUBSET Ready) \ {{}}
  /\ at' = "events"
  /\ UNCHANGED <<quit, wakeupFd, pending, batch, calling, caller, ran>>

\* epoll_wait returns without events, after kPollTimeMs or on EINTR.
PollTimesOut ==
  /\ at = "poll"
  /\ at' = "events"
  /\ UNCHANGED <<quit, active, wakeupFd, pending, batch, calling, caller, ran>>

\* handldRead(): reading the eventfd resets it.
HandleWakeup ==
  /\ at = "events"
  /\ WakeupChannel \in active
  /\ wakeupFd' = FALSE
  /\ active' = active \ {WakeupChannel}
  /\ UNCHANGED <<at, quit, pending, batch, calling, caller, ran>>

\* The handler of an I/O channel returns; what it called came before.
HandleIo(ch) ==
  /\ at = "events"
  /\ ch \in active \cap IoChannels
  /\ active' = active \ {ch}
  /\ UNCHANGED <<at, quit, wakeupFd, pending, batch, calling, caller, ran>>

\* Mutant of TakePending: copies pendingFunctors_ where the code swaps it.
CopyPending ==
  /\ at = "events" /\ active = {}
  /\ at' = "functors"
  /\ calling' = TRUE
  /\ batch' = pending
  /\ UNCHANGED <<quit, active, wakeupFd, pending, caller, ran>>

\* doPendingFunctors(): set the flag and swap the vectors under mux_.
TakePending ==
  /\ at = "events" /\ active = {}
  /\ at' = "functors"
  /\ calling' = TRUE
  /\ batch' = pending
  /\ pending' = <<>>
  /\ UNCHANGED <<quit, active, wakeupFd, caller, ran>>

\* A functor of the batch returns; what it called came before.
RunFunctor ==
  /\ at = "functors" /\ batch # <<>>
  /\ ran' = Append(ran, Head(batch))
  /\ batch' = Tail(batch)
  /\ UNCHANGED <<at, quit, active, wakeupFd, pending, calling, caller>>

\* Mutant of EndBatch: the flag stays set.
EndBatchKeepsFlag ==
  /\ at = "functors" /\ batch = <<>>
  /\ at' = "check"
  /\ UNCHANGED <<quit, active, wakeupFd, pending, batch, calling, caller, ran>>

\* The end of doPendingFunctors().
EndBatch ==
  /\ at = "functors" /\ batch = <<>>
  /\ calling' = FALSE
  /\ at' = "check"
  /\ UNCHANGED <<quit, active, wakeupFd, pending, batch, caller, ran>>
-----------------------------------------------------------------------------
OtherThread(c) ==
  \/ Wakeup(c)
  \/ Quit(c)
  \/ \E f \in Functors : QueueInLoop(c, f)

OwnCall ==
  \/ OwnQuit
  \/ \E f \in Functors : OwnQueueInLoop(f) \/ OwnRunInLoop(f)

\* The steps the loop's thread takes without waiting for the outside world.
LoopStep ==
  \/ StartLoop
  \/ CheckQuit
  \/ HandleWakeup
  \/ \E ch \in IoChannels : HandleIo(ch)
  \/ TakePending
  \/ RunFunctor
  \/ EndBatch

Next ==
  \/ \E c \in Callers : OtherThread(c)
  \/ OwnCall
  \/ LoopStep
  \/ PollReturns
  \/ PollTimesOut

Spec == Init /\ [][Next]_vars

(***************************************************************************)
(* Fairness: a runnable thread is scheduled, and epoll_wait returns when   *)
(* the eventfd is readable.  No I/O event is assumed, and not even the     *)
(* 60-second timeout: what is eventually done is done because of a wakeup. *)
(***************************************************************************)
Fairness ==
  /\ WF_vars(LoopStep)
  /\ WF_vars(wakeupFd /\ PollReturns)
  /\ \A c \in Callers : WF_vars(Wakeup(c))

FairSpec == Spec /\ Fairness
-----------------------------------------------------------------------------
(* Properties.                                                             *)

\* Types, and the phase of loop() in which each loop-local variable is in
\* use: activeChannels_ only while handling, the batch and the flag
\* callingPendingFunctors_ only inside doPendingFunctors().
TypeOK ==
  /\ at \in {"notStarted", "check", "poll", "events", "functors", "exited"}
  /\ quit \in BOOLEAN
  /\ active \subseteq IoChannels \cup {WakeupChannel}
  /\ wakeupFd \in BOOLEAN
  /\ pending \in Seq(Functors)
  /\ batch \in Seq(Functors)
  /\ calling \in BOOLEAN
  /\ caller \in [Callers -> {"idle", "wakeup"}]
  /\ ran \in Seq(Functors)
  /\ active # {} => at = "events"
  /\ batch # <<>> => at = "functors"
  /\ calling = (at = "functors")

\* The eventfd is readable or some thread is about to write it.
WakeupDue == wakeupFd \/ \E c \in Callers : caller[c] = "wakeup"

\* No lost wakeup: from where it would reach epoll_wait without looking at
\* pendingFunctors_ once more, a loop with a functor waiting there is about
\* to be woken, unless all such functors were queued by its own thread
\* before loop(), where queueInLoop() does not wake the loop.
NoLostWakeup ==
  /\ at \in {"notStarted", "functors", "check", "poll"}
  /\ ~(Range(pending) \subseteq InitFunctors)
  => WakeupDue

\* A loop that was told to quit while it was looping never blocks in
\* epoll_wait for good.
QuitIsNoticed == at = "poll" /\ quit => WakeupDue

\* Handing functors to the loop implements the exactly-once FIFO contract.
FQ == INSTANCE FunctorQueue WITH todo <- batch \o pending
RunsOnceInOrder == FQ!Spec

\* Every functor queued for a loop is run, unless the loop exits.
EveryFunctorRuns ==
  \A f \in Functors \ InitFunctors :
    f \in Range(pending) ~> (f \in Range(ran) \/ at = "exited")

\* A quit() that arrives once loop() has been entered makes loop() return.
QuitEndsLoop == quit /\ at # "notStarted" ~> at = "exited"
=============================================================================
