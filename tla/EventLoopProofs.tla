--------------------------- MODULE EventLoopProofs ---------------------------
(***************************************************************************)
(* Proofs about EventLoop for any number of calling threads, functors and  *)
(* I/O channels: the safety properties, and that the loop implements the   *)
(* contract of FunctorQueue.                                               *)
(***************************************************************************)
EXTENDS EventLoop, SequenceTheorems, TLAPS

-----------------------------------------------------------------------------
(* Facts about the functor vectors.                                        *)

\* emplace_back adds one functor to those of the vector.
LEMMA RangeAppend ==
  ASSUME NEW S, NEW s \in Seq(S), NEW e \in S
  PROVE  Range(Append(s, e)) = Range(s) \cup {e}
<1>1. /\ DOMAIN Append(s, e) = 1 .. Len(s) + 1
      /\ DOMAIN s = 1 .. Len(s)
      /\ \A i \in 1 .. Len(s) : Append(s, e)[i] = s[i]
      /\ Append(s, e)[Len(s) + 1] = e
      /\ Len(s) \in Nat
  OBVIOUS
<1>2. 1 .. Len(s) + 1 = (1 .. Len(s)) \cup {Len(s) + 1}
  BY <1>1
<1> QED  BY <1>1, <1>2 DEF Range

\* A functor of two vectors taken together is in one of them.
LEMMA RangeConcat ==
  ASSUME NEW S, NEW s \in Seq(S), NEW t \in Seq(S)
  PROVE  Range(s \o t) = Range(s) \cup Range(t)
<1>1. /\ DOMAIN s = 1 .. Len(s) /\ DOMAIN t = 1 .. Len(t)
      /\ Len(s) \in Nat /\ Len(t) \in Nat
      /\ DOMAIN (s \o t) = 1 .. Len(s) + Len(t)
  BY ConcatProperties, LenProperties
<1>2. \A i \in 1 .. Len(s) : (s \o t)[i] = s[i]
  BY <1>1, ConcatProperties
<1>3. \A i \in 1 .. Len(t) :
        i + Len(s) \in 1 .. Len(s) + Len(t) /\ (s \o t)[i + Len(s)] = t[i]
  BY <1>1, ConcatProperties
<1>4. \A i \in 1 .. Len(s) + Len(t) :
        i \in 1 .. Len(s) \/ (i - Len(s) \in 1 .. Len(t) /\ (s \o t)[i] = t[i - Len(s)])
  BY <1>1, ConcatProperties
<1>5. Range(s) = {s[i] : i \in 1 .. Len(s)} /\ Range(t) = {t[i] : i \in 1 .. Len(t)}
  BY <1>1 DEF Range
<1>6. Range(s \o t) = {(s \o t)[i] : i \in 1 .. Len(s) + Len(t)}
  BY <1>1 DEF Range
<1>7. Range(s \o t) \subseteq Range(s) \cup Range(t)
  BY <1>2, <1>4, <1>5, <1>6
<1>8. Range(s) \cup Range(t) \subseteq Range(s \o t)
  BY <1>1, <1>2, <1>3, <1>5, <1>6
<1> QED  BY <1>7, <1>8

\* Running the oldest functor of the batch runs the oldest of all.
LEMMA HeadTailOfConcat ==
  ASSUME NEW S, NEW s \in Seq(S), NEW t \in Seq(S), s # <<>>
  PROVE  /\ s \o t # <<>>
         /\ Head(s \o t) = Head(s)
         /\ Tail(s \o t) = Tail(s) \o t
<1>1. Len(s) \in Nat \ {0} /\ Len(t) \in Nat
  BY EmptySeq, LenProperties
<1>2. s \o t \in Seq(S) /\ s \o t # <<>> /\ Tail(s) \in Seq(S) /\ Tail(s) \o t \in Seq(S)
  BY <1>1, ConcatProperties, HeadTailProperties, ConcatSimplifications
<1>3. Tail(s \o t) \in Seq(S) /\ Len(Tail(s \o t)) = Len(Tail(s) \o t)
  BY <1>1, <1>2, ConcatProperties, HeadTailProperties
<1>4. ASSUME NEW i \in 1 .. Len(Tail(s \o t))
      PROVE  Tail(s \o t)[i] = (Tail(s) \o t)[i]
  <2>1. Tail(s \o t)[i] = (s \o t)[i + 1] /\ i + 1 \in 1 .. Len(s) + Len(t)
    BY <1>1, <1>2, ConcatProperties, HeadTailProperties
  <2>2. (s \o t)[i + 1] = IF i + 1 <= Len(s) THEN s[i + 1] ELSE t[i + 1 - Len(s)]
    BY <2>1, ConcatProperties
  <2>3. i \in 1 .. Len(Tail(s)) + Len(t) /\ Len(Tail(s)) = Len(s) - 1
    BY <1>1, <1>2, <1>3, ConcatProperties, HeadTailProperties
  <2>4. (Tail(s) \o t)[i] = IF i <= Len(Tail(s)) THEN Tail(s)[i] ELSE t[i - Len(Tail(s))]
    BY <1>2, <2>3, ConcatProperties
  <2>5. i <= Len(Tail(s)) => Tail(s)[i] = s[i + 1]
    BY <2>3, HeadTailProperties
  <2> QED  BY <1>1, <2>1, <2>2, <2>3, <2>4, <2>5
<1>5. Tail(s \o t) = Tail(s) \o t
  BY <1>2, <1>3, <1>4, SeqEqual
<1>6. Head(s \o t) = (s \o t)[1] /\ Head(s) = s[1] /\ (s \o t)[1] = s[1]
  BY <1>1, <1>2, ConcatProperties
<1> QED  BY <1>2, <1>5, <1>6

-----------------------------------------------------------------------------
(* Type correctness.                                                       *)

\* Every loop-local variable is in use only in its phase of loop(), whatever
\* the other threads do.
THEOREM TypeCorrect == Spec => []TypeOK
<1>1. Init => TypeOK
  BY EmptySeq DEF Init, TypeOK
<1>2. TypeOK /\ [Next]_vars => TypeOK'
  <2> SUFFICES ASSUME TypeOK, [Next]_vars PROVE TypeOK'
    OBVIOUS
  <2>1. ASSUME NEW c \in Callers, OtherThread(c) PROVE TypeOK'
    <3>1. CASE Wakeup(c)
      BY <3>1 DEF TypeOK, Wakeup
    <3>2. CASE Quit(c)
      BY <3>2 DEF TypeOK, Quit
    <3>3. CASE \E f \in Functors : QueueInLoop(c, f)
      BY <3>3 DEF TypeOK, QueueInLoop
    <3> QED  BY <2>1, <3>1, <3>2, <3>3 DEF OtherThread
  <2>2. CASE OwnCall
    <3>1. CASE OwnQuit
      BY <3>1 DEF TypeOK, OwnQuit
    <3>2. ASSUME NEW f \in Functors, OwnQueueInLoop(f) PROVE TypeOK'
      <4>1. wakeupFd' \in BOOLEAN
        BY <3>2 DEF OwnQueueInLoop
      <4>2. pending' \in Seq(Functors)
        BY <3>2 DEF TypeOK, OwnQueueInLoop
      <4> QED  BY <3>2, <4>1, <4>2 DEF TypeOK, OwnQueueInLoop
    <3>3. ASSUME NEW f \in Functors, OwnRunInLoop(f) PROVE TypeOK'
      BY <3>3 DEF TypeOK, OwnRunInLoop
    <3> QED  BY <2>2, <3>1, <3>2, <3>3 DEF OwnCall
  <2>3. CASE LoopStep
    <3>1. CASE RunFunctor
      <4>1. Head(batch) \in Functors /\ Tail(batch) \in Seq(Functors)
        BY <3>1, HeadTailProperties DEF TypeOK, RunFunctor
      <4> QED  BY <3>1, <4>1 DEF TypeOK, RunFunctor
    <3>2. CASE \E ch \in IoChannels : HandleIo(ch)
      BY <3>2 DEF TypeOK, HandleIo
    <3>3. CASE StartLoop \/ CheckQuit \/ HandleWakeup \/ TakePending \/ EndBatch
      BY <3>3 DEF TypeOK, StartLoop, CheckQuit, HandleWakeup, TakePending, EndBatch
    <3> QED  BY <2>3, <3>1, <3>2, <3>3 DEF LoopStep
  <2>4. CASE PollReturns
    BY <2>4 DEF TypeOK, PollReturns, Ready
  <2>5. CASE PollTimesOut
    BY <2>5 DEF TypeOK, PollTimesOut
  <2>6. CASE UNCHANGED vars
    BY <2>6 DEF TypeOK, vars
  <2> QED  BY <2>1, <2>2, <2>3, <2>4, <2>5, <2>6 DEF Next
<1> QED  BY <1>1, <1>2, PTL DEF Spec

-----------------------------------------------------------------------------
(* Wakeups.  A step can break NoLostWakeup by making a functor wait, by    *)
(* consuming a wakeup, or by entering one of the four phases; it can break *)
(* QuitIsNoticed by setting quit_, or by entering epoll_wait.              *)

\* A wakeup that is due stays due until the loop reads the eventfd.
LEMMA DueIsKept ==
  ASSUME TypeOK, [Next]_vars, WakeupDue
  PROVE  WakeupDue' \/ HandleWakeup
<1>1. ASSUME NEW c \in Callers, OtherThread(c) PROVE WakeupDue'
  BY <1>1 DEF WakeupDue, TypeOK, OtherThread, Wakeup, Quit, QueueInLoop
<1>2. CASE OwnCall
  BY <1>2 DEF WakeupDue, TypeOK, OwnCall, OwnQuit, OwnQueueInLoop, OwnRunInLoop
<1>3. CASE LoopStep
  BY <1>3 DEF WakeupDue, LoopStep, StartLoop, CheckQuit, HandleIo, TakePending,
              RunFunctor, EndBatch
<1>4. CASE PollReturns \/ PollTimesOut \/ UNCHANGED vars
  BY <1>4 DEF WakeupDue, PollReturns, PollTimesOut, vars
<1> QED  BY <1>1, <1>2, <1>3, <1>4 DEF Next

\* However the calls of the other threads and of the loop's own code
\* interleave with the loop, a functor queued for a loop that is about to
\* sleep has a wakeup on its way.
THEOREM NoWakeupIsLost == Spec => []NoLostWakeup
<1>1. Init => NoLostWakeup
  BY DEF Init, NoLostWakeup, Range
<1>2. TypeOK /\ NoLostWakeup /\ [Next]_vars => NoLostWakeup'
  <2> SUFFICES ASSUME TypeOK, NoLostWakeup, [Next]_vars PROVE NoLostWakeup'
    OBVIOUS
  <2> DEFINE Sleepy == at \in {"notStarted", "functors", "check", "poll"}
             Waiting == ~(Range(pending) \subseteq InitFunctors)
  <2>1. ASSUME NEW c \in Callers, OtherThread(c) PROVE NoLostWakeup'
    <3>1. CASE \E f \in Functors : QueueInLoop(c, f)
      BY <3>1 DEF TypeOK, QueueInLoop, NoLostWakeup, WakeupDue
    <3>2. CASE Wakeup(c) \/ Quit(c)
      BY <3>2 DEF TypeOK, Wakeup, Quit, NoLostWakeup, WakeupDue
    <3> QED  BY <2>1, <3>1, <3>2 DEF OtherThread
  <2>2. ASSUME NEW f \in Functors, OwnQueueInLoop(f) PROVE NoLostWakeup'
    <3>1. CASE at = "notStarted"
      <4>1. Range(pending') = Range(pending) \cup {f} /\ f \in InitFunctors
        BY <2>2, <3>1, RangeAppend DEF OwnQueueInLoop, TypeOK
      <4>2. WakeupDue => WakeupDue'
        BY <2>2 DEF OwnQueueInLoop, WakeupDue
      <4> QED  BY <2>2, <3>1, <4>1, <4>2 DEF OwnQueueInLoop, NoLostWakeup
    <3>2. CASE at = "functors"
      BY <2>2, <3>2 DEF OwnQueueInLoop, TypeOK, NoLostWakeup, WakeupDue
    <3>3. CASE at = "events"
      BY <2>2, <3>3 DEF OwnQueueInLoop, NoLostWakeup
    <3> QED  BY <2>2, <3>1, <3>2, <3>3 DEF OwnQueueInLoop, OwnCode, InHandler, InFunctor
  <2>3. CASE OwnQuit \/ \E f \in Functors : OwnRunInLoop(f)
    BY <2>3 DEF OwnQuit, OwnRunInLoop, NoLostWakeup, WakeupDue
  <2>4. CASE HandleWakeup
    BY <2>4 DEF HandleWakeup, NoLostWakeup
  <2>5. CASE TakePending
    BY <2>5 DEF TakePending, NoLostWakeup, Range
  <2>6. CASE StartLoop \/ CheckQuit \/ RunFunctor \/ EndBatch \/ \E ch \in IoChannels : HandleIo(ch)
    <3>1. Sleepy' => Sleepy /\ pending' = pending /\ UNCHANGED <<wakeupFd, caller>>
      BY <2>6 DEF StartLoop, CheckQuit, RunFunctor, EndBatch, HandleIo
    <3> QED  BY <3>1 DEF NoLostWakeup, WakeupDue
  <2>7. CASE PollReturns \/ PollTimesOut \/ UNCHANGED vars
    BY <2>7 DEF PollReturns, PollTimesOut, vars, NoLostWakeup, WakeupDue
  <2> QED  BY <2>1, <2>2, <2>3, <2>4, <2>5, <2>6, <2>7 DEF Next, OwnCall, LoopStep
<1> QED  BY <1>1, <1>2, TypeCorrect, PTL DEF Spec

\* A quit() that arrives while the loop is looping is seen before the loop
\* sleeps, or a wakeup is on its way.
THEOREM QuitIsAlwaysNoticed == Spec => []QuitIsNoticed
<1>1. Init => QuitIsNoticed
  BY DEF Init, QuitIsNoticed
<1>2. TypeOK /\ QuitIsNoticed /\ [Next]_vars => QuitIsNoticed'
  <2> SUFFICES ASSUME TypeOK, QuitIsNoticed, [Next]_vars,
                      (at = "poll" /\ quit)'
               PROVE  WakeupDue'
    BY DEF QuitIsNoticed
  <2>1. CASE at = "poll" /\ quit
    <3>1. WakeupDue /\ ~HandleWakeup
      BY <2>1 DEF QuitIsNoticed, HandleWakeup
    <3> QED  BY <3>1, DueIsKept
  <2>2. CASE \E c \in Callers : Quit(c)
    BY <2>2 DEF Quit, TypeOK, WakeupDue
  <2>3. CASE OwnQuit
    BY <2>3 DEF OwnQuit, OwnCode, InHandler, InFunctor
  <2>4. CASE LoopStep
    BY <2>4 DEF LoopStep, StartLoop, CheckQuit, HandleWakeup, HandleIo, TakePending,
                RunFunctor, EndBatch, QuitIsNoticed, WakeupDue
  <2>5. CASE \/ \E c \in Callers : Wakeup(c) \/ \E f \in Functors : QueueInLoop(c, f)
             \/ \E f \in Functors : OwnQueueInLoop(f) \/ OwnRunInLoop(f)
    <3>1. UNCHANGED <<at, quit>>
      BY <2>5 DEF Wakeup, QueueInLoop, OwnQueueInLoop, OwnRunInLoop
    <3> QED  BY <2>1, <3>1
  <2>6. CASE PollReturns \/ PollTimesOut
    BY <2>6 DEF PollReturns, PollTimesOut
  <2>7. CASE UNCHANGED vars
    BY <2>1, <2>7 DEF vars
  <2> QED  BY <2>2, <2>3, <2>4, <2>5, <2>6, <2>7 DEF Next, OtherThread, OwnCall
<1> QED  BY <1>1, <1>2, TypeCorrect, PTL DEF Spec

-----------------------------------------------------------------------------
(* Refinement: todo is the rest of the running batch, then the queue.      *)

\* Handing functors to the loop, from any thread and at any moment, runs each
\* of them exactly once, the queued ones in the order of queueing.
THEOREM RunsFunctorsOnceInOrder == Spec => RunsOnceInOrder
<1> DEFINE todo == batch \o pending
<1>1. Init => FQ!Init
  BY ConcatEmptySeq, EmptySeq DEF Init, FQ!Init
<1>2. TypeOK /\ [Next]_vars => [FQ!Next]_(FQ!vars)
  <2> SUFFICES ASSUME TypeOK, [Next]_vars
               PROVE  FQ!Next \/ UNCHANGED <<todo, ran>>
    BY DEF FQ!vars, todo
  <2> batch \in Seq(Functors) /\ pending \in Seq(Functors)
    BY DEF TypeOK
  <2> Range(todo) = Range(batch) \cup Range(pending)
    BY RangeConcat
  <2> \A s : FQ!Range(s) = Range(s)
    BY DEF FQ!Range, Range
  <2> HIDE DEF todo
  <2>1. ASSUME NEW f \in Functors, pending' = Append(pending, f), f \in Fresh,
               UNCHANGED <<batch, ran>>
        PROVE  FQ!Next
    <3>1. Append(todo, f) = todo \o <<f>> /\ Append(pending, f) = pending \o <<f>>
      BY ConcatProperties, AppendIsConcat DEF todo
    <3>2. (batch \o pending) \o <<f>> = batch \o (pending \o <<f>>)
      BY ConcatAssociative
    <3>3. todo' = Append(todo, f)
      BY <2>1, <3>1, <3>2 DEF todo
    <3>4. f \in FQ!Fresh
      BY <2>1 DEF Fresh, FQ!Fresh, todo
    <3> QED  BY <2>1, <3>3, <3>4 DEF FQ!Next, FQ!Queue, todo
  <2>2. ASSUME NEW f \in Functors, OwnRunInLoop(f) PROVE FQ!Next
    <3>1. f \in FQ!Fresh
      BY <2>2 DEF OwnRunInLoop, Fresh, FQ!Fresh, todo
    <3> QED  BY <2>2, <3>1 DEF OwnRunInLoop, FQ!Next, FQ!RunDirectly, todo
  <2>3. CASE RunFunctor
    <3>1. Head(todo) = Head(batch) /\ Tail(todo) = Tail(batch) \o pending /\ todo # <<>>
      BY <2>3, HeadTailOfConcat DEF RunFunctor, todo
    <3> QED  BY <2>3, <3>1 DEF RunFunctor, FQ!Next, FQ!RunOldest, todo
  <2>4. CASE TakePending
    <3>1. batch = <<>> /\ batch' = pending /\ pending' = <<>> /\ ran' = ran
      BY <2>4 DEF TakePending, TypeOK
    <3> QED  BY <3>1, ConcatEmptySeq DEF todo
  <2>5. CASE \/ \E c \in Callers : \E f \in Functors : QueueInLoop(c, f)
             \/ \E f \in Functors : OwnQueueInLoop(f)
    BY <2>1, <2>5 DEF QueueInLoop, OwnQueueInLoop
  <2>6. CASE \/ \E c \in Callers : Wakeup(c) \/ Quit(c)
             \/ OwnQuit \/ StartLoop \/ CheckQuit \/ HandleWakeup \/ EndBatch
             \/ \E ch \in IoChannels : HandleIo(ch)
             \/ PollReturns \/ PollTimesOut \/ UNCHANGED vars
    BY <2>6 DEF Wakeup, Quit, OwnQuit, StartLoop, CheckQuit, HandleWakeup, EndBatch,
                HandleIo, PollReturns, PollTimesOut, vars, todo
  <2> QED  BY <2>2, <2>3, <2>4, <2>5, <2>6 DEF Next, OtherThread, OwnCall, LoopStep
<1> QED  BY <1>1, <1>2, TypeCorrect, PTL DEF Spec, RunsOnceInOrder, FQ!Spec
=============================================================================
