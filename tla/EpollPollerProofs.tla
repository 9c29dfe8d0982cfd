-------------------------- MODULE EpollPollerProofs --------------------------
(***************************************************************************)
(* Proofs about EpollPoller for any channels, descriptors and array sizes. *)
(* The four facts below support one another: an epoll_ctl cannot fail      *)
(* because index_ tells what the kernel has, which stays true because no   *)
(* epoll_ctl fails and no two channels share a descriptor.                 *)
(***************************************************************************)
EXTENDS EpollPoller, TLAPS

Inv == TypeOK /\ FdsDistinct /\ MapAgrees /\ KernelAgrees /\ NeverFatal

LEMMA InitInv == Init => Inv
<1> SUFFICES ASSUME Init PROVE Inv
  OBVIOUS
<1> USE NoneAssumption DEF Init, Exists
<1>1. TypeOK
  BY SizeAssumption DEF TypeOK, Indices
<1>2. FdsDistinct /\ NeverFatal
  BY DEF FdsDistinct, NeverFatal
<1>3. MapAgrees /\ KernelAgrees
  BY DEF MapAgrees, KernelAgrees
<1> QED  BY <1>1, <1>2, <1>3 DEF Inv

\* Every registration change (a new channel, an update, a removal, a
\* destruction) keeps map, index_ and kernel in step.
LEMMA NewChannelInv ==
  ASSUME Inv, NEW c \in Channels, NEW f \in Fds, NewChannel(c, f)
  PROVE  Inv'
<1> USE NoneAssumption DEF Inv, NewChannel, channelVars, kernelVars, Exists
<1>1. TypeOK'
  BY DEF TypeOK
<1>2. FdsDistinct'
  BY DEF TypeOK, FdsDistinct
<1>3. index[c] = kNew /\ kNew # kAdded
  BY DEF TypeOK, kNew, kAdded
<1>4. MapAgrees'
  BY <1>3 DEF TypeOK, MapAgrees
<1>5. KernelAgrees'
  BY <1>3 DEF TypeOK, KernelAgrees
<1> QED  BY <1>1, <1>2, <1>4, <1>5 DEF NeverFatal

LEMMA UpdateChannelInv ==
  ASSUME Inv, NEW c \in Channels, NEW evs \in SUBSET Interest, UpdateChannel(c, evs)
  PROVE  Inv'
<1> DEFINE f == fd[c]
<1> USE NoneAssumption DEF Inv, Exists
<1>1. f \in Fds /\ index[c] \in Indices
  BY DEF UpdateChannel, TypeOK
<1>2. index'[c] \in {kAdded, kDeleted} /\ index'[c] # kNew
      /\ (index'[c] = kAdded <=> ~(index[c] = kAdded /\ evs = {}))
  BY <1>1 DEF UpdateChannel, TypeOK, IndexAfterUpdate, kNew, kAdded, kDeleted
<1>3. \A d \in Channels : fd[d] = f => d = c
  BY <1>1 DEF FdsDistinct, TypeOK
<1>4. ptr[f] = IF index[c] = kAdded THEN c ELSE None
  BY <1>1, <1>3 DEF KernelAgrees, TypeOK
<1>5. /\ ptr' = [ptr EXCEPT ![f] = IF index'[c] = kAdded THEN c ELSE None]
      /\ mask' = [mask EXCEPT ![f] = evs]
      /\ fatal' = fatal
  BY <1>1, <1>2, <1>4 DEF UpdateChannel, CtlAdd, CtlMod, CtlDel, TypeOK
<1>6. channels' = [channels EXCEPT ![f] = c]
  <2>1. CASE index[c] = kNew
    BY <2>1 DEF UpdateChannel
  <2>2. CASE index[c] # kNew
    <3>1. channels[f] = c
      BY <1>1, <2>2 DEF MapAgrees, TypeOK
    <3> QED  BY <1>1, <2>2, <3>1 DEF UpdateChannel, TypeOK
  <2> QED  BY <2>1, <2>2
<1>7. TypeOK'
  <2>1. index' \in [Channels -> Indices]
    BY <1>2 DEF UpdateChannel, TypeOK, Indices
  <2>2. \A d \in Channels : fd'[d] = None => index'[d] = kNew /\ events'[d] = {}
    BY <1>1 DEF UpdateChannel, TypeOK
  <2>3. /\ fd' \in [Channels -> Fds \cup {None}] /\ events' \in [Channels -> SUBSET Interest]
        /\ channels' \in [Fds -> Channels \cup {None}]
    BY <1>1, <1>6 DEF UpdateChannel, TypeOK
  <2>4. ptr' \in [Fds -> Channels \cup {None}] /\ mask' \in [Fds -> SUBSET Interest]
    BY <1>1, <1>5 DEF TypeOK
  <2> QED  BY <1>5, <2>1, <2>2, <2>3, <2>4 DEF UpdateChannel, TypeOK
<1>8. FdsDistinct'
  BY DEF UpdateChannel, FdsDistinct
<1>9. MapAgrees'
  <2> SUFFICES ASSUME NEW g \in Fds, NEW d \in Channels
               PROVE  channels'[g] = d <=> fd[d] = g /\ index'[d] # kNew
    BY DEF MapAgrees, UpdateChannel
  <2>1. CASE g = f
    BY <1>1, <1>2, <1>3, <1>6, <2>1 DEF TypeOK
  <2>2. CASE g # f
    BY <1>6, <2>2 DEF TypeOK, MapAgrees, UpdateChannel
  <2> QED  BY <2>1, <2>2
<1>10. KernelAgrees'
  <2> SUFFICES ASSUME NEW g \in Fds, NEW d \in Channels
               PROVE  /\ ptr'[g] = d <=> fd[d] = g /\ index'[d] = kAdded
                      /\ ptr'[g] = d => mask'[g] = events'[d]
    BY DEF KernelAgrees, UpdateChannel
  <2>1. CASE g = f
    BY <1>1, <1>2, <1>3, <1>5, <2>1 DEF TypeOK, UpdateChannel
  <2>2. CASE g # f
    BY <1>5, <2>2 DEF TypeOK, KernelAgrees, UpdateChannel
  <2> QED  BY <2>1, <2>2
<1> QED  BY <1>5, <1>7, <1>8, <1>9, <1>10 DEF NeverFatal

LEMMA RemoveChannelInv ==
  ASSUME Inv, NEW c \in Channels, RemoveChannel(c)
  PROVE  Inv'
<1> DEFINE f == fd[c]
<1> USE NoneAssumption DEF Inv, Exists
<1>1. f \in Fds /\ kNew # kAdded /\ kNew \in Indices
  BY DEF RemoveChannel, TypeOK, kNew, kAdded, Indices
<1>2. \A d \in Channels : fd[d] = f => d = c
  BY <1>1 DEF FdsDistinct, TypeOK
<1>3. /\ ptr' = [ptr EXCEPT ![f] = None]
      /\ mask' = mask \/ mask' = [mask EXCEPT ![f] = {}]
      /\ fatal' = fatal
  <2>1. CASE index[c] = kAdded
    BY <2>1 DEF RemoveChannel, CtlDel
  <2>2. CASE index[c] # kAdded
    <3>1. ptr[f] = None
      BY <1>1, <1>2, <2>2 DEF KernelAgrees, TypeOK
    <3> QED  BY <1>1, <2>2, <3>1 DEF RemoveChannel, kernelVars, TypeOK
  <2> QED  BY <2>1, <2>2
<1>4. TypeOK'
  <2>1. fd' \in [Channels -> Fds \cup {None}] /\ events' \in [Channels -> SUBSET Interest]
    BY DEF RemoveChannel, TypeOK
  <2>2. index' \in [Channels -> Indices] /\ channels' \in [Fds -> Channels \cup {None}]
    BY <1>1 DEF RemoveChannel, TypeOK
  <2>3. ptr' \in [Fds -> Channels \cup {None}] /\ mask' \in [Fds -> SUBSET Interest]
    BY <1>1, <1>3 DEF TypeOK
  <2>4. \A d \in Channels : fd'[d] = None => index'[d] = kNew /\ events'[d] = {}
    BY DEF RemoveChannel, TypeOK
  <2> QED  BY <1>3, <2>1, <2>2, <2>3, <2>4 DEF RemoveChannel, TypeOK
<1>5. FdsDistinct'
  BY <1>1 DEF RemoveChannel, FdsDistinct, TypeOK
<1>6. MapAgrees'
  BY <1>1, <1>2 DEF RemoveChannel, MapAgrees, TypeOK
<1>7. KernelAgrees'
  <2> SUFFICES ASSUME NEW g \in Fds, NEW d \in Channels
               PROVE  /\ ptr'[g] = d <=> fd'[d] = g /\ index'[d] = kAdded
                      /\ ptr'[g] = d => mask'[g] = events'[d]
    BY DEF KernelAgrees
  <2>1. CASE g = f
    BY <1>1, <1>2, <1>3, <2>1 DEF TypeOK, RemoveChannel
  <2>2. CASE g # f
    BY <1>1, <1>3, <2>2 DEF TypeOK, KernelAgrees, RemoveChannel
  <2> QED  BY <2>1, <2>2
<1> QED  BY <1>3, <1>4, <1>5, <1>6, <1>7 DEF NeverFatal

LEMMA DestroyChannelInv ==
  ASSUME Inv, NEW c \in Channels, DestroyChannel(c)
  PROVE  Inv'
<1> USE NoneAssumption DEF Inv, DestroyChannel, channelVars, kernelVars, Exists
<1>1. kNew # kAdded
  BY DEF kNew, kAdded
<1>2. TypeOK' /\ FdsDistinct'
  BY DEF TypeOK, FdsDistinct
<1>3. MapAgrees' /\ KernelAgrees'
  BY <1>1 DEF TypeOK, MapAgrees, KernelAgrees
<1> QED  BY <1>2, <1>3 DEF NeverFatal

\* Polling and handling leave the registration alone.
LEMMA PollingInv ==
  ASSUME Inv,
         \/ Poll \/ UNCHANGED vars
         \/ \E c \in Channels : HandleEvent(c)
         \/ \E f \in Fds : \E what \in SUBSET Conditions : ReadyChanges(f, what)
  PROVE  Inv'
<1>1. UNCHANGED <<channelVars, kernelVars>>
  BY DEF Poll, HandleEvent, ReadyChanges, vars
<1>2. TypeOK'
  <2>1. CASE Poll
    <3>1. active' \subseteq Channels
      <4>1. PICK fs \in SUBSET Reported : active' = {ptr[f] : f \in fs}
        BY <2>1 DEF Poll
      <4> QED  BY <4>1 DEF Reported, Inv, TypeOK
    <3>2. size' \in Nat \ {0}
      BY <2>1 DEF Poll, Inv, TypeOK
    <3> QED  BY <1>1, <2>1, <3>1, <3>2 DEF Poll, Inv, TypeOK, channelVars, kernelVars, Exists
  <2>2. CASE UNCHANGED vars \/ \E c \in Channels : HandleEvent(c)
    BY <1>1, <2>2 DEF vars, HandleEvent, Inv, TypeOK, channelVars, kernelVars, Exists
  <2>3. CASE \E f \in Fds : \E what \in SUBSET Conditions : ReadyChanges(f, what)
    BY <1>1, <2>3 DEF ReadyChanges, Inv, TypeOK, channelVars, kernelVars, Exists
  <2> QED  BY <2>1, <2>2, <2>3
<1> QED
  BY <1>1, <1>2 DEF Inv, FdsDistinct, MapAgrees, KernelAgrees, NeverFatal, Exists,
                    channelVars, kernelVars

LEMMA Inductive == Spec => []Inv
<1>1. Inv /\ [Next]_vars => Inv'
  BY NewChannelInv, UpdateChannelInv, RemoveChannelInv,
     DestroyChannelInv, PollingInv DEF Next
<1> QED  BY <1>1, InitInv, PTL DEF Spec

-----------------------------------------------------------------------------
\* Types, and channels that do not exist are not registered.
THEOREM TypeCorrect == Spec => []TypeOK
BY Inductive, PTL DEF Inv

\* channels_ (hasChannel) and the kernel's interest list agree with index_ and events_
\* after every sequence of calls.
THEOREM TablesAlwaysAgree == Spec => []TablesAgree
<1>1. Inv => TablesAgree
  BY DEF Inv, TablesAgree
<1> QED  BY <1>1, Inductive, PTL

\* epoll_ctl never fails to add or to modify.
THEOREM CtlNeverFails == Spec => []NeverFatal
BY Inductive, PTL DEF Inv
=============================================================================
