---------------------------- MODULE EpollPoller ----------------------------
(***************************************************************************)
(* The Poller of one loop: the channels_ map, every Channel's events_ and  *)
(* index_, the kernel's interest list they are mirrored in, and the array  *)
(* events_ that epoll_wait fills.  Everything happens on the loop's thread.*)
(*                                                                         *)
(* How the callers use it is part of the model: EventLoop, Acceptor,       *)
(* Connector and TcpConnection make one channel per descriptor, and        *)
(* destroy it after having removed it, while no event is being handled.    *)
(***************************************************************************)
EXTENDS Naturals, FiniteSets, Channel

CONSTANTS Channels,     \* Channel objects
          Fds,          \* descriptors
          None,         \* no channel, or no descriptor
          Conditions,   \* what a descriptor can become ready for
          InitSize,     \* kInitEventListSize
          MaxSize       \* bound: events_ is not grown beyond it

ASSUME NoneAssumption == None \notin Channels \cup Fds
ASSUME ConditionsAssumption == Conditions \subseteq Reportable(Interest)
ASSUME SizeAssumption == InitSize \in Nat \ {0} /\ MaxSize \in Nat

VARIABLES fd,           \* fd_ of each channel that exists
          events,       \* events_ of each channel
          index,        \* index_ of each channel
          channels,     \* channels_: descriptor -> channel
          ptr,          \* kernel: data.ptr of the descriptor's entry, if any
          mask,         \* kernel: events of the descriptor's entry
          fatal,        \* update() has logged "epoll_ctl add/mod error"
          pending,      \* kernel: what each descriptor is ready for
          active,       \* activeChannels_ not yet handled
          size          \* events_.size()

channelVars == <<fd, events, index, channels>>
kernelVars  == <<ptr, mask, fatal>>
vars == <<channelVars, kernelVars, pending, active, size>>

Exists(c) == fd[c] # None

Init ==
  /\ fd = [c \in Channels |-> None]
  /\ events = [c \in Channels |-> {}]
  /\ index = [c \in Channels |-> kNew]
  /\ channels = [f \in Fds |-> None]
  /\ ptr = [f \in Fds |-> None]
  /\ mask = [f \in Fds |-> {}]
  /\ fatal = FALSE
  /\ pending = [f \in Fds |-> {}]
  /\ active = {}
  /\ size = InitSize
-----------------------------------------------------------------------------
(* update(): one epoll_ctl.  Adding a descriptor that has an entry, or     *)
(* changing one that has none, fails: that is logged as FATAL, and the     *)
(* program goes on with an index_ the kernel does not agree with.          *)

CtlAdd(c, evs) ==
  LET f == fd[c] IN
  IF ptr[f] = None
  THEN /\ ptr' = [ptr EXCEPT ![f] = c]
       /\ mask' = [mask EXCEPT ![f] = evs]
       /\ UNCHANGED fatal
  ELSE fatal' = TRUE /\ UNCHANGED <<ptr, mask>>

CtlMod(c, evs) ==
  LET f == fd[c] IN
  IF ptr[f] # None
  THEN /\ ptr' = [ptr EXCEPT ![f] = c]
       /\ mask' = [mask EXCEPT ![f] = evs]
       /\ UNCHANGED fatal
  ELSE fatal' = TRUE /\ UNCHANGED <<ptr, mask>>

CtlDel(c) ==
  /\ ptr' = [ptr EXCEPT ![fd[c]] = None]
  /\ mask' = [mask EXCEPT ![fd[c]] = {}]
  /\ UNCHANGED fatal
-----------------------------------------------------------------------------
\* Channel::Channel
NewChannel(c, f) ==
  /\ ~Exists(c)
  /\ \A d \in Channels : fd[d] # f
  /\ fd' = [fd EXCEPT ![c] = f]
  /\ UNCHANGED <<events, index, channels, kernelVars, pending, active, size>>

\* Mutant of UpdateChannel: a channel that was taken out of the interest list
\* is modified there instead of added again.
UpdateAddsOnce(c, evs) ==
  /\ Exists(c)
  /\ events' = [events EXCEPT ![c] = evs]
  /\ index' = [index EXCEPT ![c] = IndexAfterUpdate(index[c], evs)]
  /\ channels' = IF index[c] = kNew THEN [channels EXCEPT ![fd[c]] = c] ELSE channels
  /\ IF index[c] = kNew THEN CtlAdd(c, evs)
     ELSE IF evs = {} THEN CtlDel(c)
     ELSE CtlMod(c, evs)
  /\ UNCHANGED <<fd, pending, active, size>>

\* Channel::enableReading, enableWriting, disableWriting, disableAll ...:
\* change events_, then updateChannel().
UpdateChannel(c, evs) ==
  /\ Exists(c)
  /\ events' = [events EXCEPT ![c] = evs]
  /\ index' = [index EXCEPT ![c] = IndexAfterUpdate(index[c], evs)]
  /\ channels' = IF index[c] = kNew THEN [channels EXCEPT ![fd[c]] = c] ELSE channels
  /\ IF index[c] # kAdded THEN CtlAdd(c, evs)
     ELSE IF evs = {} THEN CtlDel(c)
     ELSE CtlMod(c, evs)
  /\ UNCHANGED <<fd, pending, active, size>>

\* Mutant of RemoveChannel: the kernel's entry stays.
RemoveKeepsEntry(c) ==
  /\ Exists(c)
  /\ channels' = [channels EXCEPT ![fd[c]] = None]
  /\ index' = [index EXCEPT ![c] = kNew]
  /\ UNCHANGED <<fd, events, kernelVars, pending, active, size>>

\* Channel::remove, removeChannel(): out of the map, and out of the interest
\* list if it is there.  The channel keeps its descriptor and its interest.
RemoveChannel(c) ==
  /\ Exists(c)
  /\ channels' = [channels EXCEPT ![fd[c]] = None]
  /\ IF index[c] = kAdded THEN CtlDel(c) ELSE UNCHANGED kernelVars
  /\ index' = [index EXCEPT ![c] = kNew]
  /\ UNCHANGED <<fd, events, pending, active, size>>

\* Mutant of DestroyChannel: its owner has not removed it.
DestroyRegistered(c) ==
  /\ Exists(c) /\ c \notin active
  /\ fd' = [fd EXCEPT ![c] = None]
  /\ events' = [events EXCEPT ![c] = {}]
  /\ UNCHANGED <<index, channels, kernelVars, pending, active, size>>

\* Channel::~Channel, and its descriptor is closed.
DestroyChannel(c) ==
  /\ Exists(c) /\ index[c] = kNew /\ c \notin active
  /\ fd' = [fd EXCEPT ![c] = None]
  /\ events' = [events EXCEPT ![c] = {}]
  /\ UNCHANGED <<index, channels, kernelVars, pending, active, size>>
-----------------------------------------------------------------------------
\* A descriptor becomes ready for something, or stops being so.
ReadyChanges(f, what) ==
  /\ pending[f] # what
  /\ pending' = [pending EXCEPT ![f] = what]
  /\ UNCHANGED <<channelVars, kernelVars, active, size>>

\* The descriptors epoll_wait has something to say about.
Reported == {f \in Fds : ptr[f] # None /\ pending[f] \cap Reportable(mask[f]) # {}}

\* Mutant of Poll: the array keeps its size.
PollNeverGrows ==
  /\ active = {} /\ Reported # {}
  /\ \E fs \in SUBSET Reported :
       /\ Cardinality(fs) = IF Cardinality(Reported) <= size THEN Cardinality(Reported) ELSE size
       /\ active' = {ptr[f] : f \in fs}
       /\ UNCHANGED <<channelVars, kernelVars, pending, size>>

\* poll() and fillActiveChannels(): epoll_wait fills the array as far as it
\* goes, with whichever descriptors it likes; a full array is doubled.
Poll ==
  /\ active = {} /\ Reported # {}
  /\ \E fs \in SUBSET Reported :
       /\ Cardinality(fs) = IF Cardinality(Reported) <= size THEN Cardinality(Reported) ELSE size
       /\ active' = {ptr[f] : f \in fs}
       /\ size' = IF Cardinality(fs) = size /\ size * 2 <= MaxSize THEN size * 2 ELSE size
       /\ UNCHANGED <<channelVars, kernelVars, pending>>

\* The loop is done with a channel's handleEvent(); what it called on this and
\* on other channels came before.
HandleEvent(c) ==
  /\ c \in active
  /\ active' = active \ {c}
  /\ UNCHANGED <<channelVars, kernelVars, pending, size>>
-----------------------------------------------------------------------------
Next ==
  \/ \E c \in Channels :
       \/ \E f \in Fds : NewChannel(c, f)
       \/ \E evs \in SUBSET Interest : UpdateChannel(c, evs)
       \/ RemoveChannel(c)
       \/ DestroyChannel(c)
       \/ HandleEvent(c)
  \/ \E f \in Fds : \E what \in SUBSET Conditions : ReadyChanges(f, what)
  \/ Poll

Spec == Init /\ [][Next]_vars

\* The loop keeps polling and handling what it polled.
Fairness == WF_vars(Poll) /\ WF_vars(\E c \in Channels : HandleEvent(c))

FairSpec == Spec /\ Fairness
-----------------------------------------------------------------------------
(* Properties.                                                             *)

\* Types; only a channel that exists has an interest or a registration.
TypeOK ==
  /\ fd \in [Channels -> Fds \cup {None}]
  /\ events \in [Channels -> SUBSET Interest]
  /\ index \in [Channels -> Indices]
  /\ channels \in [Fds -> Channels \cup {None}]
  /\ ptr \in [Fds -> Channels \cup {None}]
  /\ mask \in [Fds -> SUBSET Interest]
  /\ fatal \in BOOLEAN
  /\ pending \in [Fds -> SUBSET Conditions]
  /\ active \subseteq Channels
  /\ size \in Nat \ {0}
  /\ \A c \in Channels : ~Exists(c) => index[c] = kNew /\ events[c] = {}

\* One channel per descriptor.
FdsDistinct == \A c, d \in Channels : Exists(c) /\ fd[c] = fd[d] => c = d

\* channels_ holds exactly the channels that were registered and not removed,
\* each under its own descriptor: what hasChannel() answers.
MapAgrees ==
  \A f \in Fds, c \in Channels :
    channels[f] = c <=> fd[c] = f /\ index[c] # kNew

\* The kernel watches exactly the channels that index_ calls added, with the
\* interest the channel has, and reports them under the right pointer.
KernelAgrees ==
  \A f \in Fds, c \in Channels :
    /\ ptr[f] = c <=> fd[c] = f /\ index[c] = kAdded
    /\ ptr[f] = c => mask[f] = events[c]

\* After every sequence of updates, removals and reuses of descriptors, channels_, the
\* kernel's interest list and what the channels hold of themselves agree.
TablesAgree == MapAgrees /\ KernelAgrees

\* No sequence of legal calls makes epoll_ctl fail to add or modify: a channel
\* that is marked as added would then never be reported.
NeverFatal == ~fatal

\* No starvation: a channel that stays registered and ready is reported,
\* whichever channels the kernel prefers while the array is too short.
Waiting(c) == Exists(c) /\ fd[c] \in Reported /\ ptr[fd[c]] = c
EveryReadyIsReported ==
  \A c \in Channels : Waiting(c) ~> (c \in active \/ ~Waiting(c))
=============================================================================
