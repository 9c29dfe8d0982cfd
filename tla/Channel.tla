------------------------------ MODULE Channel ------------------------------
(***************************************************************************)
(* What a Channel and its Poller agree on: the interest mask events_, the  *)
(* registration state index_, and which callbacks a reported event runs.   *)
(***************************************************************************)
EXTENDS Sequences

\* index_: never registered (or removed), in the kernel's interest list, and
\* taken out of that list but still in the poller's map.
kNew     == "kNew"
kAdded   == "kAdded"
kDeleted == "kDeleted"
Indices  == {kNew, kAdded, kDeleted}

\* events_ is a set of these; kNonEvent is {}.
Interest == {"in", "out"}

\* epoll reports "hup" and "err" whether they were asked for or not.
Reportable(mask) == mask \cup {"hup", "err"}

\* index_ after updateChannel(): an update of anything but an added channel
\* adds it, and an added one is deleted once it wants no event.
IndexAfterUpdate(i, mask) ==
  IF i = kAdded /\ mask = {} THEN kDeleted ELSE kAdded

\* handleEventWithGuard(): the callbacks run for the reported events, in
\* order, whatever the earlier ones did to the channel.
Callbacks(revents) ==
  LET Run(name, cond) == IF cond THEN <<name>> ELSE <<>>
  IN  Run("close", "hup" \in revents /\ "in" \notin revents)
      \o Run("error", "err" \in revents)
      \o Run("read",  "in"  \in revents)
      \o Run("write", "out" \in revents)
=============================================================================
