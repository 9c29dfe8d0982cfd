--------------------------- MODULE ConnectionLife ---------------------------
(***************************************************************************)
(* What a server promises about the life of its connections: each is       *)
(* accepted, comes up, goes down and is released, in this order and once.  *)
(* Only a server that is closing may release connections before.           *)
(***************************************************************************)
CONSTANT Connections

VARIABLES life, closing

vars == <<life, closing>>

Init ==
  /\ life = [c \in Connections |-> "none"]
  /\ closing = FALSE

Become(c, l) == life' = [life EXCEPT ![c] = l] /\ UNCHANGED closing

\* A connection may come up as soon as it is accepted.
Accept(c) == life[c] = "none" /\ ~closing /\ (Become(c, "accepted") \/ Become(c, "up"))
ComeUp(c) == life[c] = "accepted" /\ Become(c, "up")
GoDown(c) == life[c] = "up" /\ Become(c, "down")
Release(c) == life[c] = "down" /\ Become(c, "released")

Close == ~closing /\ closing' = TRUE /\ UNCHANGED life

ReleaseEarly(C) ==
  /\ closing
  /\ \A c \in C : life[c] # "none"
  /\ life' = [c \in Connections |-> IF c \in C THEN "released" ELSE life[c]]
  /\ UNCHANGED closing

Next ==
  \/ \E c \in Connections : Accept(c) \/ ComeUp(c) \/ GoDown(c) \/ Release(c)
  \/ Close
  \/ \E C \in SUBSET Connections : ReleaseEarly(C)

Spec == Init /\ [][Next]_vars
=============================================================================
