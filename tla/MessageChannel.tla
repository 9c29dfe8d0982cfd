--------------------------- MODULE MessageChannel ---------------------------
(***************************************************************************)
(* What LengthHeaderCodec promises its users, free of bytes and buffers:   *)
(* messages are delivered as they were sent, in the order in which they    *)
(* were sent, each once.  One that is too long is never delivered: it is   *)
(* refused, and nothing that was sent behind it is delivered.              *)
(***************************************************************************)
EXTENDS Naturals, Sequences

CONSTANTS Messages,
          TooLong      \* messages that the receiver refuses

VARIABLES sent,        \* messages given to send(), oldest first
          got,         \* messages delivered, oldest first
          refused      \* a message was refused

vars == <<sent, got, refused>>

\* The next message to be delivered, once there is one.
Waits == Len(got) < Len(sent)
Oldest == sent[Len(got) + 1]

Init == sent = <<>> /\ got = <<>> /\ refused = FALSE

Send(m) ==
  /\ sent' = Append(sent, m)
  /\ UNCHANGED <<got, refused>>

Deliver ==
  /\ Waits /\ Oldest \notin TooLong /\ ~refused
  /\ got' = Append(got, Oldest)
  /\ UNCHANGED <<sent, refused>>

Refuse ==
  /\ Waits /\ Oldest \in TooLong /\ ~refused
  /\ refused' = TRUE
  /\ UNCHANGED <<sent, got>>

Next == (\E m \in Messages : Send(m)) \/ Deliver \/ Refuse

Spec == Init /\ [][Next]_vars
=============================================================================
