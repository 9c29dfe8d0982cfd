------------------------------ MODULE MCCodec ------------------------------
(* The instance of Codec that TLC checks: bytes are bits, lengths have two  *)
(* of them, and a message of three bytes is too long.                       *)
EXTENDS Codec

SomeMessages == {<<>>, <<1>>, <<0, 1>>, <<1, 1, 0>>}
=============================================================================
