-------------------------- MODULE MCTcpConnection --------------------------
(* The instances of TcpConnection that TLC checks.                         *)
EXTENDS TcpConnection

CONSTANTS u1

OneUser == {u1}
AnyOp == {"send", "shutdown", "forceClose"}

\* Calls made in callbacks, and by the other thread.
Budget(own, others) == [c \in Callers |-> IF c = Loop THEN own ELSE others]
OwnOne_OthersTwo == Budget(1, 2)
OwnOne_OthersOne == Budget(1, 1)
=============================================================================
