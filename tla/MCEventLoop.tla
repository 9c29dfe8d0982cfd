---------------------------- MODULE MCEventLoop ----------------------------
(* The instances of EventLoop that TLC checks.                             *)
EXTENDS EventLoop

CONSTANTS c1, c2, f1, f2, f3, socket

OneCaller == {c1}
TwoCallers == {c1, c2}
ThreeFunctors == {f1, f2, f3}
FirstFunctor == {f1}
OneSocket == {socket}
=============================================================================
