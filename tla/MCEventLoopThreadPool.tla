----------------------- MODULE MCEventLoopThreadPool -----------------------
(* The instances of EventLoopThreadPool that TLC checks.                   *)
EXTENDS EventLoopThreadPool
=============================================================================
