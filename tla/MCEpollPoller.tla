--------------------------- MODULE MCEpollPoller ---------------------------
(* The instances of EpollPoller that TLC checks.                           *)
EXTENDS EpollPoller

CONSTANTS ch1, ch2, fd1, fd2

TwoChannels == {ch1, ch2}
TwoFds == {fd1, fd2}
AnyCondition == {"in", "out", "hup"}
=============================================================================
