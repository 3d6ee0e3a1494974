---------------------------- MODULE MCTimerQueue ----------------------------
(***************************************************************************)
(* A finite instance of TimerQueue.  Two timers, each repeated or not, due *)
(* at once or later, so that the second may be earlier than the first, be  *)
(* due in the same round, or be added or cancelled while the first runs.   *)
(***************************************************************************)
EXTENDS TimerQueue

CONSTANTS k1, k2

MCTimer == {k1, k2}
MCDelay == {0, 2}
MCInterval == {0, 1}
=============================================================================
