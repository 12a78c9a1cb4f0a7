---------------------------- MODULE MCTimerWheel ----------------------------
(***************************************************************************)
(* Instances of TimerWheel for TLC.  With one bit for each digit the clock *)
(* has five bits and wraps after 32 ticks; every positive timeout of that  *)
(* width is asked for.                                                     *)
(***************************************************************************)
EXTENDS TimerWheel, TLC

Timeouts == 1 .. 15
=============================================================================
