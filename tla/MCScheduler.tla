---------------------------- MODULE MCScheduler ----------------------------
(***************************************************************************)
(* Instances of Scheduler for TLC: two workers and one sending thread.     *)
(* The workers have different weights, or the same one and then may be     *)
(* exchanged.                                                              *)
(***************************************************************************)
EXTENDS Scheduler, TLC

CONSTANTS w1, w2

MCWeight   == w1 :> -1 @@ w2 :> 0
SameWeight == w1 :> 0 @@ w2 :> 0

Workers == Permutations(Worker)
=============================================================================
