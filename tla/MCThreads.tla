----------------------------- MODULE MCThreads -----------------------------
(***************************************************************************)
(* Instances of Threads for TLC.  The workers are interchangeable, which   *)
(* the safety runs use.                                                    *)
(***************************************************************************)
EXTENDS Threads, TLC

Workers == Permutations(Worker)
=============================================================================
