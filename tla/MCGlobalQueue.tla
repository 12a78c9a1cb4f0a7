--------------------------- MODULE MCGlobalQueue ---------------------------
(***************************************************************************)
(* Instances of GlobalQueue for TLC.                                       *)
(***************************************************************************)
EXTENDS GlobalQueue, TLC

Queues == Permutations(Queue)
=============================================================================
