--------------------------- MODULE MCSocketServer ---------------------------
(***************************************************************************)
(* Instances of SocketServer for TLC: five ways of using it, each with two *)
(* slots, so that an id comes back to a slot still in use.                 *)
(***************************************************************************)
EXTENDS SocketServer

\* Connections; two priorities; a listener; bound descriptors; UDP and exit.
Uses == {[api |-> {"O", "D", "K"}, calls |-> 5, ids |-> 3],
         [api |-> {"O", "P", "D", "K"}, calls |-> 4, ids |-> 1],
         [api |-> {"L", "S", "D", "K"}, calls |-> 4, ids |-> 4],
         [api |-> {"O", "B", "D", "S", "T", "K"}, calls |-> 3, ids |-> 4],
         [api |-> {"U", "D", "A", "C", "K", "X"}, calls |-> 4, ids |-> 1]}
=============================================================================
