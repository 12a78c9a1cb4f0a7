---------------------------- MODULE MCHandleMgr ----------------------------
(***************************************************************************)
(* Instances of HandleMgr for TLC.  HANDLE_MASK is 3 (four slots): the     *)
(* index wraps around with the fourth context.                             *)
(***************************************************************************)
EXTENDS HandleMgr
=============================================================================
