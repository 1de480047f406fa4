------------------------------ MODULE MCMsgIdr ------------------------------
(* A request of each kind, or several of one kind, for TLC.                *)
EXTENDS MsgIdr

=============================================================================
