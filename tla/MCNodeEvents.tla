---------------------------- MODULE MCNodeEvents ----------------------------
(* Two reporting threads and the kworker, for TLC.                         *)
EXTENDS NodeEvents

=============================================================================
