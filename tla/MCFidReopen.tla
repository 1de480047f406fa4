---------------------------- MODULE MCFidReopen ----------------------------
(* Instances of FidReopen for TLC.                                         *)
EXTENDS FidReopen

=============================================================================
