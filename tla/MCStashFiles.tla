---------------------------- MODULE MCStashFiles ----------------------------
(* An instance of StashFiles for TLC.                                      *)
EXTENDS StashFiles

=============================================================================
