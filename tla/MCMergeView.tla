---------------------------- MODULE MCMergeView ----------------------------
(* This device and two peers, two names, for TLC.                          *)
EXTENDS MergeView

MCNames == <<"a", "b">>
=============================================================================
