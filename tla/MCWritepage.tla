---------------------------- MODULE MCWritepage ----------------------------
(* Instances of Writepage for TLC: the pages are interchangeable.          *)
EXTENDS Writepage, TLC

Symmetry == Permutations(Pages)

=============================================================================
