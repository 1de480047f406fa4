------------------------------ MODULE MCAgent -------------------------------
(* Two devices and a few connections, for TLC: the devices and the         *)
(* connections are interchangeable.                                        *)
EXTENDS Agent, TLC

Symmetry == Permutations(Sides) \cup Permutations(Conns)
=============================================================================
