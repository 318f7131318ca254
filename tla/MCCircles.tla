------------------------------ MODULE MCCircles ------------------------------
(* Bounded instances of Circles for TLC.                                   *)
EXTENDS Circles, TLC
CircleSymmetry ==
  UNION {Permutations(S) : S \in {Person, Group, Title, Slot}}
=============================================================================
