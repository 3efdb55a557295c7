---------------------------- MODULE HaulFleetMC ----------------------------
(* Constants for model-checking HaulFleet.                                 *)
EXTENDS HaulFleet, TLC

Symmetry == Permutations(Robots) \cup Permutations(Tracked)
=============================================================================
