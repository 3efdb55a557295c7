---------------------------- MODULE FleetStoreMC ----------------------------
(* Constants for model-checking FleetStore.                                *)
EXTENDS FleetStore, TLC

Symmetry == Permutations(Tracked)
=============================================================================
