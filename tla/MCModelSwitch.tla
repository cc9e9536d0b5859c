---------------------------- MODULE MCModelSwitch ----------------------------
(* Small instance of ModelSwitch for TLC.                                  *)
EXTENDS ModelSwitch, TLC

CONSTANTS c1, c2, c3

ThreeCommands == {c1, c2, c3}
Symmetry == Permutations(ThreeCommands)
=============================================================================
