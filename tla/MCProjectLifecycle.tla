------------------------- MODULE MCProjectLifecycle -------------------------
(* Small instance of ProjectLifecycle for TLC.                             *)
EXTENDS ProjectLifecycle

CONSTANTS a, b

TwoProjects == {a, b}
ThreeThreads == 1..3
=============================================================================
