-------------------------- MODULE MCControlChannel --------------------------
(* Small instance of ControlChannel for TLC.                              *)
EXTENDS ControlChannel

CONSTANTS r1, r2, r3

ThreeRequests == {r1, r2, r3}
=============================================================================
