---------------------------- MODULE MCKeepAwake ----------------------------
(* Small instances of KeepAwake for TLC.                                   *)
EXTENDS KeepAwake

CONSTANTS recording, pass, turn

ThreeWorkers == {recording, pass, turn}
=============================================================================
