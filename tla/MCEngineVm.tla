----------------------------- MODULE MCEngineVm -----------------------------
(* Small instance of EngineVm for TLC.                                     *)
EXTENDS EngineVm

CONSTANTS ui, watcher, exiter, c1, c2

TwoThreads == {ui, watcher}
TwoClis == {c1, c2}
=============================================================================
