-------------------------- MODULE MCBundleReconcile --------------------------
(* Small instance of BundleReconcile for TLC.                              *)
EXTENDS BundleReconcile

CONSTANTS a, b, w1

TwoProjects == {a, b}
FickleB == {b}
OneWorker == {w1}
=============================================================================
