--------------------------- MODULE MCComposeLock ---------------------------
(* Small instance of ComposeLock for TLC.                                 *)
EXTENDS ComposeLock

CONSTANTS app, exiter, cli, alpha

AllThreads == {app, exiter, cli}
DesktopOnly == {app, exiter}
OneProject == {alpha}
=============================================================================
