\* Two Desktop threads with two calls each, the exit cleanup and two CLI processes.
SPECIFICATION FairSpec
CONSTANTS
  ui = ui  watcher = watcher  exiter = exiter  c1 = c1  c2 = c2
  None = None
  Thread <- TwoThreads
  Exiter = exiter
  Cli <- TwoClis
  MaxCalls = 2
  Failing = TRUE
INVARIANTS TypeOK StaysDown
PROPERTIES SessionSpared ExitEnds
\* The app may have ended and no CLI process run.
CHECK_DEADLOCK FALSE
