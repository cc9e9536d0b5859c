\* A Desktop thread, the exit cleanup and a CLI over one project, two transactions each.
SPECIFICATION FairSpec
CONSTANTS
  app = app  exiter = exiter  cli = cli  alpha = alpha
  Desktop = Desktop  None = None  Earlier = Earlier
  Thread <- AllThreads
  DesktopThread <- DesktopOnly
  Exiter = exiter
  Project <- OneProject
  MaxOps = 2
INVARIANTS TypeOK TransactionsExclude DownedStaysDown SettledIsMigrated
PROPERTIES TransactionsEnd
\* Every thread may have run its transactions.
CHECK_DEADLOCK FALSE
