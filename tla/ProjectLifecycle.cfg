\* Two projects, three commands and two launches; crashes, exits and failures anywhere.
SPECIFICATION FairSpec
CONSTANTS
  a = a  b = b
  None = None
  Projects <- TwoProjects
  Threads <- ThreeThreads
  MaxCommands = 3
  MaxLaunches = 2
INVARIANTS TypeOK SwitchHolds DebtOnDisk
PROPERTY WaitersGetThrough
\* The app may have ended for good.
CHECK_DEADLOCK FALSE
