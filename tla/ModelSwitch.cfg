\* Three messages or picks over two sessions of a tab.
SPECIFICATION Spec
CONSTANTS
  c1 = c1  c2 = c2  c3 = c3
  Commands <- ThreeCommands
  MaxSessions = 2
SYMMETRY Symmetry
INVARIANTS TypeOK ModelAsChosen
\* The user may leave the tab alone.
CHECK_DEADLOCK FALSE
