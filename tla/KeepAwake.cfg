\* Three workers, four holds: safety, and that an idle computer sleeps again.
SPECIFICATION AwakeFairSpec
CONSTANTS
  recording = recording  pass = pass  turn = turn
  Worker <- ThreeWorkers
  MaxHolds = 4
INVARIANTS AwakeTypeOK NeverLeaked
PROPERTIES DroppedOnlyIdle SleepsAgain
\* The machine may stay idle once no more work starts.
CHECK_DEADLOCK FALSE
