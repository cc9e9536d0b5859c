\* Two commands over two tabs, a saved conversation and a cap of one tab: every command ends.
SPECIFICATION FairSpec
CONSTANTS
  a = a  b = b  p = p  q = q  s1 = s1  s2 = s2  s3 = s3  r1 = r1  r2 = r2  r3 = r3
  None = None
  Tab <- MCTab
  Project <- MCProject
  Transcript <- TwoTranscripts
  Saved <- OneSaved
  Request <- TwoRequests
  MaxTabs = 1
INVARIANTS KeptMeansKept
PROPERTIES EveryRequestEnds OrphanStopped
\* When every request of the bounded set has ended, the app waits for more.
CHECK_DEADLOCK FALSE
