\* Two saved conversations, two tabs: what ADR-090 promises of them.
SPECIFICATION Spec
CONSTANTS
  a = a  b = b  p = p  q = q  s1 = s1  s2 = s2  s3 = s3  r1 = r1  r2 = r2  r3 = r3
  None = None
  Tab <- MCTab
  Project <- OneProject
  Transcript <- MCSaved
  Saved <- MCSaved
  Request <- MCRequest
  MaxTabs = 2
SYMMETRY Symmetry
INVARIANTS OneTabPerTranscript
\* When every request of the bounded set has ended, the app waits for more.
CHECK_DEADLOCK FALSE
