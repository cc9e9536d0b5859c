\* Three callers: safety, refinement, and that they end.
SPECIFICATION FairSpec
CONSTANTS
  r1 = r1  r2 = r2  r3 = r3
  None = None
  Request <- ThreeRequests
INVARIANTS TypeOK NoStaleWaiter AnswerIsOwn
PROPERTIES Implements EveryRequestEnds CloseReleasesAll
\* The session may stay idle once every caller has its answer.
CHECK_DEADLOCK FALSE
