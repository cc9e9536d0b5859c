\* Two messages, two questions, failed writes, errors and a process that may die.
SPECIFICATION FairSpec
CONSTANTS
  a = a  b = b
  None = None
  Message <- TwoMessages
  MaxAsks = 2
  Failing = TRUE
  Errors = TRUE
INVARIANTS TypeOK QuestionAnswerable StoppedLetsSleep OnePlace
PROPERTIES StreamingEnds QueuedRuns
\* The user may stop using the chat.
CHECK_DEADLOCK FALSE
