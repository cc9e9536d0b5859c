\* An update that is installed while a project waits for its volume.
SPECIFICATION FairSpec
CONSTANTS
  a = a  b = b  w1 = w1
  Projects <- TwoProjects
  Fickle <- FickleB
  Workers <- OneWorker
  Updater = updater
PROPERTY DeferredStaysPending
CHECK_DEADLOCK FALSE
