\* Two projects, one reconcile thread, and the install of an update, each any number of times.
SPECIFICATION FairSpec
CONSTANTS
  a = a  b = b  w1 = w1
  Projects <- TwoProjects
  Fickle <- FickleB
  Workers <- OneWorker
  Updater = updater
INVARIANT TypeOK
PROPERTIES RestartsOwed WaitersAnswered
\* The app may have ended for good.
CHECK_DEADLOCK FALSE
