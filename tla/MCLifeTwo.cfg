CONSTANTS
  Threads <- TwoThreads
  Senders <- TwoSenders
SPECIFICATION FairSpec
INVARIANT StoppedMeansAllStopped
INVARIANT ExitedIsZombieOrDeleted
INVARIANT DeletedAfterBoth
PROPERTY EventuallyDeleted
CHECK_DEADLOCK FALSE
