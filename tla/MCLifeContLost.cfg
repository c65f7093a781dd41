CONSTANTS
  Threads <- OneThread
  Senders <- OneSender
SPECIFICATION Spec
INVARIANT StoppedOnlyWhileStopping
CHECK_DEADLOCK FALSE
