CONSTANTS
  Threads <- MCThreads
  Idle = "idle"
  Procs <- MCProcs
  ProcOf <- MCProcOf
  ScanOrder <- MCScanOrder
  NoThread = NoThread
SPECIFICATION FairSpec
CONSTRAINT QueueBound
INVARIANT NoLostThread
INVARIANT ContextValid
PROPERTY WokenThreadRuns
PROPERTY QueuedThreadRuns
