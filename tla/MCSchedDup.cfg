CONSTANTS
  Threads <- MCThreads
  Idle = "idle"
  Procs <- MCProcs
  ProcOf <- MCProcOf
  ScanOrder <- MCScanOrder
  NoThread = NoThread
SPECIFICATION Spec
CONSTRAINT QueueBound
INVARIANT NoDuplicateInQueue
