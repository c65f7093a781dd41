CONSTANTS
  Threads <- MCThreads
  Locks <- MCLocks
  NoThread = NoThread
  MaxDepth = 2
SPECIFICATION Spec
INVARIANT TypeOK
INVARIANT MutualExclusion
INVARIANT CounterMatchesOwner
INVARIANT CriticalHolderNotPreempted
PROPERTY ImplementsRecursiveLock
INVARIANT CritInv
