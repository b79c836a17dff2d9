CONSTANTS
  Thread = {1, 2, 3}
  MaxMutexes = 2
  MaxThreads = 2
  MaxDepth = 2
CONSTANTS
  MaxSemaphores = 2
  MaxCount = 2
  Id = {1, 2}
  Priority = {1, 2}
  Policy = {"FIFO", "CFS", "RT"}
  MaxRunqueues = 2
  MaxSchedulable = 2
  MaxRuntime = 1
  Process = {1, 2, 3}
  LockId = {1, 2}
  MaxDeps = 3
  MaxCycles = 2
SPECIFICATION System
INVARIANTS
  TypesOK MutualExclusion DetectionExact TablesTruthful ClientsExcluded
  QueuesSound
PROPERTIES
  NoDirectHandover
CHECK_DEADLOCK FALSE
