SPECIFICATION FairSpec
CONSTANTS
  QueueSize = 2
  LastDay = 2
  MaxEvents = 4
  MaxCrashes = 1
INVARIANTS Accounted FilesInOrder StopFlushes
PROPERTIES StopTerminates EveryEventSettles KeepsPromise
CHECK_DEADLOCK FALSE
