SPECIFICATION FairIdentitySpec
CONSTANTS
  genuine = genuine
  borrowed = borrowed
  ranged = ranged
  library = library
  Keys = {genuine, borrowed, ranged, library}
  Method <- MCMethod
  Ranges <- MCRanges
  HasName = {genuine, borrowed}
  Confirms = {genuine}
  OwnSuffix = {genuine, borrowed}
  Undeclared = {library}
  Slots = 2
  Threads = 1
  SeenLimit = 2
  Ttl = 1
  MaxEntries = 2
  Quarter = 1
  MaxTasks = 4
  LastTick = 2
INVARIANTS VerifiedIsGenuine OneTaskPerSweep ReuseIsFresh
PROPERTIES EveryPairJudged
CHECK_DEADLOCK FALSE
