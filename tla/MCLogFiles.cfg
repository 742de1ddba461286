SPECIFICATION FairSpec
CONSTANTS
  TicksPerDay = 1
  Delay = 1
  Lag = 1
  CompressAfter = 2
  DeleteAfter = 2
  LastTick = 4
  LastDay = 1
  MaxLines = 2
  MaxDeaths = 1
INVARIANTS NothingLost PublishedComplete ReaderMissesNothing
PROPERTIES ObjectsAreImmutable EveryDayPublished
CHECK_DEADLOCK FALSE
