SPECIFICATION FairSpec
CONSTANTS
  Streams <- MCStreams
  HeadLimit = 4
  LineLimit = 2
INVARIANTS Lossless EveryHeadStamped BufferBounded
PROPERTIES FeedReturns
CHECK_DEADLOCK FALSE
