SPECIFICATION FairRelaySpec
CONSTANTS
  Cap = 0
  SocketCap = 0
  MaxRequests = 5
INVARIANTS RelayedInOrder
PROPERTIES GoneEndsSession EveryRequestAnswered
CHECK_DEADLOCK FALSE
