SPECIFICATION FairSpec
CONSTANTS
  c1 = c1
  c2 = c2
  c3 = c3
  Connections = {c1, c2, c3}
  MaxConnections = 2
INVARIANTS SlotsExact RecordTellsFate
PROPERTIES EveryConnectionRecorded
CHECK_DEADLOCK FALSE
