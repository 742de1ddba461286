CONSTANTS
  NoHost = "nohost"
  PairsMax = 1
  PayloadAttacks = {"rce"}
  Key = "ours"
  Rounds = 2
  PrivateHeaders = {"authorization"}
  Requests <- MCRequests
  NoProbe = NoProbe
  UrlsMax = 2
  BlobsMax = 1
  OwnHost = "own"
  Days = 3
  MaxRequests = 2
  MaxVerdicts = 1
SPECIFICATION Spec
INVARIANTS StagesAreEarned JoinsAreEarned TokensStayAtHome VisitorsAreHidden
CHECK_DEADLOCK FALSE
