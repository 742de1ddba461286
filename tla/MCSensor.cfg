SPECIFICATION Spec
CONSTANTS
  crawler = crawler
  other = other
  Clients = {crawler, other}
  Crawlers = {crawler}
  Standards = {"robots", "meta_noai"}
  Kind <- MCKind
  Robots = {"robots"}
  Policies = {"robots"}
  Pages = {"restricted"}
  Planted <- MCPlanted
  Forbidden <- MCForbidden
  MaxRequests = 3
INVARIANTS TrapsAreMined LossOnlyHides VerdictsAreEarned
CHECK_DEADLOCK FALSE
