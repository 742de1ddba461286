SPECIFICATION Spec
CONSTANTS
  ip1 = ip1
  ip2 = ip2
  Clients <- MCClients
  Surfaces = {"sitemap", "security"}
  Places = {"restricted"}
  Unrouted <- MCUnrouted
  Probes <- MCProbes
  Personas <- MCPersonas
  Shapes <- MCShapes
  Key = key
  OtherKey = other
  Window = 1
  Limit = 1
  Hour = 2
  HoursMax = 1
  MaxTime = 2
  MaxRequests = 3
INVARIANTS InvitationsAreAllowed
SYMMETRY MCSymmetry
CHECK_DEADLOCK FALSE
