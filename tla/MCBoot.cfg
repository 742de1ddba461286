SPECIFICATION Spec
CONSTANTS
  a = a
  b = b
  env = env
  Procs <- MCProcs
  Configs <- MCConfigs
  Interfaces = {"lo", "eth", "::1"}
  Wildcards = {"0.0.0.0", "::"}
  IPv6 = {"::1", "::"}
  DefaultPorts <- MCDefaultPorts
  Junk = {"file"}
  Operators = {"google"}
  Sources <- MCSources
  NoOne = NoOne
  Other = Other
  MaxDeaths = 2
  MaxStops = 1
  MaxRefreshes = 1
INVARIANTS OneKey ListenersAreTheirRoles Reachable
PROPERTIES StartsAgain
