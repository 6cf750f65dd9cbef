SPECIFICATION Spec

CONSTANTS
  c1 = c1
  k1 = k1
  NoOne = NoOne
  Clients <- NoClients
  Children <- NoChildren
  Asks <- NoAsks
  Platforms <- TvOnly
  Faults <- NoFaults

PROPERTY LoaderContinues
