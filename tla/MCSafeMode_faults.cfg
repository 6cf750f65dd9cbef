SPECIFICATION FairSpec

CONSTANTS
  p1 = p1
  p2 = p2
  NoFlags = NoFlags
  Procs <- MCProcs
  HostFlags <- MCHostFlags
  Faults <- AllFaults

INVARIANT HostSafeModeHolds
PROPERTY RequestEnds
INVARIANT HandoverIsExact
