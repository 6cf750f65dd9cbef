SPECIFICATION Spec

CONSTANTS
  d1 = d1
  d2 = d2
  Devs <- MCDevs
  RealFs = RealFs
  NoDev = NoDev
  Platforms <- MCPlatforms
  Faults <- AllFaults
  MaxMissed = 1

SYMMETRY DevSymmetry

INVARIANT AtMostOneFakefs
INVARIANT FinishedRootIsWhole
INVARIANT RevertDeletesFakefs
PROPERTY CleanBootStartsPristine
