SPECIFICATION Spec

CONSTANTS
  d1 = d1
  d2 = d2
  NoDir = NoDir
  JbDirs <- MCJbDirs
  SSV = FALSE
  BootFlags <- AllBoots
  Faults <- RequestFaults

INVARIANT RootCanBeReverted
INVARIANT EndedRequestsAreClean

CHECK_DEADLOCK FALSE
