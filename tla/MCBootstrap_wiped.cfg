SPECIFICATION Spec

CONSTANTS
  d1 = d1
  d2 = d2
  NoDir = NoDir
  JbDirs <- MCJbDirs
  SSV = TRUE
  BootFlags <- AllBoots
  Faults <- AllFaults

INVARIANT RootSurvives
