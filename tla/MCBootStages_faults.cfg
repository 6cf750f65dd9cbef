SPECIFICATION FairSpec
CONSTANTS
  Devices <- MCDevices
  Scripts = {s1, s2}
  Faults = TRUE
  MaxBoots = 2
  MaxReboots = 1
INVARIANT JobsFindTheBinpack
INVARIANT BootTaskIsOrderly
PROPERTY BootMovesOn

CHECK_DEADLOCK FALSE
