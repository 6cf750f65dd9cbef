SPECIFICATION Spec

CONSTANTS
  launchd = launchd
  p1 = p1
  Procs <- MCProcs
  Launchd = launchd
  Libraries <- MCLibraries
  Dirs <- MCDirs
  PayloadDylib = "payload.dylib"
  Attrs <- AllAttrs
  MaxAttempts = 2
  MaxFactor = 2

INVARIANT CallerSurvives
