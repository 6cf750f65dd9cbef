SPECIFICATION Spec

CONSTANTS
  t1 = t1
  t2 = t2
  k1 = k1
  Threads <- MCThreads
  Kids <- MCKids
  Flags <- MCFlags
  Faults <- AllFaults

PROPERTY ReportBeforeAbort
PROPERTY RacesAreBounded
PROPERTY HangsAreKnown

CHECK_DEADLOCK FALSE
