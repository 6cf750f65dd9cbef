SPECIFICATION Spec

CONSTANTS
  c1 = c1
  k1 = k1
  NoOne = NoOne
  Clients <- MCClients
  Children <- MCChildren
  Asks <- MCAsks
  Platforms <- AllPlatforms
  Faults <- AllFaults

PROPERTY EverySenderIsAnswered
INVARIANT RepliesAreTrue
INVARIANT StoppedAreContinued
