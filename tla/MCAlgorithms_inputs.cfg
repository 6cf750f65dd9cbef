SPECIFICATION Spec
CONSTANTS
  Idle = Idle
  Hosts <- MCHosts
  Asked <- MCAsked
  Images <- MCImages
  Page = 4
  AdrpBits = 4
  BranchBits = 5
  Dylds <- MCDylds
  Crashes <- MCCrashes
  Max = 3
  Calls <- MCCalls
  Procs <- MCProcs
  Queries <- MCQueries
  Texts <- MCTexts
  Pattern <- MCPattern
  Back = 5
  Processes <- MCProcesses
  Classes <- MCClasses
  Super <- MCSuper
  Nil = "nil"
  Hooks <- MCHooks
  Commands <- MCCommands
  Bits = 4
  ModeBits = 16
  NameOf <- MCNameOf
  Boots <- MCBoots
  Lookups = 2
  KernelStrings <- MCStrings
  ValueOf <- MCValueOf
  Bytes <- MCBytes
  LibraryCalls <- MCLibraryCalls
  LongNeedle = 2
  LongHaystack = 5
  Numerals <- MCNumerals
  ULONG_MAX = 63
CHECK_DEADLOCK FALSE
INVARIANT VersionsKeepTheirMeaning
INVARIANT AddressesAreFound
INVARIANT PatchedDyldIsRight
INVARIANT BacktraceIsTrue
INVARIANT DaemonsAreLoaded
INVARIANT HooksFitTheProcess
INVARIANT SandboxedReachPalera1nd
INVARIANT LsdIsHookedRight
INVARIANT HooksFormAChain
INVARIANT P1ctlInventsNothing
INVARIANT LaunchdGetsItsDaemons
INVARIANT SystemIsKnown
INVARIANT LibraryIsExact
INVARIANT NumberIsRead
