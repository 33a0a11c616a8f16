CONSTANTS
  Programs <- MCPrograms
  Mutexes <- MCMutexes
  Commands <- MCCommands
  IntMax = 15

SPECIFICATION Spec

INVARIANT PairsExact
INVARIANT FaultsExplained
INVARIANT RemoveExact
INVARIANT SwapExact
INVARIANT BlocksKept
INVARIANT ReportsChanges
PROPERTY SplitPlaced
