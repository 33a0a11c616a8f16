CONSTANTS
  Programs <- MCPrograms
  Mutexes <- MCMutexes
  Commands <- MCCommands
  IntMax = 15

SPECIFICATION Spec

INVARIANT GenericPairIsPairAt
