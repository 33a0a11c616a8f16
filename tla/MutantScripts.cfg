CONSTANTS
  Scripts = {"rmMutex", "swapMutex", "rmPosixCondSignal"}
  Counts <- MCCounts
  IntMax = 6

SPECIFICATION Spec

INVARIANT MutantsExact
