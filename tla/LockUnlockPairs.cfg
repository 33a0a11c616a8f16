CONSTANTS
  Programs <- MCPrograms
  UIntMax = 15

SPECIFICATION Spec

INVARIANT NeverNull
INVARIANT PairsExact
INVARIANT VisitComputesFuncPairs
