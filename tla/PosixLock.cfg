CONSTANTS
  Programs <- MCPrograms
  Commands <- MCCommands
  IntMax = 15

SPECIFICATION Spec

INVARIANT FaultsExplained
INVARIANT RemoveExact
INVARIANT OthersUntouched
INVARIANT SwapExact
INVARIANT SplitStaysInside
PROPERTY ShiftLandsBefore
PROPERTY SplitPlaced
