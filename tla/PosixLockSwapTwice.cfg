CONSTANTS
  Programs <- MCPrograms
  Commands <- MCCommands
  IntMax = 15

SPECIFICATION Spec

INVARIANT SwapTwiceIsNoOp
