CONSTANTS
  Programs <- MCPrograms
  Commands <- MCCommands

SPECIFICATION Spec

INVARIANT FaultsExplained
INVARIANT MutantsVerify
INVARIANT MutatedExactly
