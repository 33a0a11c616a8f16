CONSTANTS
  Layout <- MCLayout
  InvokeInst <- MCInvoke
  RawName <- MCRaw
  CppName <- MCCpp
  Indirect = "indirect"
  Names <- MCNames
  InitUsers <- MCUsers
  Index = {0, 1, 2, 3, 4}
  Args <- MCArgs
  SemValueMax = 3
  Kept = Kept
  Commands <- MCCommands

SPECIFICATION Spec

INVARIANT FaultsExplained
INVARIANT RegistryExact
INVARIANT ReportsChanges
INVARIANT MutatedExactly
INVARIANT ClassInvariantsKept
