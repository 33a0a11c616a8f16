CONSTANTS
  Layout <- MCLayout
  InvokeInst <- MCInvoke
  RawName <- MCRaw
  CppName <- MCCpp
  Indirect = "indirect"
  Names <- MCNames
  InitUsers <- MCUsers
  Index = {0, 1, 2, 3, 4, 5, 6, 9}
  Bodies <- MCBodies
  Args <- MCArgs
  TimespecOf <- MCTimespecOf
  Timespecs <- MCTimespecs
  Commands <- MCCommands

SPECIFICATION Spec

INVARIANT FaultsExplained
INVARIANT MutatedExactly
INVARIANT NoUpdateLost
INVARIANT ReportsChanges
