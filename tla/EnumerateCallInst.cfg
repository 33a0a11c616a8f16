CONSTANTS
  c1 = c1
  c2 = c2
  c3 = c3
  i1 = i1
  i2 = i2
  Layout <- MCLayout
  InvokeInst <- MCInvoke
  RawName <- MCRaw
  CppName <- MCCpp
  Indirect = "indirect"
  Names <- MCNames
  InitUsers <- MCUsers
  Index = {0, 1, 2, 3, 4}

SPECIFICATION Spec

INVARIANT MutatorsNeverDangle
INVARIANT ErasedIsDeleted
INVARIANT NoUseOfErased
INVARIANT OneTerminator
PROPERTY ImplementsOccurrenceSet
CHECK_DEADLOCK FALSE
