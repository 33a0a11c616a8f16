CONSTANTS
  Argvs <- MCArgvs
  IntMax = 6

SPECIFICATION Spec

INVARIANT AllPrinted
INVARIANT UnderflowOnlyAtEnd
INVARIANT NoNullConverted
PROPERTY InOrder
PROPERTY Terminates
