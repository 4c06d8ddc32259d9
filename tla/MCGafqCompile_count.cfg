SPECIFICATION Spec
CONSTANTS
  Programs <- Counted
  LFIELDS_PER_FLUSH = 2
  MAXSTACK = 20
  MAXINDEXRK = 3
  MAXARG_sBx = 100
  MAXARG_Bx = 100
  MAXARG_C = 3
  MAXVARS = 12
  MAXUPVALUES = 5
  MAXCCALLS = 20
  STACKSIZE = 30
PROPERTY Means
