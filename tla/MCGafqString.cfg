SPECIFICATION FairSpec
CONSTANTS
  xa = xa  xb = xb  xc = xc
  Content = {xa, xb, xc}
  String <- MCString
  str <- MCstr
  Hash <- MCHash
  MINSTRTABSIZE = 1
  MAXSIZE = 2
INVARIANTS Interned HeldFound NuseExact SweptAll
PROPERTY StringsFreed
