SPECIFICATION FairSpec
CONSTANTS
  m = m
  th = th
  reg = reg
  t1 = t1
  u1 = u1
  c1 = c1
  c2 = c2
  p1 = p1
  v1 = v1
  s1 = s1
  one = one
  NIL = NIL
  Table = {reg}
  Udata = {u1}
  Closure = {}
  Proto = {}
  Upval = {}
  Thread = {m}
  String = {}
  Prim = {}
  mainthread = m
  registry = reg
  globals = reg
  StkId = {1}
  HasGC = {reg}
  FixedStr = {}
  GCSWEEPMAX = 1
  MaxNest = 2
  WeakLetters = {}
  Mode <- MCMode
  Programs <- Finalizing1
PROPERTIES
  GarbageFreed
