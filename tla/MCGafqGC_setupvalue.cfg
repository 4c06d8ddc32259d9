SPECIFICATION SetUpvalueSpec
CONSTANTS
  m = m
  th = th
  reg = reg
  t1 = t1
  u1 = u1
  c1 = c1
  c2 = c2
  p1 = p1
  v1 = v1
  s1 = s1
  one = one
  NIL = NIL
  Table = {reg, t1}
  Udata = {}
  Closure = {c1, c2}
  Proto = {}
  Upval = {v1}
  Thread = {m}
  String = {}
  Prim = {}
  mainthread = m
  registry = reg
  globals = reg
  StkId = {1, 2}
  HasGC = {}
  FixedStr = {}
  GCSWEEPMAX = 1
  MaxNest = 0
  WeakLetters = {}
  Mode <- MCMode
  Programs <- Setters
INVARIANTS
  NoDangling
