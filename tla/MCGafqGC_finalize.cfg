SPECIFICATION Spec
CONSTANTS
  m = m
  th = th
  reg = reg
  t1 = t1
  u1 = u1
  c1 = c1
  c2 = c2
  p1 = p1
  v1 = v1
  s1 = s1
  one = one
  NIL = NIL
  Table = {reg, t1}
  Udata = {u1}
  Closure = {}
  Proto = {}
  Upval = {}
  Thread = {m}
  String = {}
  Prim = {}
  mainthread = m
  registry = reg
  globals = reg
  StkId = {1, 2}
  HasGC = {t1}
  FixedStr = {}
  GCSWEEPMAX = 1
  MaxNest = 2
  WeakLetters = {}
  Mode <- MCMode
  Programs <- Finalizing
INVARIANTS
  NoDangling
  WhiteAtRest
  FinalizedOnce
