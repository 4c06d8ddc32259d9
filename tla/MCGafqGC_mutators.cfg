SPECIFICATION Spec
CONSTANTS
  m = m
  th = th
  reg = reg
  t1 = t1
  u1 = u1
  c1 = c1
  c2 = c2
  p1 = p1
  v1 = v1
  s1 = s1
  one = one
  NIL = NIL
  Table = {reg, t1}
  Udata = {u1}
  Closure = {c1, c2}
  Proto = {p1}
  Upval = {v1}
  Thread = {m, th}
  String = {s1}
  Prim = {one}
  mainthread = m
  registry = reg
  globals = reg
  StkId = {1, 2}
  HasGC = {reg}
  FixedStr = {}
  GCSWEEPMAX = 1
  MaxNest = 0
  WeakLetters = {"k", "v"}
  Mode <- MCMode
  Programs <- Mutators
INVARIANTS
  TypeOK
  NoDangling
  Tricolor
  GclistExclusive
PROPERTIES
  ClearsOnlyCollected
