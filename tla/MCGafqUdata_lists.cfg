SPECIFICATION Spec
CONSTANTS
  u1 = u1
  u2 = u2
  u3 = u3
  Udata <- MCUdata
  MT = MT
  ROOT = ROOT
  NULL = NULL
CHECK_DEADLOCK FALSE
INVARIANTS
  EachInOneList
  SweepsRootList
  CloseFinalizesAll
PROPERTIES
  NewestFirst
  FullSweepEndsOpen
