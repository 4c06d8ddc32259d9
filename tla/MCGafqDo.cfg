SPECIFICATION Spec
CONSTANTS
  Thread = {main, co1, co2}
  mainthread = main
  main = main  co1 = co1  co2 = co2
  Handler = {"none", "C", "bad"}
  MAXCALLS = 3
  BASIC_CI_SIZE = 1
  MAXCCALLS = 3
  EXTRA_CCALLS = 1
INVARIANTS CStackBounded JumpsInnermost CallInfosMatch CcallsCounted ResumedOnce
PROPERTIES YieldCutsNothing PcallRestores
