\* A replayed hook, two phones, a crash and a failed write.
SPECIFICATION Spec
CONSTANTS
  Cards <- TwoCards
  Hooks = {h1, h2}
  Taps = {t1, t2}
  Closers = {}
  Recovery = recovery
  LOCAL_RESOLVE_MISSES = 1
  ReadsMiss = FALSE
  MaxCrashes = 1
  MaxFaults = 1
SYMMETRY Symmetry
INVARIANTS HandedOnce NoPhantom RefusedIsInert
PROPERTY RefinesOneDecision
CHECK_DEADLOCK FALSE
