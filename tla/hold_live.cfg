\* One phone against the Mac, the sweeps and a crash.
SPECIFICATION FairSpec
CONSTANTS
  Cards <- TwoCards
  Hooks = {h1}
  Taps = {t1}
  Closers = {c1}
  Recovery = recovery
  LOCAL_RESOLVE_MISSES = 1
  ReadsMiss = TRUE
  MaxCrashes = 1
  MaxFaults = 0
INVARIANTS SentIsOnDisk OutcomeIsTrue ResultLetsGo
PROPERTIES HooksAreReleased CardsClose
CHECK_DEADLOCK FALSE
