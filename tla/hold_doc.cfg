\* A phone answers while its card is being filed.
SPECIFICATION Spec
CONSTANTS
  Cards <- AnApproval
  Hooks = {h1}
  Taps = {t1}
  Closers = {}
  Recovery = recovery
  LOCAL_RESOLVE_MISSES = 1
  ReadsMiss = FALSE
  MaxCrashes = 0
  MaxFaults = 0
INVARIANT SentIsReturned
CHECK_DEADLOCK FALSE
