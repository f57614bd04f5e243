\* The Mac answers an approval, and the tailer reads of it, before it is registered.
SPECIFICATION FairSpec
CONSTANTS
  Cards <- AnApproval
  Hooks = {h1}
  Taps = {}
  Closers = {c1}
  Recovery = recovery
  LOCAL_RESOLVE_MISSES = 1
  ReadsMiss = FALSE
  MaxCrashes = 0
  MaxFaults = 0
PROPERTY TranscriptCloses
CHECK_DEADLOCK FALSE
