\* Two threads, a keyboard and two phones, with every table holding one entry.
SPECIFICATION Spec
CONSTANTS
  Threads = {t1, t2}
  Keyboards = {k1}
  Phones = {p1, p2}
  Ids = {i1}
  MaxTurns = 2
  MaxStarts = 2
  MaxCleared = 1
  MaxRunning = 1
  MaxActive = 2
  MaxOutstanding = 2
  MaxTracked = 1
SYMMETRY Symmetry
INVARIANTS TypeOK EndedStaysEnded NoStuckBusy IdsCorrelate KnownBusy
CHECK_DEADLOCK FALSE
