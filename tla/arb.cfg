\* Two threads and room for one slot: the head moves while answers are in flight.
CONSTANTS
  Threads = {t1, t2}
  Ids = {i1}
  TuiLegs = {k1}
  CcdLegs = {p1}
  MaxTrackedIds = 1
  MaxWinners = 1
SPECIFICATION FairSpec
INVARIANTS TruthfulDisposition OneAnswer
PROPERTIES LegSettles RefinesOneUseSlot
CHECK_DEADLOCK FALSE
