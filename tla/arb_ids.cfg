\* Two request ids against caps of one: a full view and a full arbiter.
CONSTANTS
  Threads = {t1}
  Ids = {i1, i2}
  TuiLegs = {k1}
  CcdLegs = {p1}
  MaxTrackedIds = 1
  MaxWinners = 1
SPECIFICATION Spec
SYMMETRY Symmetry
INVARIANTS NoAlias NoLockout
CHECK_DEADLOCK FALSE
