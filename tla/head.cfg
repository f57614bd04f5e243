\* Two keyboard connections, three moves, room for one retired thread.
CONSTANTS
  Threads = {t1, t2}
  Conns = {k1, k2}
  MaxMoves = 3
  MaxRetired = 1
SPECIFICATION Spec
SYMMETRY Symmetry
INVARIANTS HeadIsProven HeadsStayReadable
PROPERTY BindsByProof
CHECK_DEADLOCK FALSE
