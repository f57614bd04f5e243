\* Two moves, and announcements that lag behind them.
SPECIFICATION FairFanoutSpec
CONSTANTS
  Threads = {t1, t2}
  Conns = {k1}
  Ccds = {d1}
  MaxMoves = 2
  MaxRetired = 2
  MaxAnnouncements = 1
  MaxChatter = 1
INVARIANTS FanoutTypeOK OwedIsAsked
PROPERTY HeadReaches
CHECK_DEADLOCK FALSE
