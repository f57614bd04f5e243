\* Publishers are aborted, the ring holds one event, a page one event.
SPECIFICATION FairSpec
CONSTANTS
  Sessions = {s1}
  Links = {l1}
  Tailers = {t1}
  Conns = {c1}
  BROADCAST_CAPACITY = 1
  REPLAY_PAGE = 1
  MaxBatch = 2
  MaxSeq = 3
  MaxOrphans = 1
INVARIANTS InOrder NothingStranded GapIsReal
PROPERTIES RefinesFollowedLog BroadcastReaches
