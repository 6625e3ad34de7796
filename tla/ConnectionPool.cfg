CONSTANTS
  w1 = w1
  w2 = w2
  w3 = w3
  w4 = w4
  w5 = w5
  Worker = {w1, w2, w3, w4, w5}
  PoolSize = 2
SPECIFICATION FairSpec
INVARIANTS
  ConnectionsDisjoint
  ReleaseNeverBlocks
PROPERTY
  AllClosedAtEnd
CHECK_DEADLOCK FALSE
