CONSTANTS
  a = a
  b = b
  c = c
  d = d
  e = e
  Thread = {a, b, c, d, e}
  Size = 2
SPECIFICATION FairSpec
INVARIANTS
  EveryConnectionOnce
  WakeupsLostToTimeoutsOnly
PROPERTY
  Termination
CHECK_DEADLOCK FALSE
