CONSTANTS
  g1 = g1
  g2 = g2
  b1 = b1
  Good = {g1, g2}
  Bad = {b1}
  NumMessages = 3
  VisibilityTimeout = 1
  NumRounds = 2
  MaxTime = 3
SPECIFICATION FairSpec
INVARIANTS
  FirstInFirstOut
  Conservation
  ExclusiveWhileVisible
  NoSleeperBesideAMessage
PROPERTIES
  ImplementsDelivery
  Termination
CHECK_DEADLOCK FALSE
