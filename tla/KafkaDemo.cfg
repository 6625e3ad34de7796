CONSTANTS
  a = a
  b = b
  g1 = g1
  g2 = g2
  x = x
  y = y
  Consumer <- Consumers
  Group <- Groups
  Customer <- Customers
  Orders <- OrderList
  Partition = {0, 1}
  MaxCrash = 1
  MaxLost = 1
SPECIFICATION MCSpec
INVARIANTS
  TypeOK
  FlushedInOrder
  CommittedIsDone
  HandledInOrder
  OnceUnlessKilled
PROPERTY
  ReadsAllAndStops
CHECK_DEADLOCK FALSE
