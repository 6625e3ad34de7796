CONSTANT
  N = 4
SPECIFICATION FairAddSpec
INVARIANTS
  UnsafeWithinBounds
  ExactIfNotShared
PROPERTY
  AddersEnd
CHECK_DEADLOCK FALSE
