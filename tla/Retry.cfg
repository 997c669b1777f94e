SPECIFICATION FairSpec
CONSTANT MaxRetries = 6
CHECK_DEADLOCK FALSE
INVARIANTS
  RetryInv WithinItsRetries
PROPERTY
  Returns
