SPECIFICATION Spec
CONSTANT Plans <- MCBarePlans
INVARIANT
  UnsafeIsRejected
CHECK_DEADLOCK FALSE
