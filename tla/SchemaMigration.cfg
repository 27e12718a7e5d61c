SPECIFICATION Spec
CONSTANTS
  Procs = {p1, p2}
  Starts = {"fresh", "legacy", "v1", "v2", "v3"}
  NoProc = NoProc
INVARIANTS
  LedgerTruthful
  RunsKept
  SupportedStays
PROPERTIES
  LockFreed
CHECK_DEADLOCK FALSE
