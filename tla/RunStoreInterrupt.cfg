SPECIFICATION Spec
CONSTANTS
  Runs = {r1, r2}
  NoRun = NoRun
  MaxSaves = 2
INVARIANT
  CommittedFileAgrees
CHECK_DEADLOCK FALSE
