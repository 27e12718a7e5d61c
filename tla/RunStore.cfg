SPECIFICATION Spec
CONSTANTS
  Runs = {r1, r2}
  NoRun = NoRun
  MaxSaves = 2
INVARIANTS
  RecordSurvives
  FileMatchesRow
PROPERTIES
  RowFollowsFile
  LockFreed
CHECK_DEADLOCK FALSE
