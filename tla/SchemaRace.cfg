SPECIFICATION Spec
CONSTANTS
  Procs = {p1, p2}
  Starts = {"v2"}
  NoProc = NoProc
INVARIANT
  ProjectionsRebuilt
CHECK_DEADLOCK FALSE
