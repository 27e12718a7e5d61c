SPECIFICATION Spec
CONSTANTS
  Runs = {r1}
  Db = Db
  Migrators = {m1, m2}
  NoOne = NoOne
  Other = Other
  MaxSaves = 2
INVARIANTS
  PublishedWhole
  SuccessDurable
PROPERTIES
  NeverReplaced
  Terminates
CHECK_DEADLOCK FALSE
