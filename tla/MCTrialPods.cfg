SPECIFICATION TrialSpec
CONSTANT Attempts = 3
INVARIANTS
  Confined
  RollbackConfirmed
  LeakReported
  EvalConfined
  NotManufactured
PROPERTIES
  TrialEnds
  TrialResourcesPromise
  EvalResourcesPromise
CHECK_DEADLOCK FALSE
