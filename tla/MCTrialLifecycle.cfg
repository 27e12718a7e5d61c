SPECIFICATION Spec
CONSTANT Plans <- MCPlans
INVARIANTS
  LeakReported
  VerdictOnTrail
  AcceptedVerifies
PROPERTIES
  NeverUpgraded
  TrailIsLog
  TrialResourcesPromise
  Terminates
CHECK_DEADLOCK FALSE
