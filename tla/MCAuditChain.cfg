SPECIFICATION Spec
CONSTANTS
  t1 = t1
  t2 = t2
  r1 = r1
  r2 = r2
  fit = fit
  unfit = unfit
  NoThread = NoThread
  ThisRun = r1
  Threads <- MCThreads
  Runs <- MCRuns
  Payloads <- MCPayloads
  Unfit <- MCUnfit
  MaxEvents <- MCMaxEvents
INVARIANTS
  AckedSurvives
  VerifiedIsAcked
  HonestTrailVerifies
PROPERTIES
  LockReleased
  RefinesAppendLog
CHECK_DEADLOCK FALSE
