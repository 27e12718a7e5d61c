SPECIFICATION Spec
CONSTANTS
  Cases <- MCCases
  Settings <- MCSettings
  Usages <- MCUsages
  Changes = 3
INVARIANTS
  AdmittedOnly
  UsageStops
  VerifiesLater
  AcceptedAsAdmitted
CHECK_DEADLOCK FALSE
