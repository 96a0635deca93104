SPECIFICATION Spec
CONSTANTS
  Event = {e1, e2}
  Worker = {w1, w2}
  NoOwner = NoOwner
  Concurrency = 2
  Mortal = {w1}
  MaxFaults = 1
SYMMETRY EventSymmetry
INVARIANTS
  TypeOK
  ColumnsAgree
  CapacityBound
  AttemptsExclusive
  LatestAttemptOwns
  ProcessedWasHandled
  CountedOnce
  ReportAccounts
PROPERTIES
  LeaseProtectsClaim
  ProcessedIsFinal
