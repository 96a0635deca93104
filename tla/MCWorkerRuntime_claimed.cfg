SPECIFICATION Spec
CONSTANTS
  Event = {e1, e2}
  Worker = {w1, w2}
  NoOwner = NoOwner
  Concurrency = 1
  Mortal = {}
  MaxFaults = 1
INVARIANTS
  ClaimedWithinConcurrency
