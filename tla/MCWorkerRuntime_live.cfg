SPECIFICATION FairSpec
CONSTANTS
  Event = {e1, e2}
  Worker = {w1, w2}
  NoOwner = NoOwner
  Concurrency = 1
  Mortal = {w1}
  MaxFaults = 1
PROPERTIES
  EventuallyProcessed
  ShutdownCompletes
