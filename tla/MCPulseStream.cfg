SPECIFICATION FairServiceSpec
CONSTANTS
  Client = {c1}
  Scope = {k1}
  Fingerprint = {f1}
  MaxConnections = 1
  Event <- MCEvent
  Worker = {w1, w2}
  NoOwner = NoOwner
  Concurrency = 1
  Mortal = {w1}
  MaxFaults = 1
CHECK_DEADLOCK FALSE
PROPERTIES
  ServiceImplementsLifecycle
  SeenAdvances
  ToldInTheEnd
