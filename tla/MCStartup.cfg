SPECIFICATION FairStartupSpec
CONSTANTS
  Api = {a1}
  Worker = {w1}
  a1 = a1
  w1 = w1
  Nobody = Nobody
  Stranger = Stranger
  Environment <- MCEnvironment
  MaxActive = 1
  MaxFaults = 2
INVARIANTS
  ConcurrentMigrationsSafe
  ServesOnSchema
  ConfiguredInRange
PROPERTIES
  ServesInTheEnd
  SignalledExits
CHECK_DEADLOCK FALSE
