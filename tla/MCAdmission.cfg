SPECIFICATION FairAdmissionSpec
CONSTANTS
  Client = {c1, c2, c3}
  Scope = {k1}
  Fingerprint = {f1, f2}
  MaxConnections = 2
  MaxFaults = 2
CHECK_DEADLOCK FALSE
INVARIANTS
  NoRequestStuck
  AcceptedIsDurable
  OneRowPerScope
  ConflictIsReal
  LookupFindsRow
PROPERTIES
  ImplementsIntake
  ClientsSettle
