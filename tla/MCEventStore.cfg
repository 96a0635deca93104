SPECIFICATION Spec
CONSTANTS
  NoOwner = NoOwner
  Event = {1, 2}
  Worker = {w1, w2}
  Session = {s1, s2}
  Lease = 1
  MaxLimit = 2
  MaxClock = 1
SYMMETRY Symmetry
INVARIANTS
  ClaimsInOrder
  LifecycleConsistent
  LocksGuard
  LocksResolve
  TimestampsOrdered
PROPERTY
  ImplementsLifecycle
