SPECIFICATION BacklogSpec
CONSTANTS
  MaxEvents = 5
  Poison = {1, 2, 4}
  Concurrency = 2
  Lease = 4
  MaxWork = 2
PROPERTIES
  OthersProcessed
