SPECIFICATION FairSpec
CONSTANTS
  Callers = {c1, c2, c3}
  AdminCallers = {c3}
  MaxRequests = 3
  AdminMax = 2
  Window = 3
  Stores = {"redis", "memory"}
  MaxFaults = 1
INVARIANTS KeyLifetimes BurstBound
PROPERTY WindowEnds
