SPECIFICATION FairSpec
CONSTANTS
  Lookups = {l1, l2}
  Subjects = {s1, s2}
  Malformed = {s2}
  MaxAttempts = 2
  Threshold = 2
  ResetTimeout = 1
PROPERTIES LookupsEnd CircuitRecovers
