SPECIFICATION Spec
CONSTANTS
  r1 = r1
  r2 = r2
  r3 = r3
  a1 = a1
  m1 = m1
  m2 = m2
  i1 = i1
  i2 = i2
  NoTask = NoTask
  NoItem = NoItem
  NoMsg = NoMsg
  Requests <- ThreeRequests
  Admins <- OneAdmin
  Tasks <- MCTasks
  Senders <- MCTasks
  Msgs <- TwoMsgs
  Bounces <- SecondBounces
  Items <- TwoItems
  RelayOn = FALSE
  TagOnly = FALSE
  Redis = FALSE
  Expiry = TRUE
  MaxAttempts = 2
  MaxFaults = 0
  MaxCrashes = 1
CHECK_DEADLOCK FALSE
SYMMETRY MCSymmetry
INVARIANTS OneProcessing AcknowledgedIsAccountedFor
