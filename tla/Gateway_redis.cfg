SPECIFICATION FairSpec
CONSTANTS
  r1 = r1
  r2 = r2
  r3 = r3
  a1 = a1
  m1 = m1
  m2 = m2
  i1 = i1
  i2 = i2
  NoTask = NoTask
  NoItem = NoItem
  NoMsg = NoMsg
  Requests <- TwoRequests
  Admins <- OneAdmin
  Tasks <- MCTasks
  Senders <- MCTasks
  Msgs <- OneMsg
  Bounces <- NoBounces
  Items <- OneItem
  RelayOn = TRUE
  TagOnly = FALSE
  Redis = TRUE
  Expiry = FALSE
  MaxAttempts = 2
  MaxFaults = 2
  MaxCrashes = 1
CHECK_DEADLOCK FALSE
INVARIANTS PendingUndelivered AnswerTellsTheTruth
PROPERTY RequestsEnd
