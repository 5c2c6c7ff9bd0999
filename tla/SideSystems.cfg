SPECIFICATION Spec
CONSTANTS
  m1 = m1
  m2 = m2
  m3 = m3
  u1 = u1
  u2 = u2
  l1 = l1
  l2 = l2
  f1 = f1
  f2 = f2
  s1 = s1
  Messages = {m1, m2, m3}
  Boxes <- MCBoxes
  Urls = {u1, u2}
  Holders <- MCHolders
  Calls = {c1, c2}
  Bodies <- MCBodies
  MaxDeliveries = 3
  Lines = {l1, l2}
  LineIds <- MCLineIds
  Dated = {l2}
  Files = {f1, f2}
  Sealed = {f2}
  Subjects = {s1}
  Mentions <- MCMentions
  LowerCase = {l2}
  Targets = {f1, f2, s1, m1}
  HoldIds = {g1, g2}
  MaxCrashes = 1
  MaxOps = 4
  NoLine = NoLine
  Keys = {k1, k2}
  Graces = {1, 2}
  Backups = {b1}
  NoKey = NoKey
  MaxTime = 3
  MaxVersions = 4
  MaxDeaths = 1
  t1 = t1
  t2 = t2
  t3 = t3
  Mails = {t1, t2, t3}
  Length <- MCLength
  SizeLimit = 2
  MaxMails = 2
  NoMail = NoMail
  Items = {x1, x2, x3}
  Hands = {h1, h2}
  NoItem = NoItem
  Capacity = 2
  Retries = 2
  MaxStarts = 2
SYMMETRY Sym
CHECK_DEADLOCK FALSE
INVARIANTS RemovedMeansGone NobodySkipped EvidenceKept GraceHolds BackupRestores AnswersAreOwn ItemsAccountedFor
PROPERTY HoldsProtect
