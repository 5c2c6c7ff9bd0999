SPECIFICATION Spec
CONSTANTS
  d1 = d1
  d2 = d2
  d3 = d3
  Domains = {d1, d2, d3}
  Zones <- MCZones
  Sender = d1
  Limit = 4
  MaxDepth = 2
  note = note
  exe = exe
  dbl = dbl
  fake = fake
  pack = pack
  twin = twin
  locked = locked
  nest = nest
  big = big
  macro = macro
  broken = broken
  Files = {note, exe, dbl, fake, pack, twin, locked, nest, big, macro, broken}
  World <- MCWorld
  MaxAttached = 3
  MaxAttachments = 4
  MaxFiles = 2
  bank = bank
  sub = sub
  evil = evil
  Names = {bank, sub, evil}
  NoName = NoName
  Org <- MCOrg
  DMARCZones <- MCDMARCZones
  Mail <- MCMail
  Established = 2
  MaxSeen = 3
  MaxLives = 1
  us = us
  brand = brand
  lure = lure
  near = near
  Words = {"hello", "act now", "wire", "verify", "login", "iban", "fattura", "fattura scaduta", "cuenta", "oplata"}
  Lexicon <- MCLexicon
  Sites = {us, brand, lure, near}
  Site <- MCSite
  Watchlist = {brand}
  VIPs = {"Boss"}
  Urls = {"plain", "near", "lure"}
  Link <- MCLink
  Decoder = FALSE
  Contents <- MCContents
  s1 = s1
  s2 = s2
  Slots = {s1, s2}
  MaxBegun = 2
  MaxRestarts = 1
  Mails = {"both", "html", "other", "bounce"}
  Part <- MCPart
  Posts <- MCPosts
  SigningKey = TRUE
  t1 = t1
  t2 = t2
  Tasks = {t1, t2}
  MaxPosts = 3
SYMMETRY Alike
CHECK_DEADLOCK FALSE
INVARIANTS LookupsBounded AnswerIsTheRecords FreeMeansScanned ChargesAreEarned ContentIsAccounted TakenAsSent
