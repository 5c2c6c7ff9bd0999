SPECIFICATION Spec
CONSTANTS
  b1 = b1
  b2 = b2
  b3 = b3
  NoBody = NoBody
  Domains = {d1}
  Bodies <- MCBodies
  Alike <- MCAlike
  Tenants <- UnitTenants
  Scores = {0, 35, 100}
INVARIANTS MalwareIsNeverForwarded RejectsUndoCredit EvidenceNeverHelps
PROPERTY MilderOnlyOnceForgiven
