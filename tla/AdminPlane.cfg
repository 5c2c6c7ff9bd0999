SPECIFICATION Spec
CONSTANTS
  Names = {"admin", "bob"}
  RootName = "admin"
  GivenRoles = {"analyst", "admin"}
  Claims <- MCClaims
  SecretSet = TRUE
  Presented = {"none", "session"}
  Ttl = 1
  CodeStep = 1
  MaxNow = 2
  MaxLogins = 2
  NoUser = NoUser
  t1 = t1
  t2 = t2
  d1 = d1
  d2 = d2
  Tenants = {t1, t2}
  Domains = {d1, d2}
  Parent <- MCParent
  NoDomain = NoDomain
  Keys = {k1, k2}
  Plain = Plain
  NoTenant = NoTenant
  NoStore = NoStore
  MaxCalls = 6
  MaxRestarts = 1
SYMMETRY MCSymmetry
CHECK_DEADLOCK FALSE
INVARIANTS SessionsComeFromLogins ResolvesToClaimant OwnMailReadable AdminsGoBack
