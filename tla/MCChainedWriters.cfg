\* Writers that apply two operations before they save.
SPECIFICATION Spec
CONSTANTS
  w1 = w1
  w2 = w2
  t1 = t1
  p1 = p1
  p2 = p2
  r1 = r1
  r2 = r2
  m1 = m1
  m2 = m2
  Writers = {w1, w2}
  Tenants = {t1}
  TenantOf <- MCOneTenant
  CaseIds = {"case"}
  Profiles = {p1, p2}
  Requirements = {r1, r2}
  ProfileRequirements <- MCProfileRequirements
  MaterialIds = {m1, m2}
  Kinds = {"Evidence"}
  Refs = {"ref"}
  MaxTime = 2
  MaxPending = 2
  MaxRevision = 4
  NoCase = NoCase
  NotProjected = NotProjected
SYMMETRY Symmetric
PROPERTIES
  NoLostUpdate
