\* Two writers of one tenant, and one of another that mints the same identifiers.
SPECIFICATION IntakeSpec
CONSTANTS
  w1 = w1
  w2 = w2
  w3 = w3
  t1 = t1
  t2 = t2
  p1 = p1
  re = re
  rd = rd
  m1 = m1
  m2 = m2
  m3 = m3
  x1 = x1
  x2 = x2
  i1 = i1
  i2 = i2
  Writers = {w1, w2, w3}
  Tenants = {t1, t2}
  TenantOf <- MCTenantOf
  CaseIds = {"case"}
  Profiles = {p1}
  Requirements = {re, rd}
  ProfileRequirements <- MCProfileRequirements
  MaterialIds = {m1, m2, m3}
  Kinds = {"Evidence", "Declaration"}
  Refs = {x1, x2}
  RecordIds = {i1, i2}
  ClaimTypes = {"right"}
  Answers <- MCAnswers
  EvidenceSubmissions <- MCEvidence
  DeclarationSubmissions <- MCDeclarations
  MaxTime = 1
  MaxPending = 1
  MaxRevision = 3
  NoCase = NoCase
  NoRecord = NoRecord
  NotProjected = NotProjected
SYMMETRY Symmetric
INVARIANTS
  IntakeTypeOK
  RecordsAccountForCase
  RecordsInOrder
  TenantsSeparate
