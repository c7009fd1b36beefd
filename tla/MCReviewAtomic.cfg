\* Both repositories are written in one transaction.
SPECIFICATION Spec
CONSTANTS
  s1 = s1
  s2 = s2
  q1 = q1
  q2 = q2
  q3 = q3
  m1 = m1
  m2 = m2
  m3 = m3
  x1 = x1
  x2 = x2
  rd = rd
  ra1 = ra1
  ra2 = ra2
  Sessions = {s1, s2}
  RequestIds = {q1, q2, q3}
  MaterialIds = {m1, m2, m3}
  Refs = {x1}
  Requirements = {rd, ra1, ra2}
  Tenants = {"tenant"}
  CaseIds = {"case"}
  Profiles = {"profile"}
  ProfileRequirements <- MCProfileRequirements
  RequirementKind <- MCRequirementKind
  Obligation <- MCObligation
  MinimumCount <- MCMinimumCount
  CheckIds = {}
  ChecksOf <- MCChecksOf
  AnyCheckSuffices = {}
  Kinds = {"Declaration", "Attestation"}
  ChangeKinds = {"Declaration"}
  ChangeTargets = {rd}
  Positions = {"Reject", "Attest"}
  CommitOrder = "Atomic"
  MaxTime = 1
  MaxRevision = 4
  NoCase = NoCase
  NotProjected = NotProjected
  NoArtifact = NoArtifact
  NoDecision = NoDecision
SYMMETRY Symmetric
INVARIANTS
  TypeOK
  CurrentAttestationSawDossier
  DecisionsHappened
  AttestationsDecided
  ObjectionsAnswered
PROPERTIES
  StaleNeverRevives
  OtherAttestationKeepsCurrency
\* A cancelled case accepts nothing more, and review requests run out.
CHECK_DEADLOCK FALSE
