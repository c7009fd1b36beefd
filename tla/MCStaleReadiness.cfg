\* A position taken between the readiness evaluation and the execution.
SPECIFICATION ProtocolizationSpec
CONSTANTS
  s1 = s1
  q1 = q1
  q2 = q2
  m1 = m1
  m2 = m2
  m3 = m3
  x1 = x1
  w1 = w1
  w2 = w2
  e1 = e1
  e2 = e2
  p1 = p1
  p2 = p2
  rd = rd
  rv = rv
  ra = ra
  Sessions = {s1}
  RequestIds = {q1, q2}
  MaterialIds = {m1, m2}
  Refs = {x1}
  Requirements = {rd, ra}
  Tenants = {"tenant"}
  CaseIds = {"case"}
  Profiles = {"profile"}
  ProfileRequirements <- MCProfileRequirements
  RequirementKind <- MCRequirementKind
  Obligation <- MCObligation
  MinimumCount <- MCMinimumCount
  CheckIds = {}
  ChecksOf <- MCChecksOf
  AnyCheckSuffices = {}
  Kinds = {"Declaration", "Attestation"}
  ChangeKinds = {"Declaration"}
  ChangeTargets = {rd}
  Positions = {"Reject"}
  CommitOrder = "Atomic"
  MaxTime = 1
  MaxRevision = 3
  Runners = {}
  ExecutionIds = {1, 2}
  Answers = {"Pass", "Fail"}
  Executors = {e1}
  ResultIds = {p1, p2}
  NoCase = NoCase
  NotProjected = NotProjected
  NoArtifact = NoArtifact
  NoDecision = NoDecision
  NoCheck = NoCheck
  NoRecords = NoRecords
  NoOutcome = NoOutcome
SYMMETRY Symmetric
PROPERTIES
  StoredWhileReady
\* A cancelled case accepts nothing more, and identifiers run out.
CHECK_DEADLOCK FALSE
