SPECIFICATION Spec
CONSTANTS
  Absent = Absent
  proKey = proKey
  freeKey = freeKey
  alice = alice
  dataCo = dataCo
  payCo = payCo
  left = left
  keyOne = keyOne
  credOne = credOne
  credTwo = credTwo
  consOne = consOne
  wdOne = wdOne
  pyOne = pyOne
  notary = notary
  bank = bank
  stranger = stranger
  basic = basic
  full = full
  Subjects = {alice}
  Requesters = {dataCo}
  Reasons = {left}
  Keys = {keyOne}
  Consumers = {payCo}
  Withdrawals = {wdOne}
  CredentialRefs = {credOne, credTwo}
  ConsentIds = {consOne}
  ApiKeys = {proKey, freeKey}
  KycLevels <- MCKycLevels
  Priced = {"/payout/execute", "/trust/verify"}
  Tier <- MCTier
  Limit <- MCLimit
  WindowLength = 2
  TokenLife = 2
  Workloads <- MCWorkloads
INVARIANTS
  TypeOK
  RevocationsConverge
  AnsweredIsRevoked
  KeyNamesOneCommand
  AtMostTwoWindows
  PayoutsConverge
  AttemptsAudited
  MeteredOnce
  ShortfallsReported
PROPERTIES
  RevokedIsFinal
  EveryRequestClosed
CHECK_DEADLOCK FALSE
