SPECIFICATION Spec
CONSTANTS
  Absent = Absent
  alice = alice
  packOne = packOne
  nameField = nameField
  mailField = mailField
  nameContent = nameContent
  mailContent = mailContent
  namePath = namePath
  mailPath = mailPath
  Subjects = {alice}
  Presentations <- MCPresentations
  Paths = {namePath, mailPath}
  Fields = {nameField, mailField}
  ConsentTerms <- MCConsentTerms
  MintTerms <- MCMintTerms
  Mappings <- MCMappings
  Packs <- MCPacks
  Rank <- MCRank
  Skew = 1
  MaxAttempts = 1
  RateWindow = 1
  MaxTime = 2
  MaxConsents = 2
  MaxTokens = 2
  MaxAdmitted = 2
INVARIANTS
  TypeOK
  DisclosedUnderConsent
  BudgetHolds
  UsageCountsAllowed
PROPERTIES
  ImplementsCapabilityUse
CHECK_DEADLOCK FALSE
