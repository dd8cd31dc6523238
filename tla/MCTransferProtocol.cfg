SPECIFICATION ProtocolFairSpec
CONSTANTS
  Request = {r1, r2}
  ReleaseId = {r1, r2}
  TRANSFER_CREDIT_LIMIT = 1
  MaxDocumentEpoch = 2
  MaxSession = 2
  MaxGeneration = 2
  MaxBegins = 2
INVARIANTS
  ActiveLaneIsAgreed
PROPERTIES
  ImplementsLedger
  CreditsReturn
CHECK_DEADLOCK FALSE
