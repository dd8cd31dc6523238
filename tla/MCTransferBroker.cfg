SPECIFICATION FairSpec
CONSTANTS
  Request = {r1, r2, r3}
  ReleaseId = {i1}
  TRANSFER_CREDIT_LIMIT = 2
  MaxDocumentEpoch = 2
  MaxSession = 2
  MaxGeneration = 2
INVARIANTS
  LaneCreditBound
  InFlightMatchesWork
  HeldCreditsAreReachable
  ReleaseFindsItsLane
PROPERTIES
  OrphanedWorkDrains
CHECK_DEADLOCK FALSE
