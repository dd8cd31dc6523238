SPECIFICATION TransactionFairSpec
CONSTANTS
  chain = c1
  Command = {c1}
  HISTORY_LIMIT = 3
  BACKEND_TARGET = 9
  MaxTime = 4
  MaxGeneration = 1
  MaxDocument = 1
  MaxRetry = 2
  Faults = {"prepare_lost", "context_lost", "receipt_timeout"}
INVARIANTS
  SettledHistoriesAgree
  CommitKeepsItsObservation
  BackfillLeavesNoHole
PROPERTIES
  JournalIsSettled
  AnswersAreAccepted
  FreshScansArrive
CHECK_DEADLOCK FALSE
