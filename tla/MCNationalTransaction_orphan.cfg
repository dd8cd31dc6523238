SPECIFICATION TransactionFairSpec
CONSTANTS
  chain = c1
  Command = {c1}
  HISTORY_LIMIT = 2
  BACKEND_TARGET = 9
  MaxTime = 3
  MaxGeneration = 1
  MaxDocument = 1
  MaxRetry = 2
  Faults = {"prepare_lost"}
PROPERTIES
  FreshScansAlwaysArrive
CHECK_DEADLOCK FALSE
