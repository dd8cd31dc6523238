SPECIFICATION Spec
CONSTANTS
  None = None
  Session = {s1, s2}
  Advance = {a1}
  Scrub = scrub
  Carry = carry
  Scan <- MCScan
  Task <- MCTask
  Archive = 0
  First = 2
  Limit = 2
  MaxAttempts = 2
  MaxRequests = 2
  MaxFaults = 1
  MaxSequence = 3
SYMMETRY MCSymmetry
CHECK_DEADLOCK FALSE
INVARIANTS
  ReceiptIsTruth
  HistoriesAgree
  TexturesAreOwned
  NoWaitIsForgotten
  PlaybackFollowsIntent
