SPECIFICATION Spec
CONSTANTS
  None = None
  Commit = commit
  Advance = advance
  Scrub = scrub
  Reveal = reveal
  Observation <- MCObservation
  Task <- MCTask
  First = 2
  Limit = 2
  MaxRequests = 3
  MaxFaults = 2
CHECK_DEADLOCK FALSE
INVARIANTS
  PaintReceiptsAreTrue
  GpuHoldsReferenced
  MutationsAreSettled
  LoopIsRetained
  HiddenLoopRests
  DrawingIsScheduled
