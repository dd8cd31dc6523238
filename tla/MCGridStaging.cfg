SPECIFICATION FairSpec
CONSTANTS
  WIDTH = 5
  HEIGHT = 2
  CHUNK_INTERIOR = 2
  GRID_TRANSFER_BATCH_SIZE = 1
  UPLOAD_FRAMES_IN_FLIGHT = 1
  UPLOAD_FENCE_PATIENCE_FRAMES = 1
  Fields <- MCFields
  Resident = 2
  MaxLosses = 1
INVARIANTS
  CommittedIsComplete
  FencesAreSound
PROPERTIES
  LeasesReturn
CHECK_DEADLOCK FALSE
