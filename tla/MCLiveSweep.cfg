SPECIFICATION LiveSweepSpec
CONSTANTS
  Volume <- Volumes
  MAX_REALTIME_CHUNKS = 4
  MAX_REALTIME_CHUNK_BYTES = 3
  MAX_REALTIME_VOLUME_BYTES = 4
  Object <- Objects
  Promised <- Volume2
  VolumeTimeConstraint <- Constraints
  CHUNK_DOWNLOAD_WINDOW = 3
  CONCURRENT_SAFE_DECODE_INPUT_BYTES = 3
  Faults = {"download", "superseded", "dropped"}
INVARIANTS
  AsTryingEachInTurn
  NothingSafeIsMissed
  FailureKeepsSafeSweep
PROPERTIES
  SafeSweepArrives
CHECK_DEADLOCK FALSE
