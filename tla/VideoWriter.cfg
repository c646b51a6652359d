SPECIFICATION Spec
CONSTANTS
  QueueMaxsize = 2
  LimitIdle = 1
  LimitNE = 2
  Frames = 3
  Seconds = 1
INVARIANTS
  FilesAreUniform
  FramesAccounted
  NobodyFeedsADeadQueue
PROPERTIES
  PipelineHolds
  ShutdownCompletes
  WriterStops
CHECK_DEADLOCK FALSE
