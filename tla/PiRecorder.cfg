SPECIFICATION Spec
CONSTANTS
  Loop = 2
  Oversleep = 1
  Period = 4
  StateEvery = 2
  TelemetryEvery = 4
  RowsFast = 4
  RowsSlow = 4
  OffsetSystem = 2
  OffsetTelemetry = 3
  FsyncEvery = 3
  Stall = 5
  MaxFaults = 2
INVARIANTS
  LossIsBounded
  SlotsKeepTheirPace
PROPERTIES
  RecordingGoesOn
CHECK_DEADLOCK FALSE
