SPECIFICATION Spec
CONSTANTS
  Flags = {"LO", "SOE"}
  DebounceSamples = 2
  LaunchConfirmCycles = 1
  TestCycles = 2
  DispensePulses = 2
  PollCycles = 1
  MaxResets = 1
PROPERTY DriverIsReleased
