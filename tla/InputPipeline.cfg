SPECIFICATION Spec
CONSTANTS
  Flags = {"LO", "SOE"}
  DebounceSamples = 2
  LaunchConfirmCycles = 3
  Accelerations = {0, 1, 4, 5, 7}
  LaunchAccel = 3
  StaticLimit = 2
  StaticCycles = 5
  Saturated = 7
INVARIANTS
  CountersMeanTheirWindows
  BoostSurvivesFrozenVerdict
PROPERTIES
  FilterHolds
