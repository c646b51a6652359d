SPECIFICATION Spec
CONSTANTS
  Flags = {"LO", "SOE"}
  DebounceSamples = 2
  LaunchConfirmCycles = 1
  TestCycles = 2
  DispensePulses = 2
  PollCycles = 1
  MaxResets = 1
INVARIANTS
  MotionIsAuthorised
  OneTrainPerBoot
  FailedInjectionIsReported
  VerdictCoversTheWindow
PROPERTIES
  ImplementsMission
  SignalsReachTheirModes
  InjectionCompletes
