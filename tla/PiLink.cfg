SPECIFICATION Spec
CONSTANTS
  PollCycles = 3
  MissCount = 3
  SuccessCount = 4
  MaxStates = 2
  MaxFaults = 3
INVARIANTS
  VerdictFollowsEvidence
PROPERTIES
  FlagDoesNotFlap
  PiNeverGoesBack
  PiLearnsTheState
  VerdictSettles
