SPECIFICATION Spec
CONSTANTS
  Temperatures = {0, 1, 2, 5}
  HeatOnBelow = 2
  HeatOffAbove = 4
  FaultWindow = 2
  MinRise = 2
  MaxOverride = 2
INVARIANTS
  HeatIsNeverBlind
  DeadHeaterIsReported
PROPERTIES
  FaultIsDeserved
  RegulatorReturns
