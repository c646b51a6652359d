SPECIFICATION Spec
CONSTANTS
  StaticLimit = 20
  StaticCycles = 2
  Saturated = 200
  Accelerations = {0, 80}
  MaxFaults = 2
INVARIANTS
  FieldsAreThisCycles
  DeadSensorIsReported
  AbleSensorDelivers
