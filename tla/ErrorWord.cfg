SPECIFICATION WordSpec
CONSTANTS
  Sensors = {"int_bme", "ext_bme"}
  StorageReadings = {19, 20, 100, 255}
  PacketCycles = 2
  MaxBoots = 1
INVARIANTS
  WordMirrorsLastKnown
PROPERTIES
  GroundKeepsSeeingFaults
  FaultReachesGround
