SPECIFICATION UplinkSpec
CONSTANTS
  Byte = {0, 1, 2, 3, 4, 5, 6, 7}
  Sync0 = 2
  Sync1 = 3
  Test = 1
  Wipe = 4
  Heat = 5
  MaxPayload = 6
  HeatPayload = 2
  MaxDuration = 3
  Checksum <- MCChecksum
  Duration <- MCDuration
  Pieces = 3
  Streams <- MCStreams
INVARIANTS
  ChunksMakeNoDifference
  RequestsMatchFrames
CHECK_DEADLOCK FALSE
