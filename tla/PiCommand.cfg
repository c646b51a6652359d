SPECIFICATION Spec
CONSTANTS
  TimeRefs = {"UNSYNCED"}
  Periodic = {"video"}
  FsyncEvery = 2
  Commands = 2
  Restarts = 1
  MaxFiles = 4
  Countdown = 1
  LastTime = 0
INVARIANTS
  ExecutedOnce
  ResultBelongsToEcho
  OkIsOnRecord
PROPERTIES
  EveryCommandIsAnswered
