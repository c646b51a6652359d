SPECIFICATION Spec
CONSTANTS
  TimeRefs = {"UNSYNCED", "TMINUS"}
  Periodic = {"video"}
  FsyncEvery = 2
  Commands = 1
  Restarts = 0
  MaxFiles = 3
  Countdown = 0
  LastTime = 1
INVARIANTS
  WipeSparesOpenFiles
