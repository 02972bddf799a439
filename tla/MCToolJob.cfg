SPECIFICATION Spec
CONSTANTS
  Platforms = {"unix", "windows"}
  Tools = 2
  CaptureLimit = 1
  MaxWrites = 2
  Deadline = 1
INVARIANTS
  OkOutputIsComplete
  LogLimitIsShared
PROPERTY
  ImplementsToolRun
CHECK_DEADLOCK FALSE
