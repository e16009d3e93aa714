CONSTANTS
  ScanLen = 3
  HeaderLen = 2
  InfoLen = 1
  ParamLen = 4
  MaxBacklog = 3
  Trailing = TRUE
  MayUnplug = TRUE
  MayCorrupt = TRUE
  ChecksumsHold = FALSE
  Speeds = {0, 5}
  MaxUnready = 2
  MaxSessions = 2
  MaxSpeedChanges = 0
  MaxSize = 1
  MaxTries = 2
  MayFill = TRUE
  Requests = {"MI", "MZ", "LI", "LR"}
  AwaitsReset = TRUE
  ThreadsRunOut = TRUE
  Grace = TRUE
SPECIFICATION FairSpec
INVARIANTS OneWorker NoUseAfterFree
PROPERTIES CallsReturn LiveReaderServed
\* The client may stop calling: a freed device has no further step.
CHECK_DEADLOCK FALSE
