CONSTANTS
  ScanLen = 7
  HeaderLen = 6
  InfoLen = 5
  ParamLen = 9
  MaxBacklog = 14
  Trailing = TRUE
  MayUnplug = FALSE
  MayCorrupt = FALSE
  ChecksumsHold = TRUE
  Speeds = {0, 5}
  MaxUnready = 2
  MaxSessions = 2
  MaxSpeedChanges = 1
  MaxSize = 2
  MaxTries = 2
  MayFill = FALSE
  Requests = {"RR"}
  AwaitsReset = TRUE
  ThreadsRunOut = FALSE
  Grace = TRUE
SPECIFICATION FairSpec
INVARIANTS TypeOK HostAndSensorAgree NoSpuriousError SuccessMeansDone
PROPERTIES CallsReturn ReaderServed SessionSpec
\* The client may stop calling: a freed device has no further step.
CHECK_DEADLOCK FALSE
