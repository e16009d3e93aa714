CONSTANTS
  MaxScans = 6
  LibraryMayFail = TRUE
  StopMayFail = FALSE
  Sentinel = Sentinel
SPECIFICATION FairSpec
INVARIANTS TypeOK NothingLost Released
PROPERTIES ShutsDown
\* Both threads end, or the counter waits for ever.
CHECK_DEADLOCK FALSE
