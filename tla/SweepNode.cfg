CONSTANTS
  MaxRequests = 3
  MaxStarts = 2
  MaxScans = 4
  MaxReady = 2
  Threads = 2
  LibraryMayFail = TRUE
  StopMayFail = FALSE
SPECIFICATION FairSpec
INVARIANTS DeviceOutlivesUse DeviceReleased NewerThanSeen
PROPERTIES RequestAnswered
\* The program may be done, or its process aborted.
CHECK_DEADLOCK FALSE
