CONSTANTS
  Threads = {t1, t2}
  MaxErrors = 3
  MaxScans = 2
  StopMayFail = TRUE
  GoesOn = FALSE
SPECIFICATION Spec
INVARIANTS TypeOK ErrorsLive ThrowsWhatFailed NothingLeftBehind
\* A Java client that releases no scan stops at the bound on scans.
CHECK_DEADLOCK FALSE
