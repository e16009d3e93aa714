CONSTANTS
  none = none
  failure = failure
  MaxSamples = 4
  MaxPackets = 7
  NoScan = none
  Failure = failure
SPECIFICATION Spec
INVARIANTS EveryScanIsRotation
\* The worker ends.
CHECK_DEADLOCK FALSE
