CONSTANTS
  none = none
  failure = failure
  MaxSamples = 4
  MaxPackets = 7
  NoScan = none
  Failure = failure
SPECIFICATION Spec
INVARIANTS SamplesFit Conservation OneForeignReading ScanIsRotation
\* The worker ends.
CHECK_DEADLOCK FALSE
