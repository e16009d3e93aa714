CONSTANTS
  Readers = {r1, r2}
  Speeds = {5, 10}
  Rates = {500, 1000}
  MaxSessions = 2
  MaxScans = 4
SPECIFICATION Spec
INVARIANTS NumbersRun
PROPERTIES SessionSpec
\* The client may stop calling: a freed device has no further step.
CHECK_DEADLOCK FALSE
