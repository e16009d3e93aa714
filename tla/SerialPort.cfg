CONSTANTS
  Threads = {client, worker}
  Lengths = {1, 3}
  MaxBytes = 4
  MaxErrors = 2
SPECIFICATION FairSpec
INVARIANTS TypeOK BytesAccounted FullReadXorError HandlesAccounted
PROPERTIES CallsEnd
\* Nobody has to call: a port that nobody uses is at rest.
CHECK_DEADLOCK FALSE
