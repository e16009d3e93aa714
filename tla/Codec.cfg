CONSTANTS
  Values = {0, 1, 254, 255}
  MaxGlitches = 1
SPECIFICATION WireSpec
INVARIANTS CleanIsAccepted GlitchIsNoticed
\* A packet that was read is done with.
CHECK_DEADLOCK FALSE
