SPECIFICATION RaceSpec
CONSTANTS
  Addresses = {a1, a2, a3}
  NoAddress = NoAddress
  LateResults = TRUE
  MaxCancels = 1
INVARIANTS
  OthersTornDown
CHECK_DEADLOCK FALSE
