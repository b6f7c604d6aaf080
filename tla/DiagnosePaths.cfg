SPECIFICATION Spec
CONSTANTS
  Target = Target
  Zero = Zero
  Elsewhere = Elsewhere
  MaxFlight <- MCMaxFlight
  LateResults = TRUE
  Period = 40
  Down = 20
  Window = 3
  MaxStep = 7
  Duration = 100
  Keys = 3
  Frames = 2
  Addresses = 2
  MaxPackets = 4
  Capacity = 2
  Enough = 2
  Programs = {"diagnose"}
INVARIANTS
  FailedOnEveryPath
CHECK_DEADLOCK FALSE
