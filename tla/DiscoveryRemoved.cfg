SPECIFICATION ScanSpec
CONSTANTS
  Names = {n1}
  MaxChanges = 1
INVARIANTS
  RemovedDropped
CHECK_DEADLOCK FALSE
