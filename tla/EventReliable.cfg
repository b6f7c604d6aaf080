SPECIFICATION Spec
CONSTANTS
  Subscribers = {s1}
  Capacity = 3
  MaxEvents = 4
  MaxParts = 2
  Unreadable = {}
INVARIANTS
  NeitherLostNorReordered
CHECK_DEADLOCK FALSE
