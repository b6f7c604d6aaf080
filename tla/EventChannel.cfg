SPECIFICATION Spec
CONSTANTS
  Subscribers = {s1, s2}
  Capacity = 2
  MaxEvents = 3
  MaxParts = 2
  Unreadable = {2}
INVARIANTS
  TypeOK
  OrderKept
  NoLossWithinCapacity
PROPERTIES
  EventuallyYielded
  ImplementsFeed
CHECK_DEADLOCK FALSE
