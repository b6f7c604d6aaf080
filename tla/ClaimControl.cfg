SPECIFICATION Spec
CONSTANTS
  Clients = {k1, k2}
  Forcing = {k1}
  MaxAttempts = 2
  Once = {k1}
  Nobody = Nobody
INVARIANTS
  TypeOK
  InsideOwns
  ReleasedAfterContext
PROPERTIES
  EventuallyReleased
  ContextsMoveOn
CHECK_DEADLOCK FALSE
