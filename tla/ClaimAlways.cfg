SPECIFICATION Spec
CONSTANTS
  Clients = {k1}
  Forcing = {}
  MaxAttempts = 1
  Once = {}
  Nobody = Nobody
INVARIANTS
  AlwaysReleased
CHECK_DEADLOCK FALSE
