SPECIFICATION Spec
CONSTANTS
  Calls = {c1, c2}
  Codes = {ok, err, bad}
  Ok = ok
  Malformed = bad
  None = None
  MaxChunks = 3
INVARIANTS
  TypeOK
  OwnWholeReply
  QueuesMatchWaiting
  NothingMissed
PROPERTIES
  EveryCallEnds
  ImplementsRpc
CHECK_DEADLOCK FALSE
