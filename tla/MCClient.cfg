SPECIFICATION Spec
CONSTANTS
  Names = {n1, n2}
  MaxChanges = 3
  Addresses = {a1, a2, a3}
  NoAddress = NoAddress
  LateResults = FALSE
  MaxCancels = 2
  Subscribers = {s1, s2}
  Capacity = 2
  MaxDatagrams = 3
  Unreadable = {2}
  MaxSends = 4
  MaxSeq = 4
  Float32 <- MCFloat32
  Vectors <- MCVectors
  JointVectors <- MCJointVectors
  Floats <- MCFloats
  Moves <- MCMoves
  Numbers <- MCNumbers
  EnumCodes <- MCEnumCodes
  ResultCodes <- MCResultCodes
  Texts <- MCTexts
  ArmReadings <- MCArmReadings
INVARIANTS
  ScanTypeOK
  RemovedWhenSettled
  RaceTypeOK
  OthersTornDown
  NothingLeftRunning
  FailureIsTotal
  TelemetryTypeOK
  LatestKept
  MotionTypeOK
  NewestWins
  UnderstoodAsAsked
  ReportedAsIs
PROPERTIES
  NeverOlder
  FoundInTheEnd
  RaceEnds
  EventuallyYielded
  ImplementsFeed
CHECK_DEADLOCK FALSE
