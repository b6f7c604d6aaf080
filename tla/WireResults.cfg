SPECIFICATION WireSpec
CONSTANTS
  MaxSends = 4
  MaxSeq = 4
  Float32 <- MCFloat32
  Vectors <- MCVectors
  JointVectors <- MCJointVectors
  Floats <- MCFloats
  Moves <- MCMoves
  Numbers <- MCNumbers
  EnumCodes <- MCEnumCodes
  ResultCodes <- MCResultCodes
  Texts <- MCTexts
  ArmReadings <- MCArmReadings
INVARIANTS
  RaisesFromTen
CHECK_DEADLOCK FALSE
