SPECIFICATION FairSpec
CONSTANTS
  Answers <- SomeAnswers
  InitialSize = 4
  ReadSize = 6
  ByteRange = 3
  MayFail = TRUE
INVARIANTS
  TypeOK
  WritesInBounds
  ResponseIsWhole
  ResponseIsOfOneAnswer
PROPERTIES
  Returns
