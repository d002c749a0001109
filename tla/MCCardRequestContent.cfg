SPECIFICATION Spec
CONSTANTS
  Answers <- SomeAnswers
  InitialSize = 4
  ReadSize = 6
  ByteRange = 3
  MayFail = FALSE
INVARIANTS
  ContentIsReturned
