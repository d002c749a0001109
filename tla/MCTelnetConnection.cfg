SPECIFICATION FairConnSpec
CONSTANTS
  Plain <- Letters
  Names <- Command
  Streams <- Sentences
  MaxWords = 3
  BufferSize = 6
  MaxReceived = 7
  MaxSplit = 3
  InitialCapacity = 1
  Slack = 1
  SizeWidth = 3
  Strays = {}
INVARIANTS
  TypeOK
  DataIsStripped
  CommandsAreRefused
  ServedInOrder
PROPERTIES
  SegmentIsHandled
