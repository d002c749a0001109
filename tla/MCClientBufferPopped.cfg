SPECIFICATION Spec
CONSTANTS
  Bytes <- AllBytes
  Names <- ShortNames
  InitialCapacity = 1024
  Slack = 10
  SizeWidth = 8
  Strays = {}
  MaxChunk = 4
  MaxReceived = 6
PROPERTY UsedBytesArePopped
