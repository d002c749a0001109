SPECIFICATION Spec
CONSTANTS
  Bytes <- AllBytes
  Names <- ShortNames
  InitialCapacity = 1
  Slack = 1
  SizeWidth = 3
  Strays = {}
  MaxChunk = 4
  MaxReceived = 6
INVARIANTS
  TypeOK
  BufferFits
  TidyPeerIsServed
PROPERTIES
  NulDeafens
