SPECIFICATION CommandSpec
CONSTANTS
  Bytes <- SmallBytes
  Values <- TwoValues
  Sizes = 10
  Strays = {0, 1, 2, 4, 8, 9}
  MaxCards = 10
  Typed <- TypedBytes
  Safe <- SafeBytes
  Hex <- HexDigits
  Arguments <- UpToThree
  HostLen = 24
  MaxPath = 24
INVARIANTS
  AddressInBounds
  AsksForTheArgument
  CopyIsReplaced
  CopyInBounds
  TextFits
