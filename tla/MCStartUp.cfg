SPECIFICATION FairSpec
CONSTANTS
  Tables <- FourTables
  Commands <- ThreeCommands
  Rows <- TwoRows
  AbortReturns = {FALSE, TRUE}
  MaxFaults = 2
  MaxEdits = 2
INVARIANTS
  ServedWhenSetUp
  PrintedIsWhole
PROPERTIES
  ServesInTheEnd
