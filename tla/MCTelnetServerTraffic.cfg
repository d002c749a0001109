SPECIFICATION FairSpec
CONSTANTS
  FdLimit = 2
  Addrs = {a1, a2}
  NoAddr = NoAddr
  Segments <- DataTwice
  CommandLists <- Fetches
  MaxSegments = 1
  Window = 1
INVARIANTS
  IInv
PROPERTIES
  ReplyNeverKills
  Implements
  GoneIsCleanedUp
  DataIsHandled
  AcceptsAgain
  LeakEndsServer
