SPECIFICATION Spec
CONSTANTS
  FdLimit = 3
  Addrs = {a1, a2}
  NoAddr = NoAddr
  Segments <- DataOnly
  CommandLists <- OneCommand
  MaxSegments = 1
  Window = 1
SYMMETRY AddrSymmetry
INVARIANTS
  MemorySafeUntilTeardown
  RecordHasOneOwner
  SocketsAreRegistered
  LockHeldByWorker
  HolderIsStoppedByPeerOnly
PROPERTIES
  ShutByOwnThreads
