\* Up to two packages from the client, three from the server, and more calls
\* sent again: losses, duplicates, any order of reception, no wrap of the ids.
SPECIFICATION FairSpec
CONSTANTS
  Client = client
  Server = server
  MaxSeqId = 15
  NumAcks = 3
  IntBits = 4
  MaxPackages <- PackagesOfEach
  MaxRpcs <- RpcsOfEach
  ClientPackages = 2
  ServerPackages = 3
  ClientRpcs = 1
  ServerRpcs = 2
INVARIANTS
  TypeOK
  RpcAccountedFor
  MemoryInOrderOfSending
  MemoryMatchesWire
  ResentOnlyAfterTimeout
PROPERTIES
  ImplementsRpcChannel
  AckWindowKept
  LoopEnds
  RunHandlesTimedOut
CHECK_DEADLOCK FALSE
