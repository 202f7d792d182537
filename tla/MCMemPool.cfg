SPECIFICATION PoolSpec
CONSTANTS
  ChunkSize = 6
  Modulus = 16
  Requests <- MCRequests
  FirstWords <- MCFirstWords
  MaxHeld = 4
  MaxChunks = 2
INVARIANTS
  Disjoint
  RoomIsKept
  UnknownOnlyAfterReplacement
CHECK_DEADLOCK FALSE
