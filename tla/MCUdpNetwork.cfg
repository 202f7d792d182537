CONSTANTS
  NULL = NULL
  Junk = Junk
  Size <- MCSize
  MaxRecv <- MCMaxRecv
  MaxSend <- MCMaxSend
SPECIFICATION Spec
INVARIANTS
  NoNullPacket
  StopIsOrdered
PROPERTIES
  OrderKept
  AcceptedIsHandled
  ShutdownCompletes
CHECK_DEADLOCK FALSE
