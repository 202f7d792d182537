CONSTANTS
  u1 = u1
  u2 = u2
  g1 = g1
  None = None
  Users <- MCUsers
  Groups <- MCGroups
  MaxMsg <- MCMaxMsg
SPECIFICATION Spec
INVARIANTS
  MisuseExplained
  ShownInOrder
PROPERTIES
  LostBehindWindow
  CallbackReturns
CHECK_DEADLOCK FALSE
