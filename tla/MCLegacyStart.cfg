CONSTANTS
  Users = {u1, u2, u3}
  Categories = {c1, c2}
  Nobody = Nobody
  MaxMessages = 4
SPECIFICATION Spec
INVARIANTS
  FaultExplained
  RowsExplained
  ThreadsApart
  BlinksWhileUnread
PROPERTIES
  CloseEnds
