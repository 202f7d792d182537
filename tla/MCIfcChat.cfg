SPECIFICATION Spec
SYMMETRY Symmetry
CONSTANTS
  u = u
  v = v
  Users <- MCUsers
  None = None
  MaxMsgs = 3
  MaxWindows = 2
INVARIANTS
  ListIntact
  FreedOnlyByOverlap
  BlinksWhileUnread
  Delivered
CHECK_DEADLOCK FALSE
