CONSTANTS
  Files <- MCFiles
  Nicknames <- MCNicknames
  ReadBack <- MCReadBack
  TooLong <- MCTooLong
  Part = "part"
  Unset = Unset
  NoDocument = NoDocument
  MaxStarts = 3
  MaxRenames = 3
SPECIFICATION SettingsSpec
INVARIANTS
  
  
  UndefinedExplained
CHECK_DEADLOCK FALSE
