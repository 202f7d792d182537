CONSTANTS
  h1 = h1
  h2 = h2
  h3 = h3
  h4 = h4
  Nothing = Nothing
  Signs <- MCSigns
  Hosts <- MCHosts
  Networks <- MCNetworks
  Legacy <- MCLegacy
  ProfilesOf <- MCProfilesOf
  GroupsOf <- MCGroupsOf
  Nicknames <- MCNicknames
  Texts <- MCTexts
  NameRoom = 3
  TextRoom = 30
  BodyRoom = 51
  Prefix = 0
  Block = 2
  MaxPosts = 1
  MaxBoots <- MCMaxBoots
SPECIFICATION ProtocolSpec
INVARIANTS
  KnownAsAnnounced
  TextAsSent
  GarbledOnlyAcrossRestart
  OverrunExplained
CHECK_DEADLOCK FALSE
