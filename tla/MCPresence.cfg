CONSTANTS
  h1 = h1
  h2 = h2
  h3 = h3
  Hosts <- MCHosts
  Legacy <- MCLegacy
  UserName <- MCUserName
  Networks <- MCNetworks
  MaxAnnounce = 1
SPECIFICATION FairSpec
INVARIANTS
  MissedOnlyAfterRestart
  AtMostOneAnswer
PROPERTIES
  FirstRunDiscovery
CHECK_DEADLOCK FALSE
