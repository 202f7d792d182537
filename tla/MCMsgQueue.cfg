CONSTANTS
  p1 = p1
  m1 = m1
  m2 = m2
  m3 = m3
  Junk = Junk
  Size <- MCSize
  Data <- MCData
  Producers <- MCProducers
SPECIFICATION FairSpec
INVARIANTS
  RaceFree
PROPERTIES
  ImplementsFairFifo
