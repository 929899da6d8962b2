CONSTANTS
  d1 = d1
  d2 = d2
  d3 = d3
  Dockerds = {d1, d2, d3}
  Interval = 3
  NoDockerd = NoDockerd
SPECIFICATION FairSpec
INVARIANTS
  TypeOK
  QueueMatchesHealth
  SilenceIsBounded
  TurnsAreFair
PROPERTIES
  FreshIsKept
  ImplementsMembership
  SilentIsDropped
