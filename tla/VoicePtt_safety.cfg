SPECIFICATION FairSpec
CONSTANTS
  c1 = c1
  c2 = c2
  k1 = k1
  Nobody = Nobody
  Clients <- MCClients
  Keyers <- MCKeyers
  Scenarios <- MCAll
  MaxCommands = 3
  MaxLost = 1
CHECK_DEADLOCK FALSE
INVARIANTS
  TypeOK
  KeyedMeansHeld
  ClaimsTruth
  HeldMeansKeyed
PROPERTIES
  NoCutOff
  LetGo
