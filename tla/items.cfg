\* Either kind of server.
SPECIFICATION FairSpec
CONSTANTS
  u1 = u1
  u2 = u2
  i1 = i1
  None = None
  User <- UserValue
  Item <- ItemValue
  MaxWraps = 2
  MaxCalls = 3
  MaxDraws = 6
INVARIANTS
  TypeOK
  ReadersCanRead
  FormerReadersAreShutOut
PROPERTIES
  RotationCompletes
  MigrationIsFinal
  ImplementsSharedItems
\* Calls are bounded, so the system stops.
CHECK_DEADLOCK FALSE
