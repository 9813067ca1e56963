\* A diagram of every small database, from the walk to the placement.
CONSTANTS
  Tables <- MCTables
  Source = 1
  Databases <- MCDatabases
  MaxDepth = 3
SPECIFICATION Spec
INVARIANTS
  EveryTableOnce
  EveryPairJoined
  EdgesTellTheirKey
  JoinedAreApart
  PartsKeepTheirSide
  BoxesKeepTheirDistance
  EveryBoxCanAnchor
PROPERTIES
  SwapsPay
  EveryDiagramEnds
