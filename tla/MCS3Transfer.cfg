SPECIFICATION Spec
CONSTANTS
  Buckets = {"b1", "b2"}
  Rank <- MCRank
  Stores <- MCStores
  Commands <- MCCommands
  OtherSpots <- MCOtherSpots
  MaxOthers = 1
  BatchSize = 2
  None = None
INVARIANTS MoveLosesNothing DoneIsComplete
CHECK_DEADLOCK FALSE
