CONSTANTS
  r1 = r1
  r2 = r2
  r3 = r3
  Requests <- RequestsThree
  MaxConcurrency = 1
  IdleTimeout = TRUE
  MaxCancels = 2
SPECIFICATION Spec
INVARIANTS TypeOK SlotAccounting QueueIsExact IdleIsWatched
PROPERTIES NoOvertaking EveryRequestFinishes IdleCloses DisconnectSticks
