CONSTANTS
  Requests = {r1, r2, r3}
  MaxConcurrency = 2
  Params = {date, timestamp}
  UserValues = {iso}
  Default = default
  LoadFormat = file
  None = None
  Rejects = TRUE
  MaxCancels = 1
  MaxSessions = 3
  MaxVersion = 1
SPECIFICATION Spec
CHECK_DEADLOCK FALSE
SYMMETRY Symmetry
INVARIANTS SettingsFollow CatalogIsCurrent
PROPERTIES RetryIsConfigured
