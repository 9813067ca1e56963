CONSTANTS
  Ids = {1, 2}
  NoId = 0
  MaxLines = 2
  FreshIds = TRUE
  Unencodable = FALSE
SPECIFICATION Spec
INVARIANTS InFlightIsRegistered
