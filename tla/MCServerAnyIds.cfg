CONSTANTS
  Ids = {1, 2}
  NoId = 0
  MaxLines = 3
  FreshIds = FALSE
  Unencodable = TRUE
SPECIFICATION Spec
INVARIANTS OnlyNamedAreCancelled CancelIsFinal
