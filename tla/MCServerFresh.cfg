CONSTANTS
  Ids = {1, 2, 3}
  NoId = 0
  MaxLines = 3
  FreshIds = TRUE
  Unencodable = FALSE
SPECIFICATION Spec
INVARIANTS DoneIsAnswered
PROPERTIES EveryLineAnswered CancelIsAnswered EndOfInputExits ImplementsService
