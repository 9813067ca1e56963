CONSTANTS
  Conns = {c1}
  c1 = c1
  c2 = c2
  Catalog <- SmallCatalog
  Asked <- TableCalls
  MaxConcurrency = 2
  MaxVersion = 1
  PersistMayFail = TRUE
  Unread = Unread
SPECIFICATION Spec
INVARIANTS ResetReaches ResetOutlivesSession
