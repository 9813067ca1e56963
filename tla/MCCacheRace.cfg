CONSTANTS
  Conns = {c1}
  c1 = c1
  c2 = c2
  Catalog <- SmallCatalog
  Asked <- FewCalls
  MaxConcurrency = 2
  MaxVersion = 1
  PersistMayFail = FALSE
  Unread = Unread
SPECIFICATION Spec
INVARIANTS ResetIsFinal
