SPECIFICATION Spec
CONSTANTS
  SampleSize = 2
  ScanRows = 2
  PreviewRows = 2
  Null = Null
  Unwritable = {"lob"}
  Databases <- MCDatabases
  Searches <- MCSearches
  MaxListCalls = 5
  MaxFinds = 1
  MaxDescribes = 2
  Fold <- MCFold
  Upper <- MCUpper
  Bare <- MCBare
  Routed <- MCRouted
  Main = "main"
INVARIANTS FindIsExact FoundIsDescribed RememberedIsTrue KeysSeenFromBothEnds
CHECK_DEADLOCK FALSE
