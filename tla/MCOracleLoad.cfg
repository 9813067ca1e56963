SPECIFICATION Spec
CONSTANTS
  Files <- MCFiles
  Options <- MCOptions
  MaxCommits = 2
  MaxConcurrency = 2
INVARIANTS LoadIsOnce LineIsNamed
