SPECIFICATION FairSpec
CONSTANTS
  Cut = Cut  Garbage = Garbage
  Hits <- FourHits
  SourceOf <- FourSources
  PointsOf <- FourPoints
  MaxScoreEntries = 2
  MaxPending = 1
  MaxLines = 1
  MaxArchives = 1
  AgePruned = FALSE
  Faults <- Everything
  MaxRestarts = 1
INVARIANTS Mirrors LedgerIsDurable RestartKeepsScores
PROPERTY RecordSettles
CHECK_DEADLOCK FALSE
