SPECIFICATION Spec
CONSTANTS
  Keys <- MCKeys
  Levels <- MCLevels
  MaxLevels = 2
  MaxRecordCount = 3
  BlockSizeRecords = 2
  BufCells = 2
  MaxWrites = 4
  MaxLives = 2
  MaxFaults = 2
  MaxCrashes = 1
INVARIANT OpensOnlyWhole ClosedFileOpens NothingIsLeftBehind SeeksAreExact
CHECK_DEADLOCK FALSE
