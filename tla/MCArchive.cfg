SPECIFICATION Spec
CONSTANTS
  Rows <- MCRows
  NanosPerDay = 2
  EpochEvery = 2
  MaxVenue = 8
  MaxSeq = 5
  MaxRows = 4
  MaxRerun = 3
  MaxRuns = 2
  MaxFaults = 1
  MaxCrashes = 1
INVARIANT FilesPartitionTheVenue EpochIsTheBook CadenceHolds WarmUpFindsTheBook AllOrNothing
PROPERTY OldFilesSurvive
CHECK_DEADLOCK FALSE
