SPECIFICATION Spec
CONSTANTS
  Rows <- MCDayRows
  NanosPerDay = 9
  EpochEvery = 2
  MaxVenue = 8
  MaxSeq = 5
  MaxRows = 4
  MaxRerun = 0
  MaxRuns = 1
  MaxFaults = 0
  MaxCrashes = 0
INVARIANT WarmUpReconstructsTheBook
CHECK_DEADLOCK FALSE
