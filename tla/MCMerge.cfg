\* No pool, one worker and two; two shapes of a batch; with and without a seek.
CONSTANTS
  Datasets <- MCDatasets
  SeekTimes = {0, 2}
  SentinelKey <- MCSentinel
  BlockRecs = 2
  Shapes <- MCShapes
  WorkerCounts = {0, 1, 2}
SPECIFICATION Spec
INVARIANTS PrefixOfMerge StopsWhereTheInputSays NoBatchIsShared FilesOutliveDecoding
PROPERTY AlwaysCloses
CHECK_DEADLOCK FALSE
