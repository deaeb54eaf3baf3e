\* One subscriber, every mode and start, every way to stop it.
CONSTANTS
  Capacity = 2
  Words = 2
  Total = 5
  Snapshots = {1, 4}
  Indexes <- MCIndexes
  Ts <- MCTs
  Subs = {s1}
  Modes = {"block", "drop"}
  Starts <- MCStarts
  Watchdog = TRUE
  BareCancel = TRUE
SPECIFICATION Spec
INVARIANTS TypeOK NoTornDelivery BlockNeverLapped BlockNoLoss GapMeansLapped CleanEndMissesNothing
PROPERTIES EvictionIsFinal ImplementsFeed
CHECK_DEADLOCK FALSE
