\* One subscriber, stalled or reading, and a clock that may stand still.
CONSTANTS
  Capacity = 2
  Words = 2
  Total = 4
  Snapshots = {2}
  Ts <- MCTs
  Subs = {s1}
  Modes = {"block", "drop"}
  Starts <- MCAllStarts
  Watchdog = TRUE
  BareCancel = FALSE
SPECIFICATION LiveSpec
INVARIANT CanceledIsOffTheBarrier

CHECK_DEADLOCK FALSE
PROPERTIES RequestsAreAnswered WatchdogFreesWriter ReadersFinish
