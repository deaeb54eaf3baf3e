\* Both clocks, every speed of the small terms, windows of every size.
CONSTANTS
  Width = 5
  MaxSpeedTerm = 3
  MaxSpeedUp = 3
  MaxSlowdown = 2
  Terms <- MCTerms
  Streams <- MCStreams
  Probes = {1, 2, 5}
  Windows = {1}
  MinWindow = 2
  MaxWindow = 3
  MaxSlice = 2
  Others = {1}
  MaxTime = 6
SPECIFICATION Spec
INVARIANTS ScheduleIsExact
PROPERTIES NeverEarly StopEndsWait DueIsReleased
CHECK_DEADLOCK FALSE
