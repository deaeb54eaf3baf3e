\* Three subscribers that join, leave, read on or stall while the writer waits.
CONSTANTS
  Subs = {s1, s2, s3}
  Timeout = 2
  MaxTime = 6
SPECIFICATION Spec
INVARIANTS SlipIsTimeParked
PROPERTY FullTimeout
CHECK_DEADLOCK FALSE
