\* The documented use: no direct join or leave is in flight at StartEmitting.
CONSTANTS
  Capacity = 2
  Total = 5
  Subs = {s1, s2, s3}
  Quiescent = TRUE
SPECIFICATION Spec
INVARIANTS AcceptedNeverLapped LeftStaysLeft
CHECK_DEADLOCK FALSE
