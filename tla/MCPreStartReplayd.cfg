\* replayd: run is spawned while the next attach may be past the test.
CONSTANTS
  Capacity = 2
  Total = 5
  Subs = {s1, s2}
  Quiescent = FALSE
SPECIFICATION Spec
INVARIANT AcceptedNeverLapped
CHECK_DEADLOCK FALSE
