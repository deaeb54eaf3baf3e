\* Two clients, three records in a ring of two: a late Block client can be lapped.
CONSTANTS
  c = c
  d = d
  Clients = {c, d}
  Setups <- MCSetups
  Capacity = 2
  Total = 3
SPECIFICATION FairSpec
INVARIANT FilesOutliveTheRun StatusIsTrue CloseReportsTheRun
PROPERTY StreamsEnd ShutdownCompletes
CHECK_DEADLOCK FALSE
