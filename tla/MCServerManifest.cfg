\* Two Block clients, and nothing fails.
CONSTANTS
  c = c
  d = d
  Clients = {c, d}
  Setups <- MCUnwatched
  Capacity = 2
  Total = 3
SPECIFICATION Spec
INVARIANT ManifestCountsEveryone
CHECK_DEADLOCK FALSE
