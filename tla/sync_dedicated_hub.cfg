CONSTANTS
  x = x
  y = y
  z = z
  Node <- MCNode
  Hub <- MCHub
  Id <- MCId
  Editable <- SharedId
  Drift <- FirstAhead
  SoleWriter = TRUE
  Quiet = TRUE
  Graceful = FALSE
  MaxWrites = 3
  MaxFaults = 1
SPECIFICATION Spec
INVARIANTS VersionUnique HubSound
PROPERTIES Implements StoreMonotone
