CONSTANTS
  x = x
  y = y
  z = z
  Node <- MCNode
  Hub <- MCHub
  Id <- ThreeIds
  Editable <- Disjoint
  Drift <- InStep
  SoleWriter = TRUE
  Quiet = FALSE
  Graceful = TRUE
  MaxWrites = 2
  MaxFaults = 1
SPECIFICATION FairSpec
INVARIANT AllSound
PROPERTIES PullDelivers Converges SessionEnds
