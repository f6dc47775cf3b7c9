CONSTANTS
  x = x
  y = y
  z = z
  Node <- MCNode
  Hub <- MCHub
  Id <- MCId
  Editable <- DedicatedHub
  Drift <- InStep
  SoleWriter = TRUE
  Quiet = TRUE
  Graceful = FALSE
  MaxWrites = 3
  MaxFaults = 0
SPECIFICATION Spec
PROPERTY PullDelivers
