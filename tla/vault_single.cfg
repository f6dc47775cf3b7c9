SPECIFICATION Spec
CONSTANTS
  Service = {s1}
  Id = {a, b}
  Grace = {0, 1}
  Batch = {{a}, {b}}
  Synced = FALSE
  MaxClock = 3
  MaxCrashes = 2
INVARIANTS HidesTombstoned
PROPERTIES GraceHonoured DeleteHolds
