SPECIFICATION Spec
CONSTANTS
  Service = {s1, s2}
  Id = {a, b}
  Grace = {0, 1}
  Batch = {{a}, {b}}
  Synced = TRUE
  MaxClock = 1
  MaxCrashes = 0
SYMMETRY Symmetry
INVARIANT NoResurrection
