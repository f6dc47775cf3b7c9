SPECIFICATION TrackersSpec
CONSTANTS
  Repo = {r}
  StaleAfter = 3
  MaxEvents = 1
  MaxFaults = 2
  MaxUserEdits = 1
INVARIANT QuarantineEarned
CHECK_DEADLOCK FALSE
