SPECIFICATION Spec
CONSTANTS
  c1 = c1
  c2 = c2
  c3 = c3
  Candidate <- MCCandidate
  Name <- MCName
  NoName = "none"
  Offered <- MCOffered
  Reviewer = {1}
  EntityId <- IgnoringCase
  Accepts <- Invalidating
  Asserted <- MCCandidate
  Ended = {}
  Direct = FALSE
  MaxCrashes = 2
INVARIANTS ExclusiveKept ReplacedNotLost
