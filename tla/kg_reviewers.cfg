SPECIFICATION Spec
CONSTANTS
  c1 = c1
  c2 = c2
  c3 = c3
  Candidate <- MCCandidate
  Name <- MCName
  NoName = "none"
  Offered <- MCOffered
  Reviewer = {1, 2}
  EntityId <- IgnoringCase
  Accepts <- BothWays
  Asserted <- TwoAsserted
  Ended <- OneEnded
  Direct = TRUE
  MaxCrashes = 1
INVARIANT AcceptedIsWritten
PROPERTY ReviewedForGood
