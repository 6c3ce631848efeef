CONSTANTS
  Domains = {a}
  Checkers = {c1}
  Operators = {o1}
  BatchSize = 1
  MaxTokens = 1
  MaxMonths = 0
  MaxZoneChanges = 1
  MaxFaults = 0
  Nobody = Nobody
SPECIFICATION FairSpec
PROPERTY PublishedProofVerifies
CHECK_DEADLOCK FALSE
