CONSTANTS
  Domains = {a, b}
  Checkers = {c1, c2}
  Operators = {o1}
  BatchSize = 2
  MaxTokens = 2
  MaxMonths = 1
  MaxZoneChanges = 2
  MaxFaults = 1
  Nobody = Nobody
SPECIFICATION FairSpec
INVARIANTS
  TrustInv
  OutageNeverSuspends
PROPERTY LapsedProofEndsTrust
CHECK_DEADLOCK FALSE
