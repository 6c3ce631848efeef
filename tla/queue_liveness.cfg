SPECIFICATION FairSpec
CONSTANTS
  Workers = {w1, w2}
  MessageCount = 3
  BatchSize = 1
  MaxAttempts = 1
  MaxPerHour = 1
  MaxFaults = 1
INVARIANTS
  CeilingOvershootBounded
PROPERTIES
  EveryMessageResolved
  
