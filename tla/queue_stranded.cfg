SPECIFICATION FairSpec
CONSTANTS
  Workers = {w1, w2}
  MessageCount = 1
  BatchSize = 1
  MaxAttempts = 2
  MaxPerHour = 0
  MaxFaults = 1
PROPERTIES
  ExpiredLockIsRetried
