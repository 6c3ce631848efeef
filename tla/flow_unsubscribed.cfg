CONSTANTS
  m1 = m1
  m2 = m2
  a1 = a1
  a2 = a2
  Messages = {m1, m2}
  Addresses = {a1}
  To <- MCSingleTo
  MaxAttempts = 1
SPECIFICATION FairSpec
PROPERTY NoMailAfterUnsubscribe
CHECK_DEADLOCK FALSE
