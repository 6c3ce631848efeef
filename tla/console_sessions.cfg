SPECIFICATION FairSpec
CONSTANTS
  Requests = {r1, r2}
  Rows = {x1}
  SessionTTL = 1
  MaxSessions = 2
  MaxTime = 2
INVARIANTS
  SessionInv
  LoginsBoundTheMap
PROPERTIES
  ChangesAreAuthorised
  EndOfSessionTakesEffect
  SignalEndsServer
