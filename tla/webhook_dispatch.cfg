CONSTANTS
  Dispatchers = {d1, d2}
  Endpoints = {e1, e2}
  Events = {x1}
  BatchSize = 2
  MaxTries = 2
  MaxFaults = 2
  Nothing = Nothing
SPECIFICATION FairSpec
INVARIANTS
  DispatchInv
  GivesUpOnlyWhenSpent
  StrandedOnlyByFaults
PROPERTIES
  ImplementsLifecycle
  EveryDeliveryResolved
