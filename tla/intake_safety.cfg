SPECIFICATION Spec
CONSTANTS
  Handlers = {h1, h2}
  Keys = {k1, k2}
  SendScope = {k1}
  IdemKeys = {i1}
  NoIdem = NoIdem
  Bodies = {b1, b2}
  Scheduled = {b2}
  Addresses = {a1}
  To <- MCTo
  Quota = 1
  MaxCalls = 3
  MaxFaults = 1
  Nobody = Nobody
SYMMETRY HandlerSymmetry
CHECK_DEADLOCK FALSE
INVARIANTS
  IntakeInv
  AcceptanceIsAtomic
  AcceptedNamesItsMessage
  NoOrphanedClaim
  QuotaOvershootBounded
