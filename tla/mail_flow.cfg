CONSTANTS
  m1 = m1
  m2 = m2
  a1 = a1
  a2 = a2
  Messages = {m1, m2}
  Addresses = {a1, a2}
  To <- MCTo
  MaxAttempts = 2
SPECIFICATION Spec
INVARIANTS
  FlowInv
  OnlyFurtherRecipientsSlipThrough
CHECK_DEADLOCK FALSE
