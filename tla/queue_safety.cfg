SPECIFICATION Spec
CONSTANTS
  Workers = {w1, w2}
  MessageCount = 2
  BatchSize = 2
  MaxAttempts = 2
  MaxPerHour = 0
  MaxFaults = 2
SYMMETRY WorkerSymmetry
INVARIANTS
  QueueInv
  ExclusiveDelivery
  OneVerdictEvent
  WebhookBackedByEvent
  SuppressedNeverSent
  StrandedOnlyByFaults
  SilentOnlyByFaults
PROPERTIES
  ImplementsLifecycle
