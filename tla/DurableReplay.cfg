SPECIFICATION Spec
CONSTANTS
  Waits <- MCWaits
  Statuses <- MCStatuses
  Lasts = {1, 2}
  Lags = {0, 2}
  MaxCrashes = 1
INVARIANTS
  TypeOK
  ReplayFaithful
  EnqueuedOnce
  SleepsWithinMaxWait
  PollsBounded
PROPERTIES
  Completes
  ImplementsWriteLoop
