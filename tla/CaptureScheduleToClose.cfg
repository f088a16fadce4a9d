SPECIFICATION Spec
CONSTANTS
  None = None
  Tenth = 1
  Margin = 2
  Ceiling = 3
  Latency = 1
  Attempts = 3
  Backoff = 1
  MaxCrashes = 1
  Settings <- ScheduleToCloseOnly
INVARIANT
  CaptureWithinAttempt
