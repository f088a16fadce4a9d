SPECIFICATION Spec
CONSTANTS
  None = None
  Unparsable = Unparsable
  Infinite = Infinite
  Tenth = 1
  Margin = 10
  Latency = 1
  MaxCrashes = 1
  Policy <- MCPolicy
  Handles <- MCHandles
  ServerErrors <- MCServerErrors
  Waits <- MCWaits
INVARIANTS
  TypeOK
  AtMostOnce
  TruthfulOutcome
  ClientGivesUpFirst
  TimeoutWithinOneInterval
PROPERTIES
  QuietAfterEnd
  CompletionNotMissed
  Terminates
  ImplementsMemoryWrite
  ImplementsWriteLoop
