SPECIFICATION UnnamedSpec
CONSTANTS
  None = None
  Unparsable = Unparsable
  Infinite = Infinite
  Tenth = 1
  Margin = 10
  Latency = 1
  MaxCrashes = 0
  Policy <- MCPolicy
  Handles <- MCHandles
  ServerErrors = {}
  Waits <- MCWaits
INVARIANT
  NotFoundIsGone
