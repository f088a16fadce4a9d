SPECIFICATION Spec
CONSTANTS
  None = None
  Unparsable = Unparsable
  Infinite = Infinite
  Tenth = 1
  Margin = 10
  Latency = 1
  MaxCrashes = 1
  MaxCalls = 1
  Policy <- OptInPolicy
  Handles <- AllHandles
  ServerErrors <- MCServerErrors
INVARIANTS
  ClientGivesUpFirst
  AtMostOncePerWrite
PROPERTY
  EveryCallReturns
