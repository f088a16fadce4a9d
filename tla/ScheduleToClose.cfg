SPECIFICATION Spec
CONSTANTS
  None = None
  Unparsable = Unparsable
  Infinite = Infinite
  Tenth = 1
  Margin = 10
  Latency = 0
  MaxCrashes = 1
  MaxCalls = 1
  Policy <- OptInPolicy
  Handles <- ScheduleToCloseOnly
  ServerErrors <- MCServerErrors
INVARIANT
  ClientFirstAtAnyDeadline
