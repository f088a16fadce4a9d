SPECIFICATION MappingSpec
CONSTANTS
  None = None
  Unparsable = Unparsable
  Infinite = Infinite
  Exceptions <- AnyErrors
INVARIANT EveryErrorSanitized
\* One call: the mapping runs once and the behaviour ends.
CHECK_DEADLOCK FALSE
