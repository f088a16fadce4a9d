SPECIFICATION MappingSpec
CONSTANTS
  None = None
  Unparsable = Unparsable
  Infinite = Infinite
  Exceptions <- FiniteHintErrors
INVARIANTS
  ListingMatchesVerdict
  HonoursHint
  CodeDecides
\* One call: the mapping runs once and the behaviour ends.
CHECK_DEADLOCK FALSE
