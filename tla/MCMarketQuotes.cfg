CONSTANTS
  Quotes <- MCQuotes
  Window = 15
  None = None
SPECIFICATION FairQuoteSpec
INVARIANTS
  WindowHasTimer
PROPERTIES
  DueWindowEnds
  ChangesArePublished
CHECK_DEADLOCK FALSE
