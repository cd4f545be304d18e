\* Three workers, or one, and up to four blocks: shares of two, one and one block; calls
\* of fewer blocks leave workers without any.  The destructor may come between
\* calls and the constructor may fail, so the pool may really stop.
SPECIFICATION FairSpec
CONSTANTS
  Callers = {c1, c2}
  Count = 3
  MaxBlocks = 4
  MaxCalls = 2
  MayStop = TRUE
INVARIANTS
  WorkersQuietBetweenCalls
PROPERTIES
  CallsAreAnswered
CHECK_DEADLOCK FALSE
