SPECIFICATION FairSpec
CONSTANTS
  Callers = {"btn"}
  MaxParsers = 2
  MaxOwed = 2
INVARIANT NoUseAfterFree
CHECK_DEADLOCK FALSE
