\* One caller beside the link task, a parser that is replaced once.
SPECIFICATION FairSpec
CONSTANTS
  Callers = {"btn"}
  MaxParsers = 2
  MaxOwed = 2
INVARIANTS
  TypeOK
  HandlerHasItsSender
  FreedAtRest
  GlobalNotLeftDangling
PROPERTIES
  KeepsPromise
  CommandEnds
  DestroyEnds
\* The model stops where behaviour becomes undefined.
CHECK_DEADLOCK FALSE
