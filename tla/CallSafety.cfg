\* One dialling task besides the keys (the timer task's delayed call), one
\* listed and one unlisted number, link faults.
SPECIFICATION Spec
CONSTANTS
  Dialers = {"tmr"}
  LinkFaults = TRUE
  Whitelist = {"w"}
  Strangers = {"s"}
  Hidden = ""
  MaxUrcs = 1
INVARIANTS
  TypeOK
  RingingIsTimed
  AmpOffOnlyWhileSwitching
  ExchangeIsExclusive
  NoStandstill
PROPERTY KeepsCallPromise
\* With nobody calling and nobody pressing a key the phone rests.
CHECK_DEADLOCK FALSE
