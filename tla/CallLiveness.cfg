\* The link stays up, so that a task that never ends does so by its own fault.
SPECIFICATION FairSpec
CONSTANTS
  Dialers = {}
  LinkFaults = FALSE
  Whitelist = {"w"}
  Strangers = {}
  Hidden = ""
  MaxUrcs = 1
PROPERTIES
  JobsGetOn
  TasksReturn
  RingingEnds
\* With nobody calling and nobody pressing a key the phone rests.
CHECK_DEADLOCK FALSE
