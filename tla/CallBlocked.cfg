SPECIFICATION FairSpec
CONSTANTS
  Dialers = {}
  LinkFaults = FALSE
  Whitelist = {"w"}
  Strangers = {"s"}
  Hidden = ""
  MaxUrcs = 1
PROPERTY BlockedCallRejected
CHECK_DEADLOCK FALSE
