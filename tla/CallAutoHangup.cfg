SPECIFICATION FairSpec
CONSTANTS
  Dialers = {}
  LinkFaults = FALSE
  Whitelist = {"w"}
  Strangers = {"s"}
  Hidden = ""
  MaxUrcs = 1
PROPERTY AutoHangupEnds
CHECK_DEADLOCK FALSE
