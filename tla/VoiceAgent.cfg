SPECIFICATION FairSpec
CONSTANTS
  MaxReconnectFails = 3
  Slots = {s1, s2}
INVARIANTS
  TypeOK
  ReconnectIsSafe
  JoinedIsLoggedIn
  StopTakesAgentDown

  
