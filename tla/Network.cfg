\* A cooldown of three rounds instead of thirty, two good tests to come back
\* instead of three.
SPECIFICATION FairSpec
CONSTANTS
  CooldownRounds = 3
  RequiredRecovery = 2
INVARIANTS
  TypeOK
  NeverBothActive
PROPERTIES
  SteadyLinkKept
  RouteRealigned
  FailsOver
  ReturnsToWifi
