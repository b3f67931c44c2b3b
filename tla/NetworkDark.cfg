SPECIFICATION Spec
CONSTANTS
  CooldownRounds = 3
  RequiredRecovery = 2
INVARIANT OneActive
