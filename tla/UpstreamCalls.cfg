SPECIFICATION CallsFairSpec
CONSTANTS
  Calls = {c1, c2, c3}
  Threshold = 5
  Cooldown = 2
  MaxAttempts = 3
INVARIANTS
  CallsTypeOK
  BreakerConsistent
PROPERTIES
  CooldownRespected
  Recovers
