SPECIFICATION Spec
CONSTANTS
  Callers = {c1, c2, c3}
  Budget = 2
  Reserve = 1
  LastDay = 2
  MaxCalls = 3
  MaxLost = 1
SYMMETRY CallerSymmetry
INVARIANTS
  TypeOK
  GrantsWithinCeilings
  CountExact
  CounterExpires
PROPERTY
  QuotaRefinement
CHECK_DEADLOCK FALSE
