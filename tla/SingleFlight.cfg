SPECIFICATION FairSpec
CONSTANTS
  Callers = {c1, c2}
  Free = Free
  Cached = TRUE
  MaxPolls = 3
  MaxVersion = 2
INVARIANTS
  TypeOK
  OneLeader
  NothingOlderThanPurge
PROPERTIES
  NoRegression
  NoStall
