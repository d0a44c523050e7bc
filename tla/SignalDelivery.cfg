SPECIFICATION FairSpec
CONSTANTS
  s1 = s1
  s2 = s2
  buy = buy
  avoid = avoid
  Symbols = {s1, s2}
  Categories = {buy, avoid}
  Findings <- Found
  Clients = {c1}
  MaxPolls = 2
  MaxTime = 2
INVARIANTS
  TypeOK
  PassesOnlyAnnounced
  AlertedOnce
PROPERTIES
  CursorNeverRegresses
  RunIsAnnounced
CHECK_DEADLOCK FALSE
