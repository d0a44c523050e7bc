SPECIFICATION FairSpec
CONSTANTS
  Ticks = {t1, t2}
  Unchecked = {}
  LastDay = 2
  Trading = {1}
INVARIANTS
  OneRunPerDay
  RunsOnOwnData
PROPERTY RunsWhenReady
