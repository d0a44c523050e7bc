SPECIFICATION FairSpec
CONSTANTS
  Ticks = {t1, t2}
  Unchecked = {}
  LastDay = 1
  Trading = {1}
PROPERTY FlaggedDayCompletes
