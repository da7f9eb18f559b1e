CONSTANTS
  Ids = {1, 2}
  SortKeys = {1, 2}
  NoCursor = NoCursor
  Absent = Absent
  Flawed = {2}
  LimitCeiling = 3
  PageLimitMax = 2
SPECIFICATION FairSpec
PROPERTIES WalkEnds OnlyUnfitHoldsBack
