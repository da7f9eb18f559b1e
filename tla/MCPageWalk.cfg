CONSTANTS
  Ids = {1, 2, 3}
  SortKeys = {1, 2}
  NoCursor = NoCursor
  Absent = Absent
  Flawed = {2}
  LimitCeiling = 3
  PageLimitMax = 2
SPECIFICATION Spec
INVARIANTS TypeOK SettledRowsOnce PagesInOrder FullUnlessLast TotalAgrees
PROPERTIES CursorAdvances ImplementsFeed
