CONSTANTS
  MaxAge = 2
  Pinned = TRUE
  Tags = {t1, t2, t3}
  None = None
SPECIFICATION Spec
INVARIANTS TypeOK NeverStaleFirstHand ProbesAreLive OutagesAreNotKept
