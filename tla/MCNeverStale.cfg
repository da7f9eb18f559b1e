CONSTANTS
  MaxAge = 2
  Pinned = TRUE
  Tags = {t1}
  None = None
SPECIFICATION Spec
INVARIANT NeverStale
