CONSTANTS
  Secrets <- MCSecrets
  Production = TRUE
  Clients = {c1}
  Paths = {p1, p2}
  Limit = 2
  Window = 2
  MaxStarts = 2
SPECIFICATION Spec
INVARIANT WritableRefused
