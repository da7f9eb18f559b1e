SPECIFICATION Spec
CONSTANTS
  Requests = {r1, r2}
  PoolSize = 1
  MaxOverflow = 1
  Served = {"health", "ready", "list", "item", "unknown"}
  MaxStatements = 2
SYMMETRY Symmetry
INVARIANTS
  TypeOK
  StatusTellsCause
  RepliesCarryTheirId
  ConnectionsReturned
PROPERTY ImplementsService
