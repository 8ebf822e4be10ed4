SPECIFICATION MCSpec
CONSTANTS
  Nodes <- MCNodes
  Authorities = {"A", "B", "C"}
  FirstAuthority = "A"
  Paths = {"store", "next", "more"}
  Store = "store"
  MaxCommands = 2
  MaxFaults = 2
INVARIANTS AccessKept
PROPERTIES RequestsAimed ReportsTrue ReferenceLast
CHECK_DEADLOCK FALSE
