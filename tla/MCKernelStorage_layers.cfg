SPECIFICATION Spec
CONSTANTS
  MAX_FILE_CHUNK_SIZE = 2
  Ids = {"alpha", "beta"}
  Fields = {"a"}
  Values <- MCValues
  Absent = Absent
  MaxDepth = 3
  MaxCrashes = 1
INVARIANTS
  NoLeftovers
PROPERTIES
  ImplementsTransactions
CHECK_DEADLOCK FALSE
