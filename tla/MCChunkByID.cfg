SPECIFICATION ChunkSpec
CONSTANTS
  Row = {1, 2, 3}
  ChunkSize = 2
  MaxChanges = 0
  MaxVisits = 2
INVARIANTS
  ByIDAdvances
CHECK_DEADLOCK FALSE
