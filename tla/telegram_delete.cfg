SPECIFICATION SendSpec
CONSTANTS
  Orders <- MCOrders
  Batches = {{1, 3}}
  Refs = {"r"}
  MaxTries = 2
  MaxTrouble = 1
CHECK_DEADLOCK FALSE
INVARIANTS
  SuccessMeansDeleted
