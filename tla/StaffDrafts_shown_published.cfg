SPECIFICATION Spec
CONSTANTS
  Ids = {k1, k2}
  Local = local
  Names = {"ann"}
  MaxPresses = 6
  MaxLost = 0
  None = None
INVARIANTS
  PublishedTold
CHECK_DEADLOCK FALSE
