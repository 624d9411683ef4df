SPECIFICATION FairSpec
CONSTANTS
  Keys = {1, 2, 3}
  AnyOrder = {1, 2, 3}
  Twice = {}
  MaxRemoves = 2
  RemoveFrees = TRUE
  NULL = NULL
INVARIANT ObjectsOwned
CHECK_DEADLOCK FALSE
