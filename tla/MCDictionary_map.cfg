SPECIFICATION FairSpec
CONSTANTS
  Keys <- AllKeys
  AnyOrder <- SmallKeys
  Twice = {14}
  MaxRemoves = 6
  RemoveFrees = FALSE
  NULL = NULL
INVARIANTS TypeOK TreeShape RedBlackUntilRemoved FirstRemovalSafe ObjectsOwned
PROPERTIES  CallsReturn
CHECK_DEADLOCK FALSE
