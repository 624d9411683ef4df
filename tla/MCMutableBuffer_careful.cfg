SPECIFICATION FairSpec
CONSTANTS
  Units = {1, 2, 3}
  Capacity = 3
  MaxLen = 4
  Careful = TRUE
  NULL = NULL
  NoCall = NoCall
  NoReply = NoReply
INVARIANTS TypeOK ListIntact 
PROPERTIES  CallsReturn
CHECK_DEADLOCK FALSE
