SPECIFICATION FairSpec
CONSTANTS
  Sizes = {2, 4}
  MaxRecord = 3
  MaxRead = 4
  MaxMessages = 3
INVARIANT
  TypeOK
PROPERTIES
  IsQueue
  AllArrive
CHECK_DEADLOCK FALSE
