SPECIFICATION FairSpec
CONSTANTS
  u1 = u1
  u2 = u2
  Uploads = {u1, u2}
  Size <- MCSize
INVARIANTS
  TypeOK
  CompleteIsWhole
  FailedIsNotDelivered
  ProgressIsReal
PROPERTIES
  UploadEnds
  IsDelivery
CHECK_DEADLOCK FALSE
