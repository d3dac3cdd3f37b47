SPECIFICATION Spec
CONSTANTS
  Launches = {l1, l2, l3, l4}
  MaxChanges = 4
  Absent = Absent
  Torn = Torn
SYMMETRY Symmetry
INVARIANTS
  TypeOK
  OneIdentity
  PairFits
  SavedSettingsKept
PROPERTY
  ConfigGoesForward
CHECK_DEADLOCK FALSE
