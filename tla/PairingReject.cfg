SPECIFICATION Spec
CONSTANTS
  Nodes = {a, b}
  None = None
  Discovery = TRUE
SYMMETRY Symmetry
INVARIANT
  RejectionStands
