SPECIFICATION Spec
CONSTANTS
  Nodes = {a, b}
  None = None
  Discovery = FALSE
SYMMETRY Symmetry
PROPERTY
  ManualPairingReachesPeer
