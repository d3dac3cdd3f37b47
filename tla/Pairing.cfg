SPECIFICATION Spec
CONSTANTS
  Nodes = {a, b}
  None = None
  Discovery = TRUE
SYMMETRY Symmetry
INVARIANTS
  TypeOK
  PairingsSurvive
  TrustIsAskedFor
  TrustedPeerIsRecorded
