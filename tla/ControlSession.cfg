SPECIFICATION Spec
CONSTANTS
  Peers = {p1, p2}
  Conns = {c1, c2}
  Handlers = {h1}
  Consumer = consumer
  None = None
  Unresponsive = {}
SYMMETRY Symmetry
INVARIANTS
  TypeOK
  NoStrandedSuppression
  SessionOwnsOpenConnection
  BannerNamesControlledPeer
PROPERTY
  WireProtocol
