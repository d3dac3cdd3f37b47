SPECIFICATION BridgeSpec
CONSTANTS
  Peers = {p1}
  Conns = {c1, c2}
  Handlers = {h1}
  Consumer = consumer
  None = None
  Unresponsive = {}
  Platform = "darwin"
SYMMETRY Symmetry
INVARIANT
  CursorComesBack
