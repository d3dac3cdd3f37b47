SPECIFICATION Spec
CONSTANTS
  self = self
  m1 = m1
  m2 = m2
  Self = self
  Peers = {m1, m2}
  None = None
  Local <- MCLocal
  Layouts <- MCLayouts
  Deltas <- MCDeltas
  Capacity = 1
  EdgeMargin = 1
  Inset = 1
INVARIANTS
  TypeOK
  RemoteCursorInBounds
  

  
