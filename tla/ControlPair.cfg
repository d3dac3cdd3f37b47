SPECIFICATION Spec
CONSTANTS
  a = a
  b = b
  d = d
  shift = shift
  None = None
  Machines = {a, b, d}
  Inputs = {shift}
  Conns = {c1, c2}
  OS <- MCOS
  Class <- MCClass
  Controls <- MCControls
  MaxWire = 2
SYMMETRY Symmetry
INVARIANTS
  TypeOK
  
  
