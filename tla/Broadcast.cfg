SPECIFICATION Spec
CONSTANTS
  Conns = {c1, c2}
  Calls = {k1, k2}
  Buffers = {b1, b2, b3}
  MaxPackets = 2
SYMMETRY Symmetry
INVARIANTS
  TypeOK
  FanOut
  OneOwner
