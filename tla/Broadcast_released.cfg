SPECIFICATION Spec
CONSTANTS
  Conns = {c1}
  Calls = {k1}
  Buffers = {b1, b2}
  MaxPackets = 1
SYMMETRY Symmetry
INVARIANTS
  ReleasedAfterSent
