CONSTANTS
  Workers = {w1, w2}
  Chunk = 2
  Unit = 4
  MaxId = 5
  MaxInstances = 5
  Boots <- MCBoots

SPECIFICATION Spec

SYMMETRY MCSymmetry

INVARIANTS
  NextIsAvailable
  BitsExact
