CONSTANTS
  Workers = {w1}
  Last = 3
  Size <- MCSize
  Capacity = 2
  Faults = {"lost"}
  MaxFaults = 1
  LoopBreaker = 5

SPECIFICATION Spec

INVARIANTS
  AllOrNothing
