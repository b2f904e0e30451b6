CONSTANTS
  Workers = {w1, w2}
  Last = 3
  Size <- MCSize
  Capacity = 2
  Faults = {"deadlock", "error", "lost"}
  MaxFaults = 3
  LoopBreaker = 5

SPECIFICATION Spec

INVARIANTS
  AtomicWhileConnected
  ReportsAreTrue
  InOrder

PROPERTIES
  EverySettles
