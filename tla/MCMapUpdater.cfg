CONSTANTS
  continent = continent
  dungeon = dungeon
  copy1 = copy1
  copy2 = copy2
  BaseMaps <- MCBaseMaps
  Instances <- MCInstances
  BaseOf <- MCBaseOf
  Workers = {w1, w2}
  QueueLimit = 2

SPECIFICATION Spec

INVARIANTS
  PendingExact
  BarrierHolds
  NoConcurrentUpdate
  NoUpdateOfDeletedMap

PROPERTIES
  UpdatedOncePerTick
  TickCompletes
  ShutdownCompletes
