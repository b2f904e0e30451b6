CONSTANTS
  Kinds <- MCKinds
  MaxPackets = 3

SPECIFICATION SessionSpec

INVARIANTS
  NoUseAfterDelete
  OnePlayer
  NoStaleLogoutRequest

PROPERTIES
  UpdateTerminates
  NoHeadOfLineBlocking
