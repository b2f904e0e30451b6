CONSTANTS
  a1 = a1
  a2 = a2
  a3 = a3
  s1 = s1
  s1again = s1again
  s2 = s2
  s3 = s3
  NoSession = NoSession
  Accounts <- MCAccounts
  Sessions <- MCSessions
  AccountOf <- MCAccountOf
  Bypass <- MCBypass
  Limits = {1, 2, 3}
  Tolerance = 1
  RateNum = 147
  RateDen = 100
  MaxAdded = 1
  MaxTime = 0

SPECIFICATION Spec

INVARIANTS
  NoDanglingQueueEntry
  NobodyStranded
  PositionsKnown
  WorkConserving

PROPERTIES
  AdmissionWithinLimit
  NoOvertaking

CHECK_DEADLOCK FALSE
