CONSTANTS
  a = a
  b = b
  sword = sword
  token1 = token1
  token2 = token2
  arms = arms
  token = token
  Players = {a, b}
  Items = {sword, token1, token2}
  Spells = {enchant}
  TradedSlots = 2
  MaxMoney = 1
  Prices = {0, 1}
  Room <- MCRoom
  Kinds = {arms, token}
  Kind <- MCKind
  Limit <- MCLimit
  Pack <- MCPack
  MaxSpoiled = 1
  BoundTo <- MCBoundTo
  Nobody = Nobody
  Nothing = Nothing

SPECIFICATION Spec

SYMMETRY MCSymmetry

INVARIANTS
  Paired

PROPERTIES
  BoundStaysBound
  ImplementsExchange
