SPECIFICATION Spec
CHECK_DEADLOCK FALSE
CONSTANTS
    sword = sword
    Players <- MCPlayers
    Items = {sword}
    Nobody = Nobody
    NoItem = NoItem
    NoLot = NoLot
    StartBids = {20}
    Buyouts = {0,21}
    Prices = {20,23}
    StartGold <- MCGold
    MaxGold = 60
    Wrap = 22
    CutPct = 5
    Deposit = 1
    GmLogTrade = TRUE
    DueAtBoot = TRUE
    LoseQueue = FALSE
    MaxRestarts = 1
    MaxQueue = 3
    MaxSales = 2
INVARIANT ItemsConserved
