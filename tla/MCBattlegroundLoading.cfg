SPECIFICATION Spec
CONSTANTS
    a1 = a1  a2 = a2  a3 = a3  h1 = h1
    Players = {a1, a2, a3, h1}
    TeamOf <- MCTeamOf
    Parties <- MCParties
    Solo = {a1, a3, h1}
    MinPlayersPerTeam = 1
    MaxPlayersPerTeam = 2
    InviteTime = 2
    Zoning = TRUE
    MaxGrounds = 1
    MaxJoins = 3
    MaxTrips = 1
    Wrap = 16
INVARIANTS NobodySkipped
