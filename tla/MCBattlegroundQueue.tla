------------------------ MODULE MCBattlegroundQueue ------------------------
EXTENDS BattlegroundQueue

CONSTANTS a1, a2, a3, h1

\* Three against one: the alliance has a party of two and a player too many,
\* the horde a party with one member online.
MCTeamOf == (a1 :> "alliance") @@ (a2 :> "alliance") @@ (a3 :> "alliance") @@ (h1 :> "horde")
MCParties == {{a1, a2}, {h1}}
=============================================================================
