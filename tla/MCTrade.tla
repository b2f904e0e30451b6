------------------------------ MODULE MCTrade ------------------------------
(***************************************************************************)
(* Model of Trade: sword is bound and may only be given to a; b has room   *)
(* for three items and a token already; nobody may have three tokens.      *)
(***************************************************************************)
EXTENDS Trade, TLC

CONSTANTS a, b, sword, token1, token2, arms, token

MCRoom == [p \in Players |-> IF p = b THEN 3 ELSE 2]
MCBoundTo == [i \in Items |-> IF i = sword THEN {a} ELSE Players]
MCKind == [i \in Items |-> IF i = sword THEN arms ELSE token]
MCLimit == [k \in Kinds |-> IF k = token THEN 2 ELSE 0]
MCPack == [p \in Players |-> IF p = b THEN <<token>> ELSE <<>>]

MCSymmetry == Permutations({token1, token2})
=============================================================================
