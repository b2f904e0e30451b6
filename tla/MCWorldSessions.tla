--------------------------- MODULE MCWorldSessions --------------------------
(***************************************************************************)
(* Model of WorldSessions: one account that reconnects with a second       *)
(* session object, an ordinary account and a premium account.              *)
(***************************************************************************)
EXTENDS WorldSessions

CONSTANTS a1, a2, a3, s1, s1again, s2, s3

MCAccounts  == {a1, a2, a3}
MCSessions  == {s1, s1again, s2, s3}
MCAccountOf == [s \in MCSessions |-> CASE s = s2 -> a2 [] s = s3 -> a3 [] OTHER -> a1]
MCBypass    == {s3}

\* The instance for the disconnect tolerance: two ordinary accounts.
TwoAccounts  == {a1, a2}
TwoSessions  == {s1, s1again, s2}
TwoAccountOf == [s \in TwoSessions |-> MCAccountOf[s]]
=============================================================================
