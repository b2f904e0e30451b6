-------------------------- MODULE MCWorldShutdown ---------------------------
(***************************************************************************)
(* Model of WorldShutdown: two players and countdowns that skip over or    *)
(* stop at every value, two seconds being the longest update.              *)
(***************************************************************************)
EXTENDS WorldShutdown
=============================================================================
