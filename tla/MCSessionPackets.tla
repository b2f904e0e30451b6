-------------------------- MODULE MCSessionPackets --------------------------
(***************************************************************************)
(* Models of SessionPackets, with three packets of any of the kinds.       *)
(***************************************************************************)
EXTENDS SessionPackets

MCKinds == DOMAIN Status
=============================================================================
