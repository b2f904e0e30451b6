--------------------------- MODULE MCInstanceIds ----------------------------
(***************************************************************************)
(* Models of InstanceIds.  Chunk and Unit stand for 32 and 64: the vector  *)
(* is resized from nothing to Chunk, from Chunk to its capacity, and past  *)
(* the first storage unit.                                                 *)
(***************************************************************************)
EXTENDS InstanceIds, TLC

\* Any saved instances, the multiples of Chunk included.
MCBoots == SUBSET (1..MaxId)

MCSymmetry == Permutations(Workers)
=============================================================================
