---------------------------- MODULE MCMapUpdater ----------------------------
(***************************************************************************)
(* Model of MapUpdater: a plain continent, an instanceable map with two    *)
(* copies, two worker threads, and an activation queue that two requests   *)
(* fill, so that a third one is refused.                                   *)
(***************************************************************************)
EXTENDS MapUpdater, TLC

CONSTANTS continent, dungeon, copy1, copy2

MCBaseMaps  == {continent, dungeon}
MCInstances == {copy1, copy2}
MCBaseOf    == [i \in MCInstances |-> dungeon]

=============================================================================
