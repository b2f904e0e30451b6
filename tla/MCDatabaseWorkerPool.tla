------------------------ MODULE MCDatabaseWorkerPool ------------------------
(***************************************************************************)
(* Model of DatabaseWorkerPool: a transaction of two statements, an empty  *)
(* one and a third of two statements, on a queue that holds two requests.  *)
(***************************************************************************)
EXTENDS DatabaseWorkerPool

MCSize == <<2, 0, 2>>
=============================================================================
