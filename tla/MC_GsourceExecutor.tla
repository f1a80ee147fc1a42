------------------------ MODULE MC_GsourceExecutor ------------------------
(***************************************************************************)
(* Model values for the runs of GsourceExecutor: the loop's thread and      *)
(* three others dispatch, each up to MaxOps tasks.                         *)
(***************************************************************************)
EXTENDS GsourceExecutor

CONSTANTS loop, p1, p2, p3

MCProducers == {loop, p1, p2, p3}
=============================================================================
