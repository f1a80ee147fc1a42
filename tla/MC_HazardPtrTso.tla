--------------------------- MODULE MC_HazardPtrTso ---------------------------
(***************************************************************************)
(* Model values for the run of HazardPtrTso: a reader and an updater.       *)
(***************************************************************************)
EXTENDS HazardPtrTso

CONSTANTS t1, t2, o1, o2

MCThreads == {t1, t2}
MCObjects == {o1, o2}
=============================================================================
