---------------------------- MODULE MC_HazardPtr ----------------------------
(***************************************************************************)
(* Model values for the run of HazardPtr: three threads share two records.  *)
(***************************************************************************)
EXTENDS HazardPtr

CONSTANTS t1, t2, t3, o1, o2

MCThreads == {t1, t2, t3}
MCObjects == {o1, o2}
=============================================================================
