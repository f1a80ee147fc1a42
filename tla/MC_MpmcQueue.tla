--------------------------- MODULE MC_MpmcQueue ---------------------------
(***************************************************************************)
(* Model values for the run of MpmcQueue: two threads on each side.         *)
(***************************************************************************)
EXTENDS MpmcQueue

CONSTANTS p1, p2, c1, c2

MCProducers == {p1, p2}
MCConsumers == {c1, c2}
=============================================================================
