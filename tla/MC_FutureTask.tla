---------------------------- MODULE MC_FutureTask ----------------------------
(***************************************************************************)
(* Model values for FutureTask: one task that returns a plain value and one *)
(* that returns a result_t, which two threads move through three places.    *)
(***************************************************************************)
EXTENDS FutureTask

CONSTANTS plain, checked, th1, th2, x, y, z

MCTasks == {plain, checked}
MCResultTasks == {checked}
MCThreads == {th1, th2}
MCPlaces == {x, y, z}
=============================================================================
