-------------------------- MODULE MC_StaticMemPool --------------------------
(***************************************************************************)
(* Model values for the run of StaticMemPool: two lines, with two small     *)
(* blocks and one large block.                                             *)
(***************************************************************************)
EXTENDS StaticMemPool, TLC

CONSTANTS t1, t2

MCThreads == {t1, t2}
MCCap == 0 :> 2 @@ 1 :> 1
MCBlocks == {0, 4, 8}

(* t1 may be descheduled for ever, everybody else keeps running. *)
StalledThreadSpec == PoolSpec /\ FairExcept(t1)

(* Lock freedom: whatever the stalled thread holds, the others return. *)
OthersReturn == \A th \in MCThreads \ {t1} : loc[th].pc # "idle" ~> loc[th].pc = "idle"
=============================================================================
