-------------------------- MODULE MC_FlowAggregator --------------------------
(***************************************************************************)
(* MCPipelines, which Flow.cfg runs: stages that fill a node and overflow   *)
(* it, a handler at the end of a node and alone in one, vias that are the   *)
(* first stage, the last, replaced and dropped.                             *)
(***************************************************************************)
EXTENDS FlowAggregator, TLC

CONSTANTS r1, r2, e1, e2

MCRuns == {r1, r2}
MCMayBeFast == {r2}
MCMaxStarts == r1 :> 2 @@ r2 :> 1
MCExecutors == {e1, e2}
MCTypeOf == e1 :> "pool" @@ e2 :> "loop"

(* two pools of the same type, as FlowVia.cfg gives them to two vias in a row *)
MCSameType == e1 :> "pool" @@ e2 :> "pool"
MCTwoVias == {<<"then", e1, e2, "then">>}
MCStartedOnce == r1 :> 1 @@ r2 :> 1

MCPipelines ==
  {<<"recover", "then", e1>>, <<"then", e1, "recover">>, <<e1, e2, e2, "then">>}
=============================================================================
