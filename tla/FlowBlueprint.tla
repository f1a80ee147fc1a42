---------------------------- MODULE FlowBlueprint ----------------------------
(***************************************************************************)
(* The blueprints of lite_fnds (flow/flow_blueprint.h, flow/flow_node.h):   *)
(* operator| adds a stage to the nodes composed so far. Calc stages are     *)
(* fused into one node, up to MaxZip of them; a via replaces a via that     *)
(* comes right before it, unless both executors have the same type: then    *)
(* the second one is dropped.                                              *)
(*                                                                         *)
(* A pipeline is the sequence of stages as the program writes them: the     *)
(* name of a calc stage, or the executor of a via. A blueprint is the       *)
(* tuple nodes_ of the code, the newest node first.                        *)
(***************************************************************************)
EXTENDS SequencesExt, Naturals

CONSTANTS
  Executors,  \* what a via may dispatch to
  TypeOf,     \* TypeOf[e]: the type of executor e
  MaxZip      \* MAX_ZIP_N

(* A result is a "value" or one of the errors: a stage "failed", or a "soft" or
   "hard" cancel. What a stage makes of it: transform must not throw; then may
   fail, by its result or by an exception; "recover" (on_error, catch_exception)
   may recover, fail anew or leave an error it does not know; each passes on what
   it is not for. *)
(* Mutant: then does not ask whether there is a value. *)
EffectUnguarded(stage, in) ==
  CASE stage = "then"                    -> {"value", "failed"}
    [] stage = "recover" /\ in # "value" -> {"value", "failed", in}
    [] OTHER                             -> {in}

Effect(stage, in) ==
  CASE stage = "then" /\ in = "value"    -> {"value", "failed"}
    [] stage = "recover" /\ in # "value" -> {"value", "failed", in}
    [] OTHER                             -> {in}

CalcNode(parts) == [kind |-> "calc", parts |-> parts]
ControlNode(e) == [kind |-> "control", parts |-> <<e>>]
EndNode == [kind |-> "end", parts |-> <<>>]

MakeBlueprint == <<CalcNode(<<"identity">>)>>

(* Mutant: the new callable runs before those it is fused with. *)
FuseReversed(node, stage) == CalcNode(<<stage>> \o node.parts)

(* zip_callables *)
Fuse(node, stage) == CalcNode(Append(node.parts, stage))

(* operator|, one overload after the other *)
Extend(bp, stage) ==
  LET first == Head(bp) IN
  CASE stage \notin Executors /\ first.kind = "calc" /\ Len(first.parts) < MaxZip
         -> <<Fuse(first, stage)>> \o Tail(bp)
    [] stage \notin Executors /\ (first.kind = "control" \/ Len(first.parts) = MaxZip)
         -> <<CalcNode(<<stage>>)>> \o bp
    [] stage \in Executors /\ first.kind = "calc"
         -> <<ControlNode(stage)>> \o bp
    [] stage \in Executors /\ first.kind = "control" /\ TypeOf[stage] = TypeOf[first.parts[1]]
         -> bp
    [] stage \in Executors /\ first.kind = "control" /\ TypeOf[stage] # TypeOf[first.parts[1]]
         -> <<ControlNode(stage)>> \o Tail(bp)

Blueprint(pipeline) ==
  LET composed[k \in 0 .. Len(pipeline)] ==
        IF k = 0 THEN MakeBlueprint ELSE Extend(composed[k - 1], pipeline[k]) IN
  <<EndNode>> \o composed[Len(pipeline)]

(* What README.md says remains of a pipeline: of several vias in a row, the last. *)
Effective(pipeline) ==
  LET row(k) == k > 1 /\ {pipeline[k - 1], pipeline[k]} \subseteq Executors
      kept[k \in 0 .. Len(pipeline)] ==
        CASE k = 0            -> <<>>
          [] k # 0 /\ row(k)  -> [kept[k - 1] EXCEPT ![Len(kept[k - 1])] = pipeline[k]]
          [] k # 0 /\ ~row(k) -> Append(kept[k - 1], pipeline[k]) IN
  kept[Len(pipeline)]
=============================================================================
