----------------------------- MODULE FlowStages -----------------------------
(***************************************************************************)
(* What a flow promises (README.md of the repository, flow/flow_runner.h):  *)
(* every run takes the stages of its pipeline one after the other, in the   *)
(* order they were written, a via moves it to its executor, and the result  *)
(* goes to the end once. Before a stage a hard cancel may end the run with  *)
(* a cancel error, and a soft one may replace its result by one.            *)
(***************************************************************************)
EXTENDS FlowBlueprint

CONSTANTS
  Runs,
  Pipelines  \* the pipelines that are run

VARIABLES
  pipeline,  \* the one of this behaviour
  cancel,    \* "none", "soft" or "hard": the controller the runs share
  passed,    \* passed[r]: how many stages r has behind it
  val,       \* val[r]: the result it carries
  where,     \* where[r]: "caller", or the executor r runs on
  running    \* running[r]: r has been started and not yet delivered

vars == <<pipeline, cancel, passed, val, where, running>>

Stages == Effective(pipeline)

Init ==
  /\ pipeline \in Pipelines
  /\ cancel = "none"
  /\ passed = [r \in Runs |-> 0]
  /\ val = [r \in Runs |-> "value"]
  /\ where = [r \in Runs |-> "caller"]
  /\ running = [r \in Runs |-> FALSE]

Start(r) ==
  /\ ~running[r]
  /\ running' = [running EXCEPT ![r] = TRUE]
  /\ passed' = [passed EXCEPT ![r] = 0]
  /\ val' = [val EXCEPT ![r] = "value"]
  /\ where' = [where EXCEPT ![r] = "caller"]
  /\ UNCHANGED <<pipeline, cancel>>

Calc(r) ==
  /\ running[r] /\ passed[r] < Len(Stages) /\ Stages[passed[r] + 1] \notin Executors
  /\ \E v \in Effect(Stages[passed[r] + 1], val[r]) : val' = [val EXCEPT ![r] = v]
  /\ passed' = [passed EXCEPT ![r] = @ + 1]
  /\ UNCHANGED <<pipeline, cancel, where, running>>

Via(r) ==
  /\ running[r] /\ passed[r] < Len(Stages) /\ Stages[passed[r] + 1] \in Executors
  /\ where' = [where EXCEPT ![r] = Stages[passed[r] + 1]]
  /\ passed' = [passed EXCEPT ![r] = @ + 1]
  /\ UNCHANGED <<pipeline, cancel, val, running>>

HardCanceled(r) ==
  /\ running[r] /\ cancel = "hard"
  /\ val' = [val EXCEPT ![r] = "hard"]
  /\ passed' = [passed EXCEPT ![r] = Len(Stages)]
  /\ UNCHANGED <<pipeline, cancel, where, running>>

SoftCanceled(r) ==
  /\ running[r] /\ cancel = "soft"
  /\ val' = [val EXCEPT ![r] = "soft"]
  /\ UNCHANGED <<pipeline, cancel, passed, where, running>>

Deliver(r) ==
  /\ running[r] /\ passed[r] = Len(Stages)
  /\ running' = [running EXCEPT ![r] = FALSE]
  /\ UNCHANGED <<pipeline, cancel, passed, val, where>>

Cancel ==
  /\ cancel' \in {"soft", "hard"}
  /\ UNCHANGED <<pipeline, passed, val, where, running>>

Next ==
  \/ Cancel
  \/ \E r \in Runs : \/ Start(r) \/ Calc(r) \/ Via(r) \/ Deliver(r)
                     \/ HardCanceled(r) \/ SoftCanceled(r)

Spec == Init /\ [][Next]_vars
=============================================================================
