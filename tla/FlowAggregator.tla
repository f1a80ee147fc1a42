--------------------------- MODULE FlowAggregator ---------------------------
(***************************************************************************)
(* lite_fnds::flow_aggregator (flow/flow_aggregator.h) at the end of the    *)
(* flows: the end of run r emplaces the result in the slot of its own       *)
(* delegate. The slot that is in use already refuses; otherwise the result  *)
(* is stored, the slot's flag set and the count raised, three steps that    *)
(* the runs interleave. Readers ask the count.                              *)
(***************************************************************************)
EXTENDS FlowRunner

VARIABLES
  slot,      \* slot[r]: the result in r's slot, "none" before the first
  slotReady, \* slotReady[r]
  readyCount

aggregatorVars == <<slot, slotReady, readyCount>>
allVars == <<runnerVars, aggregatorVars>>

AggregatorInit ==
  /\ Init
  /\ slot = [r \in Runs |-> "none"]
  /\ slotReady = [r \in Runs |-> FALSE]
  /\ readyCount = 0

EndGoto(r, to) ==
  /\ pc' = [pc EXCEPT ![r] = to]
  /\ held' = IF to = "idle" THEN held \ Dropped(r, frame[r]) ELSE held
  /\ UNCHANGED <<pipeline, nodes, cancel, cancels, starts, fast, at, part, val, where, late, softSeen, frame, inside>>

(* Mutant: a used slot is not refused. *)
TestSlotNever(r) ==
  /\ pc[r] = "end"
  /\ EndGoto(r, "store")
  /\ UNCHANGED aggregatorVars

(* Mutant: the test claims the slot by setting its flag. *)
TestSlotClaims(r) ==
  /\ pc[r] = "end"
  /\ EndGoto(r, IF slotReady[r] THEN "idle" ELSE "store")
  /\ slotReady' = [slotReady EXCEPT ![r] = TRUE]
  /\ UNCHANGED <<slot, readyCount>>

(* delegate::emplace *)
TestSlot(r) ==
  /\ pc[r] = "end"
  /\ EndGoto(r, IF slotReady[r] THEN "idle" ELSE "store")
  /\ UNCHANGED aggregatorVars

Store(r) ==
  /\ pc[r] = "store"
  /\ slot' = [slot EXCEPT ![r] = val[r]]
  /\ EndGoto(r, "flag")
  /\ UNCHANGED <<slotReady, readyCount>>

SetReady(r) ==
  /\ pc[r] = "flag"
  /\ slotReady' = [slotReady EXCEPT ![r] = TRUE]
  /\ EndGoto(r, "count")
  /\ UNCHANGED <<slot, readyCount>>

CountUp(r) ==
  /\ pc[r] = "count"
  /\ readyCount' = readyCount + 1
  /\ EndGoto(r, "idle")
  /\ UNCHANGED <<slot, slotReady>>

StepOf(r) ==
  \/ RunStep(r) /\ UNCHANGED aggregatorVars
  \/ TestSlot(r) \/ Store(r) \/ SetReady(r) \/ CountUp(r)

Next ==
  \/ (Cancel \/ \E r \in Runs : Start(r)) /\ UNCHANGED aggregatorVars
  \/ \E r \in Runs : StepOf(r)

Spec == AggregatorInit /\ [][Next]_allVars

(* Every run that is started goes on: its thread is scheduled and its executors
   run their tasks. Nobody has to start a run or to cancel. *)
FairSpec == Spec /\ \A r \in Runs : WF_allVars(StepOf(r))

-----------------------------------------------------------------------------
AllReady == readyCount = Cardinality(Runs)

(* is_all_ready, is_any_ready and is_slot_ready tell the truth about value(): the
   count is never ahead of the flags, nor a flag of its result, also while runs
   are started again and their second results refused. *)
ReadyMeansStored ==
  /\ readyCount <= Cardinality({r \in Runs : slotReady[r]})
  /\ \A r \in Runs : slotReady[r] => slot[r] # "none"

(* What a reader has been told is ready does not change under its hands. *)
ReadyIsFinal ==
  [][\A r \in Runs : slotReady[r] \/ AllReady => slot'[r] = slot[r] /\ slotReady'[r]]_allVars

(* If every flow is started, canceled or not, the one who polls is_all_ready gets
   its answer, and keeps getting it. *)
AllBecomeReady == (\A r \in Runs : starts[r] > 0) ~> []AllReady
=============================================================================
