----------------------------- MODULE FlowRunner -----------------------------
(***************************************************************************)
(* lite_fnds::flow_runner, flow_fast_runner and flow_controller             *)
(* (flow/flow_runner.h): the nodes of a blueprint are run from the last of  *)
(* the tuple to the first, which is the end. Before every node but the end  *)
(* the plain runner reads the controller twice: a hard cancel jumps to the  *)
(* end, a soft one replaces the result by a cancel error. A control node    *)
(* hands the rest of the run to its executor as a task. The fast runner     *)
(* does the same without a controller.                                     *)
(*                                                                         *)
(* A calc node runs its fused stages one by one. Executors are external:    *)
(* they run every task once, in any order. What the end does with a result  *)
(* is FlowAggregator's.                                                    *)
(***************************************************************************)
EXTENDS FlowBlueprint, FiniteSets

CONSTANTS
  Runs,
  Pipelines,
  MayBeFast,  \* the runs that the program may give a fast runner
  MaxStarts,  \* bound: MaxStarts[r], how often r is started
  MaxCancels  \* bound: how often cancel is called

ASSUME FlowAssumption ==
  /\ MaxZip \in Nat \ {0} /\ MayBeFast \subseteq Runs
  /\ IsFiniteSet(Runs) /\ MaxStarts \in [Runs -> Nat \ {0}] /\ MaxCancels \in Nat
  /\ \A p \in Pipelines : p \in Seq(ToSet(p))

VARIABLES
  pipeline, \* what the program composed
  nodes,    \* nodes_ of its blueprint
  cancel,   \* the controller
  cancels,
  starts,   \* starts[r]: how often r was started
  fast,     \* fast[r]: r uses the fast runner
  pc,       \* pc[r]: "idle", "hard", "soft", "node", "queued", "end" (or in the end's callable)
  at,       \* at[r]: the index I of ipc<I>
  part,     \* part[r]: the stages of that node that have been run
  val,      \* val[r]: the result that is passed on
  where,    \* where[r]: "caller" or the executor whose task r runs in
  frame,    \* frame[r]: the runner object r runs in, see Caller
  held,     \* <<r, f>>: runner object f of run r, or its queued task, holds the blueprint
  inside,   \* <<r, i>>: the call of p of node i by run r has not returned yet
  late,     \* history: nodes r has begun since the controller says hard
  softSeen  \* history: the node r is at got a soft cancel

ownership == <<frame, held, inside>>
runnerVars == <<pipeline, nodes, cancel, cancels, starts, fast, pc, at, part, val, where, late, softSeen, ownership>>

Node(r) == nodes[at[r] + 1]

(* The runner objects are numbered by the control node whose task has made them. *)
ProgramRunner == Len(nodes)
QueuedTask == 0

(* where ipc<I>::run begins: the end is not guarded, a fast runner guards nothing *)
Entry(r, i) == IF i = 0 THEN "end" ELSE IF fast[r] THEN "node" ELSE "hard"

Init ==
  /\ pipeline \in Pipelines
  /\ nodes = Blueprint(pipeline)
  /\ cancel = "none" /\ cancels = 0
  /\ starts = [r \in Runs |-> 0]
  /\ fast \in {f \in [Runs -> BOOLEAN] : \A r \in Runs : f[r] => r \in MayBeFast}
  /\ pc = [r \in Runs |-> "idle"]
  /\ at = [r \in Runs |-> Len(nodes) - 1]
  /\ part = [r \in Runs |-> 0]
  /\ val = [r \in Runs |-> "value"]
  /\ where = [r \in Runs |-> "caller"]
  /\ frame = [r \in Runs |-> ProgramRunner]
  /\ held = Runs \X {ProgramRunner} /\ inside = {}
  /\ late = [r \in Runs |-> 0]
  /\ softSeen = [r \in Runs |-> FALSE]

(* flow_controller::cancel, a plain store: a soft cancel takes back a hard one *)
Cancel ==
  /\ cancels < MaxCancels
  /\ cancels' = cancels + 1
  /\ \/ cancel' = "hard" /\ UNCHANGED late
     \/ cancel' = "soft" /\ late' = [r \in Runs |-> 0]
  /\ UNCHANGED <<pipeline, nodes, starts, fast, pc, at, part, val, where, softSeen, ownership>>

(* operator(). A fast runner is for one run: its first task takes the blueprint. *)
Start(r) ==
  /\ pc[r] = "idle" /\ starts[r] < MaxStarts[r]
  /\ fast[r] => starts[r] = 0
  /\ \A i \in DOMAIN nodes : <<r, i>> \notin inside
  /\ starts' = [starts EXCEPT ![r] = @ + 1]
  /\ at' = [at EXCEPT ![r] = Len(nodes) - 1]
  /\ part' = [part EXCEPT ![r] = 0]
  /\ val' = [val EXCEPT ![r] = "value"]
  /\ where' = [where EXCEPT ![r] = "caller"]
  /\ late' = [late EXCEPT ![r] = 0]
  /\ pc' = [pc EXCEPT ![r] = Entry(r, Len(nodes) - 1)]
  /\ frame' = [frame EXCEPT ![r] = ProgramRunner]
  /\ UNCHANGED <<pipeline, nodes, cancel, cancels, fast, softSeen, held, inside>>

(* Mutant: only the first node asks for a hard cancel. *)
CheckHardOnce(r) ==
  /\ pc[r] = "hard"
  /\ IF cancel = "hard" /\ at[r] = Len(nodes) - 1
     THEN /\ at' = [at EXCEPT ![r] = 0]
          /\ val' = [val EXCEPT ![r] = "hard"]
          /\ pc' = [pc EXCEPT ![r] = "end"]
     ELSE pc' = [pc EXCEPT ![r] = "soft"] /\ UNCHANGED <<at, val>>
  /\ UNCHANGED <<pipeline, nodes, cancel, cancels, starts, fast, part, where, late, softSeen, ownership>>

CheckHard(r) ==
  /\ pc[r] = "hard"
  /\ IF cancel = "hard"
     THEN /\ at' = [at EXCEPT ![r] = 0]
          /\ val' = [val EXCEPT ![r] = "hard"]
          /\ pc' = [pc EXCEPT ![r] = "end"]
     ELSE pc' = [pc EXCEPT ![r] = "soft"] /\ UNCHANGED <<at, val>>
  /\ UNCHANGED <<pipeline, nodes, cancel, cancels, starts, fast, part, where, late, softSeen, ownership>>

(* Mutant: the canceled run returns without going on to the end. *)
CheckSoftReturns(r) ==
  /\ pc[r] = "soft"
  /\ pc' = [pc EXCEPT ![r] = IF cancel = "soft" THEN "idle" ELSE "node"]
  /\ late' = [late EXCEPT ![r] = IF cancel = "hard" THEN @ + 1 ELSE @]
  /\ UNCHANGED <<pipeline, nodes, cancel, cancels, starts, fast, at, part, val, where, softSeen, ownership>>

CheckSoft(r) ==
  /\ pc[r] = "soft"
  /\ val' = [val EXCEPT ![r] = IF cancel = "soft" THEN "soft" ELSE @]
  /\ softSeen' = [softSeen EXCEPT ![r] = cancel = "soft"]
  /\ late' = [late EXCEPT ![r] = IF cancel = "hard" THEN @ + 1 ELSE @]
  /\ pc' = [pc EXCEPT ![r] = "node"]
  /\ UNCHANGED <<pipeline, nodes, cancel, cancels, starts, fast, at, part, where, ownership>>

(* ipc<I - 1>::run *)
Onward(r) ==
  /\ at' = [at EXCEPT ![r] = @ - 1]
  /\ part' = [part EXCEPT ![r] = 0]
  /\ pc' = [pc EXCEPT ![r] = Entry(r, at[r] - 1)]

RunStage(r) ==
  /\ pc[r] = "node" /\ Node(r).kind = "calc"
  /\ \E v \in Effect(Node(r).parts[part[r] + 1], val[r]) : val' = [val EXCEPT ![r] = v]
  /\ \/ part[r] + 1 = Len(Node(r).parts) /\ Onward(r)
     \/ /\ part[r] + 1 < Len(Node(r).parts)
        /\ part' = [part EXCEPT ![r] = @ + 1]
        /\ UNCHANGED <<at, pc>>
  /\ UNCHANGED <<pipeline, nodes, cancel, cancels, starts, fast, where, late, softSeen, ownership>>

(* The runner object whose ipc called p of node i: that of the program, or the
   next_runner of the task that the control node before it has made. *)
Caller(i) ==
  LET before == {j \in i + 1 .. Len(nodes) - 1 : nodes[j + 1].kind = "control"} IN
  IF before = {} THEN ProgramRunner ELSE CHOOSE j \in before : \A k \in before : j <= k

(* Runner object f of run r returns. A next_runner goes with its task; the program
   keeps its runner no longer than it starts it. *)
Dropped(r, f) == IF f = ProgramRunner /\ starts[r] < MaxStarts[r] THEN {} ELSE {<<r, f>>}

(* Mutant: the plain runner moves its handle as well. *)
HopMoves(r) ==
  /\ pc[r] = "node" /\ Node(r).kind = "control"
  /\ pc' = [pc EXCEPT ![r] = "queued"]
  /\ inside' = inside \cup {<<r, at[r]>>}
  /\ held' = (held \ {<<r, frame[r]>>}) \cup {<<r, QueuedTask>>}
  /\ UNCHANGED <<pipeline, nodes, cancel, cancels, starts, fast, at, part, val, where, late, softSeen, frame>>

(* The rest of the run, with its input, the blueprint and the controller, becomes
   a task that p gives to the executor; the fast runner moves its handle there. *)
Hop(r) ==
  /\ pc[r] = "node" /\ Node(r).kind = "control"
  /\ pc' = [pc EXCEPT ![r] = "queued"]
  /\ inside' = inside \cup {<<r, at[r]>>}
  /\ held' = (held \ (IF fast[r] THEN {<<r, frame[r]>>} ELSE {})) \cup {<<r, QueuedTask>>}
  /\ UNCHANGED <<pipeline, nodes, cancel, cancels, starts, fast, at, part, val, where, late, softSeen, frame>>

(* before or after the p that has queued it returns *)
TaskRuns(r) ==
  /\ pc[r] = "queued"
  /\ where' = [where EXCEPT ![r] = Node(r).parts[1]]
  /\ frame' = [frame EXCEPT ![r] = at[r]]
  /\ held' = (held \ {<<r, QueuedTask>>}) \cup {<<r, at[r]>>}
  /\ Onward(r)
  /\ UNCHANGED <<pipeline, nodes, cancel, cancels, starts, fast, val, late, softSeen, inside>>

Return(r) ==
  /\ \E i \in DOMAIN nodes :
       /\ <<r, i>> \in inside
       /\ inside' = inside \ {<<r, i>>}
       /\ held' = held \ Dropped(r, Caller(i))
  /\ UNCHANGED <<pipeline, nodes, cancel, cancels, starts, fast, pc, at, part, val, where, late, softSeen, frame>>

RunStep(r) == CheckHard(r) \/ CheckSoft(r) \/ RunStage(r) \/ Hop(r) \/ TaskRuns(r) \/ Return(r)

-----------------------------------------------------------------------------
(* From when a run can see a hard cancel it begins at most one more node, the one
   whose first test it had already passed, however many nodes are left. *)
HardStopsSoon == \A r \in Runs : late[r] <= 1

(* What a soft cancel replaced does not turn into a value again by the stages that
   follow in the node: if the last node before the end saw the cancel, an error is
   delivered, unless that very node contains a handler that recovered. *)
SoftReachesEnd ==
  \A r \in Runs :
    pc[r] = "end" /\ at[r] = 0 /\ ~fast[r] /\ softSeen[r] /\ val[r] = "value" =>
      "recover" \in ToSet(nodes[2].parts)

(* The blueprint, and with it the executor's handle in the node, is there as long as
   a run is at work on it, and for a plain run as long as p is: its runner keeps a
   handle, while the task may be through on another thread and everyone else gone.
   When all is over nobody has kept one. *)
BlueprintOutlivesUse ==
  /\ \A r \in Runs :
       \/ pc[r] # "idle"
       \/ ~fast[r] /\ (\E i \in DOMAIN nodes : <<r, i>> \in inside)
       => held # {}
  /\ (\A r \in Runs : pc[r] = "idle" /\ starts[r] = MaxStarts[r]) /\ inside = {} => held = {}

(* How many stages of the pipeline a run has behind it: those of the nodes it has
   left and of the parts of the node it is at, without the identity. *)
PassedStages(r) ==
  LET before == UNION {{i} \X DOMAIN nodes[i].parts : i \in at[r] + 2 .. Len(nodes)}
      passed == Cardinality(before) + part[r] IN
  IF passed = 0 THEN 0 ELSE passed - 1

(* The nodes, however their stages were fused and their vias dropped or replaced,
   do what the pipeline says, with either runner. *)
Promise == INSTANCE FlowStages WITH
  passed <- [r \in Runs |-> IF at[r] = 0 THEN Len(Effective(pipeline)) ELSE PassedStages(r)],
  running <- [r \in Runs |-> pc[r] # "idle"]

ImplementsStages == Promise!Spec
=============================================================================
