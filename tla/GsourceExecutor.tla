--------------------------- MODULE GsourceExecutor ---------------------------
(***************************************************************************)
(* lite_fnds::gsource_executor (executor/gsource_executor.h): tasks pass    *)
(* through an mpsc_queue to the thread that runs a GLib main loop, which    *)
(* sleeps until the eventfd is readable.                                   *)
(*                                                                         *)
(* dispatch puts the task into the queue, then adds 1 to the eventfd. The   *)
(* loop reads the eventfd back to 0, pops and runs tasks until a pop comes  *)
(* back empty or MaxTasks of them have run, and in the second case adds 1  *)
(* to the eventfd itself. A task may dispatch another one from inside the   *)
(* loop: the loop's thread is then a producer of the queue it consumes.     *)
(*                                                                         *)
(* GLib and the eventfd are external: poll is level-triggered, a read       *)
(* returns the counter and clears it, a write to a saturated counter fails  *)
(* with EAGAIN and changes nothing. The source may recurse: a task that     *)
(* iterates the context itself, without blocking, starts a round inside the *)
(* round that runs it.                                                     *)
(***************************************************************************)
EXTENDS MpscQueue, FiniteSets, SequencesExt

CONSTANTS
  Loop,      \* the thread of the main loop, a producer when a task dispatches
  MaxTasks,  \* max_task_per_round
  EfdMax,    \* the value at which the eventfd's counter saturates
  MaxDepth   \* bound: how many tasks may iterate the context inside each other

ASSUME ExecutorAssumption ==
  /\ Loop \in Producers
  /\ MaxTasks \in Nat \ {0}
  /\ EfdMax \in Nat \ {0} /\ MaxDepth \in Nat
  /\ {"wait", "try"} \subseteq Modes

VARIABLES
  efd,       \* the counter of the eventfd
  waking,    \* the threads between their emplace and their write to the eventfd
  lpc,       \* where the loop stands
  round,     \* c: the tasks run since the eventfd was read
  outer,     \* c of the rounds whose tasks are iterating the context, the innermost last
  attached   \* register_to was called

execVars == <<efd, waking, lpc, round, outer, attached>>
vars == <<mpscVars, execVars>>

ExecInit ==
  /\ Init
  /\ efd = 0 /\ waking = {}
  /\ lpc = "poll" /\ round = 0 /\ outer = <<>>
  /\ attached = FALSE

RegisterTo ==
  /\ alive /\ ~attached
  /\ attached' = TRUE
  /\ UNCHANGED <<mpscVars, efd, waking, lpc, round, outer>>

-----------------------------------------------------------------------------
(* dispatch, from another thread or from a task the loop is running *)

Dispatch(p) ==
  /\ p \notin waking
  /\ p = Loop => lpc = "task"
  /\ BeginEmplace(p) /\ mode'[p] = "wait"
  /\ UNCHANGED execVars

Emplacing(p) ==
  /\ LoadTail(p) \/ CheckReady(p) \/ ClaimTail(p) \/ MissTail(p) \/ Construct(p)
  /\ UNCHANGED execVars

(* Mutant: only a task that finds the queue empty is announced. *)
EmplacedQuietly(p) ==
  /\ Publish(p)
  /\ waking' = IF t > h + 1 THEN waking ELSE waking \cup {p}
  /\ UNCHANGED <<efd, lpc, round, outer, attached>>

Emplaced(p) ==
  /\ Publish(p)
  /\ waking' = waking \cup {p}
  /\ UNCHANGED <<efd, lpc, round, outer, attached>>

(* schedule_wake_up, with its EAGAIN answer *)
Signalled == IF efd < EfdMax THEN efd + 1 ELSE efd

WakeUp(p) ==
  /\ p \in waking
  /\ waking' = waking \ {p}
  /\ efd' = Signalled
  /\ UNCHANGED <<mpscVars, lpc, round, outer, attached>>

-----------------------------------------------------------------------------
(* g_source_task_proc *)

(* poll reports the descriptor readable, check and dispatch call the source,
   and the read takes the whole counter *)
ReadEventfd ==
  /\ attached /\ lpc = "poll" /\ efd > 0
  /\ efd' = 0
  /\ round' = 0
  /\ lpc' = "round"
  /\ UNCHANGED <<mpscVars, waking, outer, attached>>

(* can_recurse: a task iterates the context and finds the descriptor readable *)
Recurse ==
  /\ attached /\ lpc = "task" /\ pc[Loop] = "idle" /\ Loop \notin waking /\ efd > 0
  /\ Len(outer) < MaxDepth
  /\ efd' = 0
  /\ outer' = Append(outer, round)
  /\ round' = 0
  /\ lpc' = "round"
  /\ UNCHANGED <<mpscVars, waking, attached>>

(* g_source_task_proc returns: to poll, or to the task that iterates the context *)
ProcReturns ==
  IF outer = <<>>
  THEN lpc' = "poll" /\ UNCHANGED <<round, outer>>
  ELSE lpc' = "task" /\ round' = Last(outer) /\ outer' = Front(outer)

StartPop ==
  /\ lpc = "round" /\ round < MaxTasks
  /\ BeginPop
  /\ UNCHANGED execVars

(* an empty try_pop ends the round, and the source stays as it is *)
PopFinds ==
  /\ CheckHead /\ cpc' # "check"
  /\ IF cpc' = "idle" THEN ProcReturns ELSE UNCHANGED <<lpc, round, outer>>
  /\ UNCHANGED <<efd, waking, attached>>

PopMoves ==
  /\ Take \/ Clear
  /\ UNCHANGED execVars

RunTask ==
  /\ Advance
  /\ lpc' = "task"
  /\ UNCHANGED <<efd, waking, round, outer, attached>>

TaskReturns ==
  /\ lpc = "task" /\ pc[Loop] = "idle" /\ Loop \notin waking
  /\ round' = round + 1
  /\ lpc' = "round"
  /\ UNCHANGED <<mpscVars, efd, waking, outer, attached>>

(* Mutant: a round that ran its last task goes to sleep. *)
EndRoundSilently ==
  /\ lpc = "round" /\ cpc = "idle" /\ round = MaxTasks
  /\ ProcReturns
  /\ UNCHANGED <<mpscVars, efd, waking, attached>>

(* the queue was not seen empty: the loop signals itself *)
EndRound ==
  /\ lpc = "round" /\ cpc = "idle" /\ round = MaxTasks
  /\ efd' = Signalled
  /\ ProcReturns
  /\ UNCHANGED <<mpscVars, waking, attached>>

-----------------------------------------------------------------------------
(* ~gsource_executor destroys the queue and the tasks in it, then the source.
   Nobody may be dispatching, and the loop may not be inside the source. *)
Shutdown ==
  /\ lpc = "poll" /\ waking = {}
  /\ Destroy
  /\ attached' = FALSE
  /\ UNCHANGED <<efd, waking, lpc, round, outer>>

DispatchStep(p) == Emplacing(p) \/ Emplaced(p) \/ WakeUp(p)

LoopStep ==
  \/ ReadEventfd \/ StartPop \/ PopFinds \/ PopMoves \/ RunTask
  \/ TaskReturns \/ EndRound

ExecNext ==
  \/ RegisterTo
  \/ \E p \in Producers : Dispatch(p) \/ DispatchStep(p)
  \/ LoopStep \/ Recurse
  \/ Shutdown

ExecSpec == ExecInit /\ [][ExecNext]_vars

(* Threads and the loop keep running, the executor gets registered, and a weak
   CAS that stays possible succeeds in the end. Dispatch, Recurse and Shutdown are
   the callers' choice. *)
Fairness ==
  /\ WF_vars(RegisterTo)
  /\ WF_vars(LoopStep)
  /\ \A p \in Producers : WF_vars(DispatchStep(p)) /\ SF_vars(ClaimTail(p) /\ UNCHANGED execVars)

FairExecSpec == ExecSpec /\ Fairness

-----------------------------------------------------------------------------
(* Tasks run one at a time, in the order of their tickets, each at most once. *)
TasksRunInOrder == Fifo!Spec

(* No lost wake-up: when the loop is about to sleep with a task in the queue,
   somebody who will write to the eventfd is on the way: the producer of the
   task itself, or one that published it and has not signalled yet. *)
NoLostWakeUp ==
  alive /\ lpc = "poll" /\ efd = 0 /\ h < t =>
    \E p \in Producers : Owner(p) \/ p \in waking

(* A task dispatched to the loop from inside a task while the ring is full
   waits for a pop that only the same thread could make. *)
SelfDispatchOnFull ==
  /\ lpc = "task" /\ pc[Loop] \in {"load", "check"}
  /\ ready[Slot(t)] = 1

(* Every task whose dispatch took a ticket is run or destroyed with the queue,
   unless the loop has locked itself out in a dispatch of its own. *)
EveryTaskRuns ==
  \/ \A k \in 0 .. MaxOps * Cardinality(Producers) - 1 : t > k ~> (h > k \/ ~alive)
  \/ <>[]SelfDispatchOnFull
=============================================================================
