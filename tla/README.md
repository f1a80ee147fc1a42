# lite_fnds: a verification project in TLA+

lite_fnds is a C++14 header library of concurrent queues, memory tools, type-erased tasks and
"flows" (pipelines built at compile time). This directory holds TLA+ modules that model its code,
configurations that check them with TLC, and proofs that TLAPS checks. Paths below are relative to
the repository; `PROJECT.json` gives the source lines of every definition.

## The system

| Component | State | Operations | Interacts with |
|---|---|---|---|
| `mpmc_queue` (utility/concurrent_queues.h) | tickets `_h`, `_t`; per slot a sequence and storage | try/wait emplace and pop, destructor | any number of threads |
| `spsc_queue` | plain `_h`, `_t`; per slot `ready` and storage | the same, one thread per side | two threads |
| `mpsc_queue` | `_t` atomic, `_h` plain; per slot `ready` and storage | the same, bounded retries in try_emplace | producers, the executor's loop |
| `gsource_executor` (executor/) | an eventfd, a GSource, an `mpsc_queue` of tasks | dispatch, register_to, the source callback | producers, GLib, tasks that dispatch |
| `static_list` (utility/) | tagged heads of two lists, `next` and value per node | push, emplace, pop | the pool, the retire list |
| `static_mem_pool` (memory/) | a buffer, four `static_list`s of blocks | allocate, deallocate | `static_list` |
| `hazard_ptr`, `hp_mgr` (memory/) | 128 records, a retire list | acquire_protected, release, retire, sweep | readers, updaters, `static_list` |
| `flow_*` (flow/) | a blueprint (list of nodes) and who holds it, a cancel flag, a result per aggregated slot | compose, run, run fast, cancel, aggregate | user callables, other threads that cancel |
| `inplace_t`, `either_t`, `result_t` (memory/, base/) | storage and a tag | construct, emplace, assign, swap, destroy | constructors that throw |
| `task_wrapper`, `callable_wrapper`, `type_erase_base` (task/, utility/, base/) | an erased object and its table of operations | emplace, move, copy, swap, clear, call | the executor |
| `task_core`, `future_task` (task/) | a callable and its parameters, a promise, the flag `fired_` | make, get_future, move, call, destroy | threads that share a task, futures |
| `traits`, `compressed_pair`, `yield` | none | compile time, or a processor hint | - |

What is hard: the queues, the list and the hazard pointers are lock-free style code with relaxed and
acquire/release orders, slots reused after a lap, counters that wrap, threads that stop anywhere;
the executor can lose a wake-up; the flow has a cancellation that races with its stages; the object
types keep or restore the old value over several constructor calls that may throw, all but two operations.

What makes each part correct:

* queues: a slot has one user at a time; an object is constructed in raw storage, taken once, and
  destroyed exactly once; the objects come out in the order of the tickets; who waits is served;
  refusals mean what they say;
* executor: every dispatched task runs, once and in order; no wake-up is lost; shutdown leaks nothing;
* list and pool: no node or block is lost, doubled or handed out twice, blocks return to their class;
  no thread depends on a stopped one;
* hazard pointers: nothing is deleted while it is used, nor twice; calls return;
* flow: a stage runs at most once, errors and cancellations go where the documentation says, the fast
  runner computes what the plain one does; nobody works with a blueprint that is gone; an aggregator is
  ready when all its slots are;
* future tasks: a task runs once at most, with its parameters; its future gets the answer of that run, or
  learns that there will be none;
* objects: tag and content agree, no object leaks or is destroyed twice, a throwing constructor leaves
  the old value, or in two operations of `inplace_t` an empty box.

## Modules

| Module | Models | Composes |
|---|---|---|
| `BoundedFifo` | what a queue promises: a bounded FIFO with a log of what went in and out | |
| `MpmcQueue`, `MC_MpmcQueue` | `mpmc_queue` | implements `BoundedFifo` |
| `MpmcWrap` | `mpmc_queue` by one thread, with counters of `Word` values | |
| `SpscQueue` | `spsc_queue` | implements `BoundedFifo` |
| `MpscQueue` | `mpsc_queue` | implements `BoundedFifo` inside the executor |
| `GsourceExecutor`, `MC_GsourceExecutor` | `gsource_executor` with GLib's main loop and the eventfd | extends `MpscQueue` |
| `LifoLists` | what a `static_list` promises: a stack | |
| `StaticList` | `static_list`, several of them | implements `LifoLists` |
| `StaticMemPool`, `MC_StaticMemPool` | `static_mem_pool` | extends `StaticList` |
| `HazardPtr`, `MC_HazardPtr` | `hp_mgr`, `hazard_ptr`, with stores visible at once | the retire list is a stack as in `LifoLists` |
| `HazardPtrTso`, `MC_HazardPtrTso` | the same with store buffers | extends `HazardPtr` |
| `FlowBlueprint` | the composition of nodes into a blueprint (`flow_blueprint.h`, `flow_node.h`) | |
| `FlowStages` | what a flow promises: the stages of the pipeline in order, cancellation aside | |
| `FlowRunner` | `flow_runner`, `flow_controller`, `flow_fast_runner`, and who holds the blueprint | extends `FlowBlueprint`, implements `FlowStages` |
| `FlowAggregator`, `MC_FlowAggregator` | `flow_aggregator`, whose delegates are the ends of the flows | extends `FlowRunner` |
| `TaskOutcomes` | what a future task promises: one run at most, one answer, the answer of that run | |
| `FutureTask`, `MC_FutureTask` | `future_task` with the execution of `task_core` | implements `TaskOutcomes` |
| `ValueBoxes` | what a value container promises: the effect of an operation, whole or not at all | |
| `ObjectCells` | storage, objects, constructors that throw (`inplace_base.h`) | |
| `ObjectBoxes`, `MC_ObjectBoxes` | `either_t` (under `result_t` and `callable_wrapper`), `inplace_t`, `raw_type_erase_base` with `task_wrapper` and `callable_storage_t` | extends `ObjectCells`, implements `ValueBoxes` |
| `MpmcQueue_proofs`, `SpscQueue_proofs`, `GsourceExecutor_proofs`, `StaticMemPool_proofs`, `HazardPtr_proofs`, `FlowAggregator_proofs`, `FutureTask_proofs`, `ObjectBoxes_proofs` | theorems | each extends the module it is named for, and so covers what that extends (`MpscQueue`, `StaticList`, `FlowRunner`, `ObjectCells`) |

Correspondence with the code:

* One action is one access to shared memory, with the local work around it. A thread stands at a
  label (`pc`); the labels are named for what comes next. Template overloads that do the same are one
  action; whether the caller came through a `try_` or a `wait_` function is chosen at the start
  (`Modes`), where the code differs.
* An object is a model value: a producer's n-th object, a block's address, an object's address.
  Storage without an object is `Raw`.
* Stale loads. In `MpmcQueue` and `SpscQueue` a load of a slot's sequence or flag may return an older value of it than the
  latest (`StaleLoads`, operator `Seen`). A compare-and-swap acts on the latest value; weak ones may
  fail for no reason. Release and acquire are what makes the storage of a slot visible with its
  sequence: the models have storage change before the store that publishes it and let no thread read
  storage before it has read that store.
* `StaticList`: `next` is a plain field. A read of it after the node has left the list races with the
  node's new owner and returns anything (`Junk`).
* `FlowRunner`: a stage's callable is its effect on "value" or "error"; types, deferred composition and
  storage are left out. The two loads of the controller before a node are steps of their own. An
  executor is a set of tasks of which any is run next, before or after the `p` that queued it has
  returned (`inside`). `held` says which runner objects and which queued task hold the blueprint: the
  plain runner copies its handle into the task, the fast one moves it (`Hop`). `MayBeFast` names the runs
  that may use the fast runner; any of them may also use the plain one.
* `FutureTask`: task objects live in places and are moved between them; `refs` says who refers to a
  place. A call is three steps: the exchange of `fired_`, the execution, which moves the parameters out,
  and the answer to the promise. `std::promise` is external: it breaks its promise when it is destroyed
  or assigned to while open, and throws (`fault`) when it is satisfied twice or without a state.
* `GsourceExecutor`: the source may recurse, so a task may iterate the main context and start a round
  inside the round that runs it (`Recurse`, `outer`).
* `ObjectBoxes`: an operation is the sequence of constructor, destructor and assignment calls that its
  code makes, computed from the state it finds and carried out one call at a time (`todo`). A type is
  the set of its special members that are noexcept, which is all that the overloads choose by. A
  constructor that throws hands over to the handler of the try block and destroys the locals. The tag
  stands for `_state`, `_has_value` and `_vtable`.
* `HazardPtr` is sequentially consistent; `HazardPtrTso` lets the release stores wait in a buffer,
  as x86 does.

## What the runs check

| Run | Bounds | Shows |
|---|---|---|
| `mpmc` | 2 producers, 2 consumers, 2 slots, 2 operations each, try and wait calls, current loads | type, `ExclusiveSlot`, `StorageMatchesUse`, `ParityTellsContent`, refinement of `BoundedFifo`; a refusal at the current ticket means full or empty, or an operation in progress (`AnswersExact`); who still waits in the end waits on a full or an empty ring (`WaitsAreForSomething`) |
| `mpmc_wrap` (violation) | 4 slots, counters modulo `Word` | after the wrap an empty queue answers full |
| `spsc` | 2 slots, 4 operations, stale loads | type, storage, destructor, refinement; who still waits in the end waits on a full or an empty ring (`WaitsAreForSomething`) |
| `mpsc_double_claim` (violation) | 2 slots | a slot is claimed twice |
| `gsource` | 3 producers and the loop, 2 slots, 1 task a round, 1 round inside another, eventfd counts to 2 | no lost wake-up, order, every task runs, no leak at shutdown |
| `mem_pool` | 2 threads, 2 classes (2 blocks and 1 block), 2 allocations a thread | chains, nodes and their objects, blocks and their sizes, refinement of `LifoLists`, lock freedom |
| `hazard` | 3 threads, 2 records, 2 objects, 4 calls | no use after free, no double delete, exclusive records, calls return |
| `hazard_tso` (violation) | 2 threads | a use after free |
| `flow` | 3 pipelines, 2 runs (one started twice, one with the plain or the fast runner), 2 executors, 2 cancels | a hard cancel stops within one node, a soft one reaches the end as an error, the blueprint outlives its use, runs implement the stages, the aggregator's flags, counts and results agree and all become ready |
| `flow_via` (violation) | 1 pipeline with two vias of one type in a row | the second via is dropped |
| `future` | 2 tasks (one returns a `result_t`), 2 threads, 3 places, 1 shared reference | no fault inside a noexcept function, refinement of `TaskOutcomes`, every future becomes ready |
| `objects` | 2 boxes, 2 values; seven types as T, three as U; every constructor that may throw does | `CellsUsedRightly`, `NothingLeaksNorLies`, refinement of `ValueBoxes`: whole effect or none, with two exceptions (below) |

Why the bounds are enough: the rings go round at least twice (more operations than slots); the lists
are emptied and reach the next class; ABA needs two blocks of one class and one thread that takes
both (the mutant `FillSameSequence` shows that it happens); three threads on two records exhaust
them; two objects are enough to reuse an address that a stale reader still has. The pipelines of
`flow` fuse, overflow a node (`MaxZip`), begin and end with control nodes, replace and drop one, and have
a handler on either side of one; two runs are needed for the aggregator, and one of them is started again
once its first run is over and no `p` of it is still inside, so that results arrive for a slot that is
already ready. In `future` three places let a task be moved on
while another one is assigned over, and one shared reference lets two threads race in one call. An operation on containers involves
two of them and a temporary; the seven types take every overload of `emplace_at`, of the wrappers'
`emplace` and of the strong and the weak `inplace_t::emplace`, and `solid` is too big for the buffer.

`mpmc` runs with current loads because `AnswersExact` is about them; that the other safety properties
hold with stale loads too is proved (below), and `spsc` runs with them.

### Disagreements with the documentation

* `mpmc_wrap`: for 4 or more slots the queue refuses on an empty ring after the ticket has wrapped; a
  matter of 2^32 operations on a 32-bit `size_t`.
* `mpsc_double_claim`: the flag of `mpsc_queue` has no lap, so a producer that stays in its slot while
  the others go round shares it with another. `GsourceExecutor` is therefore checked under the
  assumption `Prompt`: no producer is delayed for a lap.
* `hazard_tso`: a fence is missing in `acquire_protected`.
* `flow_via`: README.md:56 lets control nodes override previous ones; a via right after a via of the same
  type is dropped instead. `flow` gives every executor in such a row a type of its own or repeats the
  very same executor, where the two readings agree.
* Without a run: README.md:81 says that a soft cancel terminates at the next control boundary. The runner
  goes on through all nodes with an error as input, and control nodes still hop; `SoftReachesEnd` states
  what the code does.
* No disagreement, since nothing documents a guarantee for them: two operations of `inplace_t` may throw
  and leave their box empty. The `emplace` for a type that nothing can replace safely destroys the old
  value first. `steal` moves the value into a local, destroys the box and then makes its result by a second
  move (`return std::move(t)`, inplace_t.h:527): if that one throws, the value is lost. `ValueBoxes`
  allows an empty box exactly there (`weak`, set by `WeakIn`), and the tag must still be right.

## Fairness

* `mpmc`, `spsc`: weak fairness of the steps of every thread inside a call (the scheduler runs
  every thread), strong fairness where a weak compare-and-swap may fail for no reason, and in `spsc`
  where a stale load may miss a flag (a store becomes visible in the end). Nobody is
  obliged to start a call: `WaitsAreForSomething` speaks of what the others have left, after the last of
  the bounded number of calls (in `spsc` the pops are not bounded). In `spsc` it says that a producer that is at
  it for ever meets a full ring and a consumer that does not pop, and that a consumer that waits, or
  comes back again and again, has got every object.
* `gsource`: weak fairness of the loop and of dispatching producers. GLib's poll is level-triggered,
  so a non-zero eventfd is always dispatched in the end. Tasks iterate the context as they like.
* `mem_pool`: every thread but one; that one may stop with a node in its hands.
* `hazard`: every thread inside a call goes on, so a reader gives its record back.
* `flow`: a run that has been started goes on, and executors run what they are given; nobody has to
  start a run or cancel. `AllBecomeReady` speaks of the runs that were started.
* `future`: a call goes on, and nobody keeps a task for ever: each reference to one that was not moved
  away is dropped in the end (strong fairness, since its thread may be busy in between). A program that
  keeps an unrun task keeps its future pending, whatever the code does.
* `objects` has no liveness.

## Proofs

All theorems hold for any values of the constants that satisfy the assumptions named in the modules;
TLC evaluates these in every run. Each proof is an inductive invariant `Inv` with one lemma per action
and one step per conjunct; `InvHolds` is `Spec => []Inv`, and the theorems follow from it.

* `MpmcQueue_proofs` (positive capacity, values distinct from `Raw`; any entry points and stale values):
  types, `ExclusiveSlot`, `StorageMatchesUse`, `ParityTellsContent`, refinement of `BoundedFifo`; with
  current loads also `AnswersExact`. `ExclusiveSlot` is not inductive. The invariant adds, for every ticket between `_h` and `_t` and for
  every ticket that a thread owns, what sequence its slot has, and that all tickets in use lie within one
  lap (`WindowDistinct`), so that two of them with one slot are the same ticket. A stale sequence is
  harmless because sequences only grow, and a thread's ticket can only be claimed if the sequence it saw
  is the one its ticket waits for.
* `SpscQueue_proofs` (the same assumptions): types, storage, the destructor, refinement of `BoundedFifo`.
  The flags are set exactly on the slots of published and not yet cleared tickets, at most a capacity of
  them. The lemmas about slots (`SlotOfTicket`, `WindowDistinct`, `LapCoversSlots`) are the arithmetic of
  `i % Capacity` that both need.
* `GsourceExecutor_proofs` (the executor's assumption; theorems have the hypothesis `Prompt`, that no
  producer is delayed for a lap, which `mpsc_double_claim` shows to be needed): storage, destructor and
  the refinement of `BoundedFifo` for `mpsc_queue`; on top of it `NoLostWakeUp` and `TasksRunInOrder`.
  Everything is told in tickets: those below `Cleared` have left their slots, those below `Taken` have
  been popped, and each ticket of the lap from `Cleared` on has a slot of its own that is being cleared,
  claimed, published or free. The wake-up invariant says what a task in the queue may count on: an event in the
  eventfd, a dispatcher that is about to write one, or a round that has still to look.
* `StaticMemPool_proofs` (at most four lines, as in the code, and a largest size that halves evenly
  down to the smallest; theorems have the hypothesis `NoWrap`: the tag has more values than a behaviour has emplaces):
  `ChainsLinked` and `NodesAccounted` of the list and its refinement of `LifoLists`; `BlocksAccounted` and
  `NoBlockIsDropped` of the pool. A node is in one chain or in the hands of one thread. The CAS of a pop
  succeeds on a node that may have left and come back (ABA), with a `next` read earlier. The invariant
  gives each remembered tag an age: as long as no emplace has renewed the tag, the node has not left, and its
  `next` is the one that was read. `Budget` bounds the tags still to come. A block has one home, and since
  each line has a node for every block that can reach it, an emplace always finds a free one (a pigeonhole argument).
* `HazardPtr_proofs` (at least one record and room for one retired object, finitely many objects):
  `NoUseAfterFree`, `RecordsExclusive`, `RetiredOnce`. The heart is `UsedIsSafe`: for an object in use, no
  scan has gone past the record that protects it. It becomes true at the reload, because an object that
  is still linked (`LinkedIsLive`) is in nobody's hands, and a scan for it begins later, at the first
  record (`LoopsBeginAtFirst`); it stays true because a scan stops at a record that holds its object
  (`HazardHolds`). `ListIsRetired` and `DecidedIsRetired` say that retired objects are in one place only, and
  `RoomForAll` counts them. The proof rests on the store of `protect` being visible at once, which is the
  step that fails in `hazard_tso`.
* `FlowAggregator_proofs` (finitely many runs; pipelines are sequences of any length): `HardStopsSoon`,
  since a run that has begun a node after a hard cancel is not between the two tests of the controller
  (`LateIsWarned`); `ReadyMeansStored` and `ReadyIsFinal`, from the order of the three stores of a delegate
  (`SlotsInOrder`) and the exact meaning of the count (`CountIsExact`). `SoftReachesEnd` and
  `BlueprintOutlivesUse` rest on `RunnerInv`: the shape of a blueprint, by induction over the pipeline it
  was composed from; which frames the caller and the executors may stand in; and that every one of them has a
  handle, copied or moved. `ImplementsStages` is proved under `RowsAgree` (executors in a row have distinct types, or
  are the same), which is what `flow_via` violates. `StagesInv` places each part of each node at the stage
  it was written for (`Placed`: the offset of every node in the stages that remain), so that what a run
  has passed, summed over the nodes, is a prefix of the stages.
* `FutureTask_proofs` (model values distinct): `NoFault` and the refinement of `TaskOutcomes`. No two
  places have the same promise; an object whose flag is clear has its parameters and an open promise
  (`UnfiredIsRunnable`); one whose flag is set and whose promise is open has exactly one caller between
  the exchange and the answer (`OneWinner`, `FiredIsTold`), and a place with a caller is not moved from or
  dropped (`CallersRefer`). So a promise that is given up while open belongs to a task that never ran.
* `ObjectBoxes_proofs` (any boxes, values and types; model values distinct from each other, and, as the
  code asserts statically, a `U` that can be moved or copied without throwing): `CellsUsedRightly`,
  `NothingLeaksNorLies` and the refinement of `ValueBoxes`. An operation is a list of calls of any length that may
  be cut short at every constructor. `Fine` says of what is left of one that it runs to its end without
  touching a cell wrongly, and ends with one of the outcomes that `ValueBoxes` allows (`Outcomes`),
  along the exception's way as well, that is with the handler of the try block and the
  destructors of the locals. `Inv` says that an operation under way is fine and that boxes at rest are
  as their tags say (`Tidy`). `FineGoesOn` makes it inductive, whatever the operation; that each begins fine
  is shown from the rules for one call (`MakeCall`, `DropCall`, ...), up over its parts (`Places`: an
  object is put into a box; `Does`: tidy boxes to tidy boxes with given values), to the calls of the program
  (`Safely`). The strong guarantee comes from one fact in each emplace: when a constructor may
  throw, either nothing has changed yet or the handler and the locals bring the old state back (`Unwinds`).
  The exceptions are the emplace of an `inplace_t` whose type nothing can replace safely and a steal of a
  type whose move may throw (`weak`): they may lose the value, and leave the box empty (`InplaceStealFine`).

Induction over data (a pipeline, a chain, a set of blocks) is carried out through the least
counterexample of a set of numbers (`UpTo`), since the induction theorems of the library take operators.

Only model-checked: everything temporal under fairness (out of reach of the prover), and the wrap-around.
Every invariant of a passing run is stated by a theorem.

## Not modelled, and the plan

The plan's modules are written: the queues and the executor, the list and the pool, the hazard pointers,
the flows, the value containers, the future tasks. Worth doing next, in this order:

1. `hazard_ptr` objects that are moved, and the heap-allocated retire list (`USE_HEAP_ALLOCATED`).
2. Containers of another type as sources of `either_t` and `inplace_t`, and a type whose swap throws.

Left out, and why:

* `traits` and `compressed_pair`: compile time, no state. `yield`: a hint; fairness stands for it.
* `size()` and `empty()` of the queues: two unrelated relaxed loads without a promise.
* In `MpscQueue`, loads that are not current. An older `_t` fails in the CAS, an older `ready` is one more
  miss; both are retried or given up as they would be anyway.
* What a refusal of `mpmc_queue` with an outdated ticket means: contention, and nothing about the ring.
  `AnswersExact` is about the current ticket.
* Two starts of one flow runner at the same time, or one while a `p` of the one before is still inside.
  `Start` waits for both. Two runners of one blueprint and one controller are modelled.
* A destruction of the executor in steps: `Shutdown` is one, taken when nothing runs.
* A retire list that overflows (the object is leaked, see `Keep`), and a thread that sweeps while it
  protects a retired object itself (it spins for ever).
* A `p` of a node that returns after the task of a *fast* runner is through: the blueprint it returns into
  is gone. `BlueprintOutlivesUse` covers a fast run while it is at work.
* `bad_alloc` in the emplace of an erasing wrapper on the heap: it is thrown before anything is destroyed.
* A task that iterates the main context *blocking* (with or without recursion of other sources): the
  eventfd has been read by the outer round, so it can sleep with tasks in the queue until the next
  dispatch. `Recurse` is the iteration that does not block.
* A failing `eventfd`, which makes the constructor throw before anything else exists.
* An executor that only the blueprint owns: it would be destroyed inside its own `dispatch` when the task
  that holds the blueprint ends first. The models assume that executors outlive the flows, as the one in
  the example of the repository's README.md does. View storage, where the blueprint's lifetime is the program's business.
* Parameters of a task whose move constructor throws, `swap` and the accessors of `task_core`.
* Sources of another container type for `either_t` and `inplace_t`: the same steps.
* A `max_block_size` that is no multiple of 8: the pool then files blocks under the wrong class, which
  nothing asserts against. The wrap of a 64-bit tag.
