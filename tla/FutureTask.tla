----------------------------- MODULE FutureTask -----------------------------
(***************************************************************************)
(* lite_fnds::future_task (task/future_task.h) on top of the task of        *)
(* task/task_core.h: a callable with its parameters, a std::promise and the *)
(* flag fired_.                                                            *)
(*                                                                         *)
(* Task objects live in places: a variable, the buffer or the heap cell of  *)
(* a task_wrapper, a cell of a shared_ptr. They are moved from place to     *)
(* place and handed to other threads; several threads that refer to the     *)
(* same place may call it at the same time, and only the first exchange of  *)
(* fired_ runs the callable. Running moves the parameters out.              *)
(*                                                                         *)
(* std::promise is external: its state is given up, and its future told so, *)
(* when the promise is destroyed or assigned to before it was satisfied; to *)
(* satisfy a promise without a state, or twice, throws, and operator() is   *)
(* noexcept. The move of a parameter does not throw.                        *)
(*                                                                         *)
(* The program moves, assigns and drops a task only through the last        *)
(* reference to its place, and does not call a task it has moved away.      *)
(***************************************************************************)
EXTENDS Naturals

CONSTANTS
  Tasks,        \* the tasks that are ever made
  ResultTasks,  \* those whose callable returns a result_t
  Threads,
  Places,
  Nowhere,
  MaxShares,    \* bound: how often a reference to a task is copied
  Gone,         \* what is left of a callable and parameters that were moved out
  NoState       \* a promise that was moved from

ASSUME FutureAssumption ==
  /\ ResultTasks \subseteq Tasks
  /\ Gone \notin Tasks /\ NoState \notin Tasks /\ Nowhere \notin Places
  /\ MaxShares \in Nat

VARIABLES
  refs,     \* refs[p]: the threads that refer to the object in p; none, no object
  data,     \* data[p]: the task whose callable and parameters are in p
  promise,  \* promise[p]: the task whose promise is in p
  fired,    \* fired_
  shares,
  pc,       \* pc[th]: "idle", or where in operator() th stands
  here,     \* here[th]: the place whose task th calls
  result,   \* result[th]: the local of run, "value" or "error"
  body,     \* body[k]: what the callable of k did, "unrun" before
  future,   \* future[k]: the shared state of k, "unmade" before
  fault     \* history: what went wrong inside a noexcept function

places == <<refs, data, promise, fired, shares>>
calls == <<pc, here, result>>
vars == <<places, calls, body, future, fault>>

Init ==
  /\ refs = [p \in Places |-> {}]
  /\ data = [p \in Places |-> Gone]
  /\ promise = [p \in Places |-> NoState]
  /\ fired = [p \in Places |-> FALSE]
  /\ shares = 0
  /\ pc = [th \in Threads |-> "idle"]
  /\ here = [th \in Threads |-> Nowhere]
  /\ result = [th \in Threads |-> "value"]
  /\ body = [k \in Tasks |-> "unrun"]
  /\ future = [k \in Tasks |-> "unmade"]
  /\ fault = "none"

(* The promise in p is destroyed or overwritten. *)
Abandoned(p) ==
  [k \in Tasks |-> IF k = promise[p] /\ future[k] = "pending" THEN "broken" ELSE future[k]]

-----------------------------------------------------------------------------
(* What the program does with a task it is not calling *)

(* make_future_task, and get_future on the new object *)
Make(th, p, k) ==
  /\ pc[th] = "idle" /\ refs[p] = {} /\ future[k] = "unmade"
  /\ refs' = [refs EXCEPT ![p] = {th}]
  /\ data' = [data EXCEPT ![p] = k]
  /\ promise' = [promise EXCEPT ![p] = k]
  /\ fired' = [fired EXCEPT ![p] = FALSE]
  /\ future' = [future EXCEPT ![k] = "pending"]
  /\ UNCHANGED <<shares, calls, body, fault>>

Share(th, p, u) ==
  /\ pc[th] = "idle" /\ th \in refs[p] /\ u \notin refs[p] /\ promise[p] # NoState
  /\ shares < MaxShares
  /\ shares' = shares + 1
  /\ refs' = [refs EXCEPT ![p] = @ \cup {u}]
  /\ UNCHANGED <<data, promise, fired, calls, body, future, fault>>

(* Mutant: the new object starts with a flag of its own. *)
MoveConstructUnfired(th, p, q, u) ==
  /\ pc[th] = "idle" /\ refs[p] = {th} /\ refs[q] = {} /\ promise[p] # NoState
  /\ refs' = [refs EXCEPT ![q] = {u}]
  /\ data' = [data EXCEPT ![q] = data[p], ![p] = Gone]
  /\ promise' = [promise EXCEPT ![q] = promise[p], ![p] = NoState]
  /\ fired' = [fired EXCEPT ![q] = FALSE]
  /\ UNCHANGED <<shares, calls, body, future, fault>>

(* The move constructor builds q from p, for th or for another thread u. *)
MoveConstruct(th, p, q, u) ==
  /\ pc[th] = "idle" /\ refs[p] = {th} /\ refs[q] = {} /\ promise[p] # NoState
  /\ refs' = [refs EXCEPT ![q] = {u}]
  /\ data' = [data EXCEPT ![q] = data[p], ![p] = Gone]
  /\ promise' = [promise EXCEPT ![q] = promise[p], ![p] = NoState]
  /\ fired' = [fired EXCEPT ![q] = fired[p]]
  /\ UNCHANGED <<shares, calls, body, future, fault>>

(* Mutant: the promise stays behind. *)
MoveAssignData(th, p, q) ==
  /\ pc[th] = "idle" /\ p # q /\ refs[p] = {th} /\ refs[q] = {th} /\ promise[p] # NoState
  /\ data' = [data EXCEPT ![q] = data[p], ![p] = Gone]
  /\ fired' = [fired EXCEPT ![q] = fired[p]]
  /\ UNCHANGED <<refs, promise, shares, calls, body, future, fault>>

(* Move assignment: the task that was in q is given up. *)
MoveAssign(th, p, q) ==
  /\ pc[th] = "idle" /\ p # q /\ refs[p] = {th} /\ refs[q] = {th} /\ promise[p] # NoState
  /\ data' = [data EXCEPT ![q] = data[p], ![p] = Gone]
  /\ promise' = [promise EXCEPT ![q] = promise[p], ![p] = NoState]
  /\ fired' = [fired EXCEPT ![q] = fired[p]]
  /\ future' = Abandoned(q)
  /\ UNCHANGED <<refs, shares, calls, body, fault>>

(* Mutant: the last reference goes and nobody runs the destructor. *)
DropLeaks(th, p) ==
  /\ pc[th] = "idle" /\ th \in refs[p]
  /\ refs' = [refs EXCEPT ![p] = @ \ {th}]
  /\ UNCHANGED <<data, promise, fired, shares, calls, body, future, fault>>

(* The last reference takes the object with it. *)
Drop(th, p) ==
  /\ pc[th] = "idle" /\ th \in refs[p]
  /\ refs' = [refs EXCEPT ![p] = @ \ {th}]
  /\ \/ /\ refs[p] = {th}
        /\ data' = [data EXCEPT ![p] = Gone]
        /\ promise' = [promise EXCEPT ![p] = NoState]
        /\ fired' = [fired EXCEPT ![p] = FALSE]
        /\ future' = Abandoned(p)
     \/ refs[p] # {th} /\ UNCHANGED <<data, promise, fired, future>>
  /\ UNCHANGED <<shares, calls, body, fault>>

-----------------------------------------------------------------------------
(* operator() *)

Call(th, p) ==
  /\ pc[th] = "idle" /\ th \in refs[p] /\ promise[p] # NoState
  /\ pc' = [pc EXCEPT ![th] = "fire"]
  /\ here' = [here EXCEPT ![th] = p]
  /\ UNCHANGED <<places, result, body, future, fault>>

(* fired_.exchange: all but the first return *)
Fire(th) ==
  /\ pc[th] = "fire"
  /\ pc' = [pc EXCEPT ![th] = IF fired[here[th]] THEN "idle" ELSE "execute"]
  /\ here' = [here EXCEPT ![th] = IF fired[@] THEN Nowhere ELSE @]
  /\ fired' = [fired EXCEPT ![here[th]] = TRUE]
  /\ UNCHANGED <<refs, data, promise, shares, result, body, future, fault>>

(* task_impl::do_execute: unpack_param moves the parameters into the call, and an
   exception becomes an error of the result *)
Execute(th) ==
  LET k == data[here[th]] IN
  /\ pc[th] = "execute"
  /\ pc' = [pc EXCEPT ![th] = "tell"]
  /\ data' = [data EXCEPT ![here[th]] = Gone]
  /\ \/ /\ k # Gone
        /\ \E o \in {"value", "throws"} \cup (IF k \in ResultTasks THEN {"error"} ELSE {}) :
             /\ body' = [body EXCEPT ![k] = o]
             /\ result' = [result EXCEPT ![th] = IF o = "value" THEN "value" ELSE "error"]
        /\ UNCHANGED fault
     \/ /\ k = Gone
        /\ fault' = "ran without parameters"
        /\ UNCHANGED <<body, result>>
  /\ UNCHANGED <<refs, promise, fired, shares, here, future>>

(* Mutant: only values are told. *)
TellValues(th) ==
  LET k == promise[here[th]] IN
  /\ pc[th] = "tell"
  /\ pc' = [pc EXCEPT ![th] = "idle"]
  /\ future' = [future EXCEPT ![k] = IF result[th] = "value" THEN "value" ELSE @]
  /\ here' = [here EXCEPT ![th] = Nowhere]
  /\ result' = [result EXCEPT ![th] = "value"]
  /\ UNCHANGED <<places, body, fault>>

(* set_value or set_exception, by the three overloads of run *)
Tell(th) ==
  LET k == promise[here[th]] IN
  /\ pc[th] = "tell"
  /\ pc' = [pc EXCEPT ![th] = "idle"]
  /\ \/ /\ k # NoState /\ future[k] = "pending"
        /\ future' = [future EXCEPT ![k] =
             IF k \in ResultTasks \/ result[th] = "value" THEN result[th] ELSE "exception"]
        /\ UNCHANGED fault
     \/ /\ k = NoState \/ future[k] # "pending"
        /\ fault' = "future_error"
        /\ UNCHANGED future
  /\ here' = [here EXCEPT ![th] = Nowhere]
  /\ result' = [result EXCEPT ![th] = "value"]
  /\ UNCHANGED <<places, body>>

CallStep(th) == Fire(th) \/ Execute(th) \/ Tell(th)

Next ==
  \E th \in Threads :
    \/ CallStep(th)
    \/ \E p \in Places :
         \/ Call(th, p) \/ Drop(th, p)
         \/ \E k \in Tasks : Make(th, p, k)
         \/ \E u \in Threads : Share(th, p, u)
         \/ \E q \in Places : MoveAssign(th, p, q)
         \/ \E q \in Places, u \in Threads : MoveConstruct(th, p, q, u)

Spec == Init /\ [][Next]_vars

(* Calls go on, and nobody keeps a task for ever: a reference to one that was not
   moved away is dropped in the end, whatever its thread does in between. *)
FairSpec ==
  /\ Spec
  /\ \A th \in Threads : WF_vars(CallStep(th))
  /\ \A th \in Threads, p \in Places : SF_vars(Drop(th, p) /\ promise[p] # NoState)

-----------------------------------------------------------------------------
(* No call runs a callable whose parameters an earlier run or a move took, and none
   throws out of its noexcept operator(): for whoever wins the exchange the promise
   is there and open, wherever the task was moved and however many call it. *)
NoFault == fault = "none"

(* Moves, assignments, racing calls and destructors, taken together, are what
   TaskOutcomes promises: one run, one answer, the answer of that run. *)
Promised == INSTANCE TaskOutcomes

ImplementsOutcomes == Promised!Spec

(* Who waits for a future gets an answer: of the run, or that there will be none. *)
EveryFutureBecomesReady ==
  \A k \in Tasks : future[k] = "pending" ~> future[k] # "pending"
=============================================================================
