---------------------------- MODULE TaskOutcomes ----------------------------
(***************************************************************************)
(* What a future_task promises to the one who holds its future: the         *)
(* callable runs at most once, the future becomes ready once and tells what *)
(* that very run did, and if the task is given up without having run the    *)
(* future says so.                                                         *)
(***************************************************************************)
CONSTANTS
  Tasks,       \* the tasks that are ever made
  ResultTasks  \* those whose callable returns a result_t

VARIABLES
  body,   \* body[k]: what the callable of k did, "unrun" before
  future  \* future[k]: what the future of k says, "unmade" before there is one

vars == <<body, future>>

(* A callable returns, or throws; a result_t may carry an error too. *)
Outcomes(k) == IF k \in ResultTasks THEN {"value", "error", "throws"} ELSE {"value", "throws"}

(* An exception reaches the future as an exception, unless the callable's result_t
   has room for it. *)
Told(k, outcome) ==
  IF outcome = "value" THEN "value" ELSE IF k \in ResultTasks THEN "error" ELSE "exception"

Init ==
  /\ body = [k \in Tasks |-> "unrun"]
  /\ future = [k \in Tasks |-> "unmade"]

Make(k) ==
  /\ future[k] = "unmade"
  /\ future' = [future EXCEPT ![k] = "pending"]
  /\ UNCHANGED body

Run(k) ==
  /\ future[k] = "pending" /\ body[k] = "unrun"
  /\ \E o \in Outcomes(k) : body' = [body EXCEPT ![k] = o]
  /\ UNCHANGED future

Tell(k) ==
  /\ future[k] = "pending" /\ body[k] # "unrun"
  /\ future' = [future EXCEPT ![k] = Told(k, body[k])]
  /\ UNCHANGED body

GiveUp(k) ==
  /\ future[k] = "pending" /\ body[k] = "unrun"
  /\ future' = [future EXCEPT ![k] = "broken"]
  /\ UNCHANGED body

Next == \E k \in Tasks : Make(k) \/ Run(k) \/ Tell(k) \/ GiveUp(k)

Spec == Init /\ [][Next]_vars
=============================================================================
