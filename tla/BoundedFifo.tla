---------------------------- MODULE BoundedFifo ----------------------------
(***************************************************************************)
(* What every queue of utility/concurrent_queues.h promises about the      *)
(* operations that succeed: an emplace appends its object to one total     *)
(* order, a pop hands out the objects of that order one by one, each to    *)
(* exactly one consumer, and at most Capacity objects are inside.          *)
(*                                                                         *)
(* An operation that gives up (try_* on a full, empty or contended queue)  *)
(* changes nothing here: it is a stuttering step.                          *)
(***************************************************************************)
EXTENDS Naturals, Sequences

CONSTANTS
  Values,     \* the objects that may be put into the queue
  Takers,     \* the threads that pop
  Capacity,   \* the number of slots
  None        \* what a taker holds before its first pop

VARIABLES
  log,        \* every object ever emplaced, in the order of the emplaces
  taken,      \* how many of them have been popped
  got         \* got[c]: the object the last pop of c returned

fifoVars == <<log, taken, got>>

Init ==
  /\ log = <<>>
  /\ taken = 0
  /\ got = [c \in Takers |-> None]

Put(x) ==
  /\ Len(log) - taken < Capacity
  /\ log' = Append(log, x)
  /\ UNCHANGED <<taken, got>>

Get(c) ==
  /\ taken < Len(log)
  /\ taken' = taken + 1
  /\ got' = [got EXCEPT ![c] = log[taken + 1]]
  /\ UNCHANGED log

Next == (\E x \in Values : Put(x)) \/ (\E c \in Takers : Get(c))

Spec == Init /\ [][Next]_fifoVars
=============================================================================
