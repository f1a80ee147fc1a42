------------------------------ MODULE LifoLists ------------------------------
(***************************************************************************)
(* What a static_list (utility/static_list.h) promises: a stack of at most  *)
(* Cap values, whose pop hands the value pushed last to its caller. Lists   *)
(* names the stacks of a program that uses several.                        *)
(*                                                                         *)
(* An operation that finds no room or no value changes nothing here.        *)
(***************************************************************************)
EXTENDS Naturals, Sequences

CONSTANTS
  Threads,
  Lists,   \* the stacks
  Values,  \* what they hold
  Cap,     \* Cap[l]: the template parameter capacity of l
  Raw      \* no value

VARIABLES
  stack,  \* stack[l]: the values of l, the last one pushed first
  popped  \* popped[th]: what th has popped and not returned yet, or Raw

vars == <<stack, popped>>

Init ==
  /\ stack = [l \in Lists |-> <<>>]
  /\ popped = [th \in Threads |-> Raw]

Push(l, v) ==
  /\ Len(stack[l]) < Cap[l]
  /\ stack' = [stack EXCEPT ![l] = <<v>> \o @]
  /\ UNCHANGED popped

Pop(l, th) ==
  /\ stack[l] # <<>> /\ popped[th] = Raw
  /\ popped' = [popped EXCEPT ![th] = Head(stack[l])]
  /\ stack' = [stack EXCEPT ![l] = Tail(@)]

Return(th) ==
  /\ popped[th] # Raw
  /\ popped' = [popped EXCEPT ![th] = Raw]
  /\ UNCHANGED stack

Next ==
  \/ \E l \in Lists, v \in Values : Push(l, v)
  \/ \E th \in Threads : Return(th) \/ \E l \in Lists : Pop(l, th)

Spec == Init /\ [][Next]_vars
=============================================================================
