------------------------------ MODULE MpmcWrap ------------------------------
(***************************************************************************)
(* mpmc_queue with the machine's integers. MpmcQueue counts tickets and    *)
(* sequences in Nat; the code counts them in size_t, modulo 2^Bits. One    *)
(* thread calls try_emplace and try_pop in any order, for as long as it    *)
(* takes the tickets to wrap around.                                       *)
(***************************************************************************)
EXTENDS Integers

CONSTANTS
  Capacity,  \* the template parameter, a power of 2
  Bits       \* the width of size_t, so that Capacity <= 2^(Bits - 1)

VARIABLES
  sequence,  \* sequence[s]: the atomic of slot s
  h, t,      \* _h and _t
  inside,    \* history: the number of objects in the queue
  answer     \* what the last call returned

vars == <<sequence, h, t, inside, answer>>

Word == 2^Bits
Slots == 0 .. Capacity - 1

(* i & bit_msk, and the sequences the two sides wait for in the slot *)
Slot(i) == i % Capacity
EmptySeq(i) == (2 * (i \div Capacity)) % Word
ReadySeq(i) == (EmptySeq(i) + 1) % Word

(* (ptrdiff_t)(a - b) < 0 *)
Behind(a, b) == (a - b) % Word >= Word \div 2

Init ==
  /\ sequence = [s \in Slots |-> 0]
  /\ h = 0 /\ t = 0
  /\ inside = 0
  /\ answer = "none"

TryEmplace ==
  LET seq == sequence[Slot(t)] IN
  \/ /\ seq = EmptySeq(t)
     /\ t' = (t + 1) % Word
     /\ sequence' = [sequence EXCEPT ![Slot(t)] = (seq + 1) % Word]
     /\ inside' = inside + 1
     /\ answer' = "pushed"
     /\ UNCHANGED h
  \/ /\ seq # EmptySeq(t)
     /\ answer' = IF Behind(seq, EmptySeq(t)) THEN "full" ELSE "contended"
     /\ UNCHANGED <<sequence, h, t, inside>>

TryPop ==
  LET seq == sequence[Slot(h)] IN
  \/ /\ seq = ReadySeq(h)
     /\ h' = (h + 1) % Word
     /\ sequence' = [sequence EXCEPT ![Slot(h)] = (seq + 1) % Word]
     /\ inside' = inside - 1
     /\ answer' = "popped"
     /\ UNCHANGED t
  \/ /\ seq # ReadySeq(h)
     /\ answer' = "empty"
     /\ UNCHANGED <<sequence, h, t, inside>>

Next == TryEmplace \/ TryPop

Spec == Init /\ [][Next]_vars

-----------------------------------------------------------------------------
(* The comment "full" at the early return of try_emplace: that answer is given
   only when every slot holds an object. *)
FullMeansFull == answer = "full" => inside = Capacity
=============================================================================
