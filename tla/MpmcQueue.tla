----------------------------- MODULE MpmcQueue -----------------------------
(***************************************************************************)
(* lite_fnds::mpmc_queue (utility/concurrent_queues.h).                    *)
(*                                                                         *)
(* A ring of Capacity slots. Each slot carries a sequence: 2r while the    *)
(* slot waits for the producer of round r, 2r + 1 while it holds the       *)
(* object of round r. A thread claims ticket i by a compare-and-swap on    *)
(* _t (producers) or _h (consumers), works on slot i & bit_msk alone, and  *)
(* hands the slot on by storing the next sequence.                         *)
(*                                                                         *)
(* Every atomic access is a step of its own, so that any other thread may  *)
(* run between the load of the ticket, the load of the sequence, the CAS,  *)
(* the construction or move of the object, and the store of the sequence.  *)
(* The loads of _t, _h are relaxed and the loads of sequence only acquire: *)
(* with StaleLoads they return any value the variable has ever had, which  *)
(* is weaker than what C++ allows (a thread never reads backwards there).  *)
(***************************************************************************)
EXTENDS Integers, Sequences

CONSTANTS
  Producers, Consumers,  \* the threads that emplace, the threads that pop
  Capacity,              \* the template parameter
  MaxOps,                \* bound: operations each thread starts
  Modes,                 \* which entry points are called: "try", "wait"
  StaleLoads,            \* whether a load may return an overwritten value
  Raw,                   \* a slot's storage with no object in it
  None                   \* a consumer's result before its first pop

ASSUME MpmcAssumption ==
  /\ Producers \cap Consumers = {}
  /\ Capacity \in Nat \ {0}
  /\ MaxOps \in Nat
  /\ Modes \subseteq {"try", "wait"}
  /\ StaleLoads \in BOOLEAN
  /\ Raw \notin Producers \X (0 .. MaxOps)
  /\ None \notin Producers \X (0 .. MaxOps)
  /\ Raw # None

VARIABLES
  sequence, \* sequence[s]: the atomic of slot s
  storage,  \* storage[s]: the object in slot s, or Raw
  h, t,     \* _h and _t
  pc,       \* where each thread stands in its operation
  idx,      \* the local i of each thread
  ops,      \* how many operations each thread has started
  got,      \* the object each consumer's last pop returned
  alive,    \* FALSE once the destructor has run
  log       \* history: the objects in the order their tickets were claimed

vars == <<sequence, storage, h, t, pc, idx, ops, got, alive, log>>

Threads == Producers \cup Consumers
Slots == 0 .. Capacity - 1
Values == Producers \X (0 .. MaxOps)

(* slot index and round of a ticket: i & bit_msk and i / capacity *)
Slot(i) == i % Capacity
Round(i) == i \div Capacity

(* the object of p's current emplace: no two emplaces share one *)
Obj(p) == <<p, ops[p]>>

(* what a load of an atomic counter whose latest value is cur may return *)
Seen(cur) == IF StaleLoads THEN 0 .. cur ELSE {cur}

Goto(th, to) == pc' = [pc EXCEPT ![th] = to]

(* The attempt failed: try_* returns false or empty, wait_* goes round. An
   attempt only reads until its CAS succeeds, so which entry point the thread
   is in shows here for the first time. *)
GiveUp(th) == \E m \in Modes : Goto(th, IF m = "try" THEN "idle" ELSE "load")

Init ==
  /\ sequence = [s \in Slots |-> 0]
  /\ storage = [s \in Slots |-> Raw]
  /\ h = 0 /\ t = 0
  /\ pc = [th \in Threads |-> "idle"]
  /\ idx = [th \in Threads |-> 0]
  /\ ops = [th \in Threads |-> 0]
  /\ got = [c \in Consumers |-> None]
  /\ alive = TRUE
  /\ log = <<>>

(* A thread calls try_emplace, wait_and_emplace, try_pop or wait_and_pop. *)
Begin(th) ==
  /\ alive /\ pc[th] = "idle" /\ ops[th] < MaxOps
  /\ ops' = [ops EXCEPT ![th] = @ + 1]
  /\ Goto(th, "load")
  /\ UNCHANGED <<sequence, storage, h, t, idx, got, alive, log>>

-----------------------------------------------------------------------------
(* Producers: try_emplace and wait_and_emplace *)

LoadTail(p) ==
  /\ pc[p] = "load"
  /\ \E i \in Seen(t) : idx' = [idx EXCEPT ![p] = i]
  /\ Goto(p, "check")
  /\ UNCHANGED <<sequence, storage, h, t, ops, got, alive, log>>

(* Mutant: the lap turns over one ticket early. *)
CheckTailEarlyLap(p) ==
  /\ pc[p] = "check"
  /\ \E v \in Seen(sequence[Slot(idx[p])]) :
       IF v = 2 * Round(idx[p] + 1) THEN Goto(p, "cas") ELSE GiveUp(p)
  /\ UNCHANGED <<sequence, storage, h, t, idx, ops, got, alive, log>>

CheckTail(p) ==
  /\ pc[p] = "check"
  /\ \E v \in Seen(sequence[Slot(idx[p])]) :
       IF v = 2 * Round(idx[p]) THEN Goto(p, "cas") ELSE GiveUp(p)
  /\ UNCHANGED <<sequence, storage, h, t, idx, ops, got, alive, log>>

(* Mutant: _t is stored, not compared and swapped. *)
ClaimTailByStore(p) ==
  /\ pc[p] = "cas"
  /\ t' = idx[p] + 1
  /\ log' = Append(log, Obj(p))
  /\ Goto(p, "owned")
  /\ UNCHANGED <<sequence, storage, h, idx, ops, got, alive>>

ClaimTail(p) ==
  /\ pc[p] = "cas"
  /\ t = idx[p]
  /\ t' = t + 1
  /\ log' = Append(log, Obj(p))
  /\ Goto(p, "owned")
  /\ UNCHANGED <<sequence, storage, h, idx, ops, got, alive>>

(* the CAS of wait_and_emplace is weak: it may fail although _t = i *)
MissTail(p) ==
  /\ pc[p] = "cas"
  /\ \/ t # idx[p] /\ GiveUp(p)
     \/ "wait" \in Modes /\ Goto(p, "load")
  /\ UNCHANGED <<sequence, storage, h, t, idx, ops, got, alive, log>>

Construct(p) ==
  /\ pc[p] = "owned"
  /\ storage' = [storage EXCEPT ![Slot(idx[p])] = Obj(p)]
  /\ Goto(p, "handover")
  /\ UNCHANGED <<sequence, h, t, idx, ops, got, alive, log>>

Publish(p) ==
  /\ pc[p] = "handover"
  /\ sequence' = [sequence EXCEPT ![Slot(idx[p])] = 2 * Round(idx[p]) + 1]
  /\ Goto(p, "idle")
  /\ UNCHANGED <<storage, h, t, idx, ops, got, alive, log>>

-----------------------------------------------------------------------------
(* Consumers: try_pop and wait_and_pop *)

LoadHead(c) ==
  /\ pc[c] = "load"
  /\ \E i \in Seen(h) : idx' = [idx EXCEPT ![c] = i]
  /\ Goto(c, "check")
  /\ UNCHANGED <<sequence, storage, h, t, ops, got, alive, log>>

(* Mutant: the consumer waits for the free sequence of its ticket. *)
CheckHeadUnready(c) ==
  /\ pc[c] = "check"
  /\ \E v \in Seen(sequence[Slot(idx[c])]) :
       IF v = 2 * Round(idx[c]) THEN Goto(c, "cas") ELSE GiveUp(c)
  /\ UNCHANGED <<sequence, storage, h, t, idx, ops, got, alive, log>>

CheckHead(c) ==
  /\ pc[c] = "check"
  /\ \E v \in Seen(sequence[Slot(idx[c])]) :
       IF v = 2 * Round(idx[c]) + 1 THEN Goto(c, "cas") ELSE GiveUp(c)
  /\ UNCHANGED <<sequence, storage, h, t, idx, ops, got, alive, log>>

(* Mutant: _h is stored, not compared and swapped. *)
ClaimHeadByStore(c) ==
  /\ pc[c] = "cas"
  /\ h' = idx[c] + 1
  /\ Goto(c, "owned")
  /\ UNCHANGED <<sequence, storage, t, idx, ops, got, alive, log>>

ClaimHead(c) ==
  /\ pc[c] = "cas"
  /\ h = idx[c]
  /\ h' = h + 1
  /\ Goto(c, "owned")
  /\ UNCHANGED <<sequence, storage, t, idx, ops, got, alive, log>>

(* both pops use the weak CAS *)
MissHead(c) ==
  /\ pc[c] = "cas"
  /\ GiveUp(c)
  /\ UNCHANGED <<sequence, storage, h, t, idx, ops, got, alive, log>>

(* Mutant: the moved-from object is left in the slot. *)
TakeWithoutDestroy(c) ==
  /\ pc[c] = "owned"
  /\ got' = [got EXCEPT ![c] = storage[Slot(idx[c])]]
  /\ Goto(c, "handover")
  /\ UNCHANGED <<sequence, storage, h, t, idx, ops, alive, log>>

(* move the object into the result and destroy it in place *)
Take(c) ==
  /\ pc[c] = "owned"
  /\ got' = [got EXCEPT ![c] = storage[Slot(idx[c])]]
  /\ storage' = [storage EXCEPT ![Slot(idx[c])] = Raw]
  /\ Goto(c, "handover")
  /\ UNCHANGED <<sequence, h, t, idx, ops, alive, log>>

(* Mutant: the slot is handed on with the sequence it had. *)
ReleaseUnchanged(c) ==
  /\ pc[c] = "handover"
  /\ sequence' = [sequence EXCEPT ![Slot(idx[c])] = 2 * Round(idx[c]) + 1]
  /\ Goto(c, "idle")
  /\ UNCHANGED <<storage, h, t, idx, ops, got, alive, log>>

Release(c) ==
  /\ pc[c] = "handover"
  /\ sequence' = [sequence EXCEPT ![Slot(idx[c])] = 2 * Round(idx[c]) + 2]
  /\ Goto(c, "idle")
  /\ UNCHANGED <<storage, h, t, idx, ops, got, alive, log>>

-----------------------------------------------------------------------------
(* ~mpmc_queue runs ~slot_t on every slot: an odd sequence means an object.
   Its caller must have no operation in progress. *)
Destroy ==
  /\ alive /\ \A th \in Threads : pc[th] = "idle"
  /\ alive' = FALSE
  /\ storage' = [s \in Slots |-> IF sequence[s] % 2 = 1 THEN Raw ELSE storage[s]]
  /\ UNCHANGED <<sequence, h, t, pc, idx, ops, got, log>>

ProducerStep(p) ==
  \/ LoadTail(p) \/ CheckTail(p) \/ ClaimTail(p) \/ MissTail(p)
  \/ Construct(p) \/ Publish(p)

ConsumerStep(c) ==
  \/ LoadHead(c) \/ CheckHead(c) \/ ClaimHead(c) \/ MissHead(c)
  \/ Take(c) \/ Release(c)

Next ==
  \/ \E th \in Threads : Begin(th)
  \/ \E p \in Producers : ProducerStep(p)
  \/ \E c \in Consumers : ConsumerStep(c)
  \/ Destroy

Spec == Init /\ [][Next]_vars

(* Every thread keeps running while it is inside a call, and a CAS that stays
   possible succeeds in the end: a weak CAS fails spuriously only finitely often. *)
Fairness ==
  /\ \A p \in Producers : WF_vars(ProducerStep(p)) /\ SF_vars(ClaimTail(p))
  /\ \A c \in Consumers : WF_vars(ConsumerStep(c)) /\ SF_vars(ClaimHead(c))

FairSpec == Spec /\ Fairness

-----------------------------------------------------------------------------
(* Type correctness, and the arithmetic of the two counters: the ring never
   holds more tickets than slots and no ticket is popped before it is pushed. *)
TypeOK ==
  /\ sequence \in [Slots -> Nat]
  /\ storage \in [Slots -> Values \cup {Raw}]
  /\ h \in Nat /\ t \in Nat
  /\ pc \in [Threads -> {"idle", "load", "check", "cas", "owned", "handover"}]
  /\ idx \in [Threads -> Nat]
  /\ ops \in [Threads -> 0 .. MaxOps]
  /\ got \in [Consumers -> Values \cup {None}]
  /\ alive \in BOOLEAN
  /\ log \in Seq(Values) /\ Len(log) = t

Owner(th) == pc[th] \in {"owned", "handover"}

(* Between its CAS and its sequence store a thread has the slot to itself:
   no other producer or consumer is at work on the same storage, whatever
   values the loads before the CAS returned. *)
ExclusiveSlot ==
  \A a, b \in Threads :
    Owner(a) /\ Owner(b) /\ Slot(idx[a]) = Slot(idx[b]) => a = b

(* Objects are constructed only in raw storage and moved out only of storage
   that holds the object of the claimed ticket: nothing is overwritten, and no
   storage is destroyed twice. *)
StorageMatchesUse ==
  /\ \A p \in Producers : pc[p] = "owned" => storage[Slot(idx[p])] = Raw
  /\ \A c \in Consumers :
       pc[c] = "owned" => storage[Slot(idx[c])] = log[idx[c] + 1]

(* The parity of the sequence, which ~slot_t relies on, says whether the
   storage holds an object whenever nobody works on the slot, so that the
   destructor neither leaks an object nor destroys raw storage. *)
ParityTellsContent ==
  /\ \A s \in Slots :
       alive /\ (\A th \in Threads : Owner(th) => Slot(idx[th]) # s)
         => (sequence[s] % 2 = 1 <=> storage[s] # Raw)
  /\ ~alive => \A s \in Slots : storage[s] = Raw

(* The queue implements BoundedFifo. An emplace takes effect at its CAS of _t
   and a pop at its CAS of _h, so a consumer between its CAS and its move
   already counts as having the object its ticket stands for. *)
Fifo == INSTANCE BoundedFifo WITH
  Takers <- Consumers,
  taken <- h,
  got <- [c \in Consumers |-> IF pc[c] = "owned" THEN log[idx[c] + 1] ELSE got[c]]

ImplementsFifo == Fifo!Spec

(* What the comments "full" at the early returns claim: a try_emplace that
   meets the current ticket and gives up leaves a full ring behind unless a
   pop is under way; likewise for a try_pop that reports empty. Loads that
   return current values are assumed. *)
AnswersExact ==
  [][/\ \A p \in Producers :
          /\ pc[p] = "check" /\ pc'[p] = "idle" /\ idx[p] = t
          /\ \A c \in Consumers : ~Owner(c)
          => t - h = Capacity
     /\ \A c \in Consumers :
          /\ pc[c] = "check" /\ pc'[c] = "idle" /\ idx[c] = h
          /\ \A p \in Producers : ~Owner(p)
          => t = h]_vars

(* Nobody waits for nothing: when all is said and done (each thread starts at
   most MaxOps calls), who is still inside wait_and_emplace has a full ring in
   front of it, and who is inside wait_and_pop an empty one. No lap that is off
   by one, no slot that was not handed on, keeps a caller spinning. *)
WaitsAreForSomething ==
  <>[](/\ (\E p \in Producers : pc[p] # "idle") => t - h = Capacity
       /\ (\E c \in Consumers : pc[c] # "idle") => t = h)

-----------------------------------------------------------------------------
(* The inductive invariant behind the safety properties. K is the set of
   tickets it speaks of: Nat in the proofs, a finite part of it for TLC. *)

SeqOf(k) == sequence[Slot(k)]

(* An owner's slot carries exactly the sequence its ticket waits for, the
   sequence never falls behind one that was seen, and no ticket has two
   owners of the same side. *)
OwnerInv ==
  /\ \A p \in Producers :
       /\ Owner(p) => idx[p] < t /\ SeqOf(idx[p]) = 2 * Round(idx[p])
       /\ pc[p] = "cas" => SeqOf(idx[p]) >= 2 * Round(idx[p])
  /\ \A c \in Consumers :
       /\ Owner(c) => idx[c] < h /\ SeqOf(idx[c]) = 2 * Round(idx[c]) + 1
       /\ pc[c] = "cas" => SeqOf(idx[c]) >= 2 * Round(idx[c]) + 1
  /\ \A a, b \in Producers : Owner(a) /\ Owner(b) /\ idx[a] = idx[b] => a = b
  /\ \A a, b \in Consumers : Owner(a) /\ Owner(b) /\ idx[a] = idx[b] => a = b
  /\ ~alive => \A th \in Threads : pc[th] = "idle"

(* A finished ticket was claimed, and a claimed ticket is finished or owned:
   no slot is skipped and none is left without somebody to hand it on. *)
TicketInv(K) ==
  \A k \in K :
    /\ SeqOf(k) > 2 * Round(k) => k < t
    /\ SeqOf(k) > 2 * Round(k) + 1 => k < h
    /\ k < t /\ SeqOf(k) <= 2 * Round(k) =>
         \E p \in Producers : Owner(p) /\ idx[p] = k
    /\ k < h /\ SeqOf(k) <= 2 * Round(k) + 1 =>
         \E c \in Consumers : Owner(c) /\ idx[c] = k

(* What the storage of a slot holds, from the view of its current ticket. *)
StorageInv(K) ==
  /\ \A p \in Producers :
       /\ Owner(p) => log[idx[p] + 1] = Obj(p)
       /\ pc[p] = "owned" => storage[Slot(idx[p])] = Raw
       /\ pc[p] = "handover" => storage[Slot(idx[p])] = Obj(p)
  /\ \A c \in Consumers : pc[c] = "handover" => storage[Slot(idx[c])] = Raw
  /\ \A k \in K :
       /\ /\ SeqOf(k) = 2 * Round(k)
          /\ ~\E p \in Producers : pc[p] = "handover" /\ idx[p] = k
          => storage[Slot(k)] = Raw
       /\ /\ alive /\ SeqOf(k) = 2 * Round(k) + 1
          /\ ~\E c \in Consumers : pc[c] = "handover" /\ idx[c] = k
          => storage[Slot(k)] = log[k + 1]
  /\ ~alive => \A s \in Slots : storage[s] = Raw

IInv(K) == TypeOK /\ OwnerInv /\ TicketInv(K) /\ StorageInv(K)
=============================================================================
