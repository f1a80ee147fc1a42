----------------------------- MODULE SpscQueue -----------------------------
(***************************************************************************)
(* lite_fnds::spsc_queue (utility/concurrent_queues.h): one producer and    *)
(* one consumer on a ring of slots that carry a flag, ready. _t belongs to  *)
(* the producer, _h to the consumer; the flags are all they share.          *)
(***************************************************************************)
EXTENDS Integers, Sequences

CONSTANTS
  Capacity,    \* the template parameter
  MaxOps,      \* bound: emplaces started; pops go on for ever
  Modes,       \* which entry points are called: "try", "wait"
  StaleLoads,  \* whether a load of ready may miss the other side's last store
  Raw,         \* a slot's storage with no object in it
  None         \* the consumer's result before its first pop

ASSUME SpscAssumption ==
  /\ Capacity \in Nat \ {0}
  /\ MaxOps \in Nat
  /\ Modes \subseteq {"try", "wait"}
  /\ StaleLoads \in BOOLEAN
  /\ Raw \notin Nat

VARIABLES
  ready,    \* ready[s]: the flag of slot s
  storage,  \* storage[s]: the object in slot s, or Raw
  h, t,     \* _h and _t
  ppc, cpc, \* where the producer and the consumer stand
  puts,     \* emplaces started: the number of the object of the current one
  got,      \* the object the last pop returned
  alive,    \* FALSE once the destructor has run
  log       \* history: the objects in the order they were published

vars == <<ready, storage, h, t, ppc, cpc, puts, got, alive, log>>

Slots == 0 .. Capacity - 1
Slot(i) == i % Capacity
Values == 1 .. MaxOps

Init ==
  /\ ready = [s \in Slots |-> 0]
  /\ storage = [s \in Slots |-> Raw]
  /\ h = 0 /\ t = 0
  /\ ppc = "idle" /\ cpc = "idle"
  /\ puts = 0
  /\ got = None
  /\ alive = TRUE
  /\ log = <<>>

(* try_* returns, wait_* goes round *)
AfterMiss == {IF m = "try" THEN "idle" ELSE "check" : m \in Modes}

-----------------------------------------------------------------------------
(* The producer: try_emplace and wait_and_emplace *)

BeginEmplace ==
  /\ alive /\ ppc = "idle" /\ puts < MaxOps
  /\ puts' = puts + 1
  /\ ppc' = "check"
  /\ UNCHANGED <<ready, storage, h, t, cpc, got, alive, log>>

(* Mutant: the flag is not consulted. *)
CheckFreeAlways ==
  /\ ppc = "check"
  /\ ppc' = "construct"
  /\ UNCHANGED <<ready, storage, h, t, cpc, puts, got, alive, log>>

CheckFree ==
  /\ ppc = "check"
  /\ \/ ready[Slot(t)] = 0 /\ ppc' = "construct"
     \/ (ready[Slot(t)] = 1 \/ StaleLoads) /\ ppc' \in AfterMiss
  /\ UNCHANGED <<ready, storage, h, t, cpc, puts, got, alive, log>>

Construct ==
  /\ ppc = "construct"
  /\ storage' = [storage EXCEPT ![Slot(t)] = puts]
  /\ ppc' = "publish"
  /\ UNCHANGED <<ready, h, t, cpc, puts, got, alive, log>>

(* Mutant: the flag is not set. *)
PublishNothing ==
  /\ ppc = "publish"
  /\ log' = Append(log, puts)
  /\ ppc' = "advance"
  /\ UNCHANGED <<ready, storage, h, t, cpc, puts, got, alive>>

Publish ==
  /\ ppc = "publish"
  /\ ready' = [ready EXCEPT ![Slot(t)] = 1]
  /\ log' = Append(log, puts)
  /\ ppc' = "advance"
  /\ UNCHANGED <<storage, h, t, cpc, puts, got, alive>>

AdvanceTail ==
  /\ ppc = "advance"
  /\ t' = t + 1
  /\ ppc' = "idle"
  /\ UNCHANGED <<ready, storage, h, cpc, puts, got, alive, log>>

-----------------------------------------------------------------------------
(* The consumer: try_pop and wait_and_pop *)

BeginPop ==
  /\ alive /\ cpc = "idle"
  /\ cpc' = "check"
  /\ UNCHANGED <<ready, storage, h, t, ppc, puts, got, alive, log>>

(* Mutant: the flag is not consulted. *)
CheckReadyAlways ==
  /\ cpc = "check"
  /\ cpc' = "take"
  /\ UNCHANGED <<ready, storage, h, t, ppc, puts, got, alive, log>>

CheckReady ==
  /\ cpc = "check"
  /\ \/ ready[Slot(h)] = 1 /\ cpc' = "take"
     \/ (ready[Slot(h)] = 0 \/ StaleLoads) /\ cpc' \in AfterMiss
  /\ UNCHANGED <<ready, storage, h, t, ppc, puts, got, alive, log>>

(* Mutant: the moved-from object is left in the slot. *)
TakeWithoutDestroy ==
  /\ cpc = "take"
  /\ got' = storage[Slot(h)]
  /\ cpc' = "clear"
  /\ UNCHANGED <<ready, storage, h, t, ppc, puts, alive, log>>

Take ==
  /\ cpc = "take"
  /\ got' = storage[Slot(h)]
  /\ storage' = [storage EXCEPT ![Slot(h)] = Raw]
  /\ cpc' = "clear"
  /\ UNCHANGED <<ready, h, t, ppc, puts, alive, log>>

Clear ==
  /\ cpc = "clear"
  /\ ready' = [ready EXCEPT ![Slot(h)] = 0]
  /\ cpc' = "advance"
  /\ UNCHANGED <<storage, h, t, ppc, puts, got, alive, log>>

AdvanceHead ==
  /\ cpc = "advance"
  /\ h' = h + 1
  /\ cpc' = "idle"
  /\ UNCHANGED <<ready, storage, t, ppc, puts, got, alive, log>>

-----------------------------------------------------------------------------
(* Mutant: the walk stops one ticket early. *)
DestroyShort ==
  LET full == {Slot(k) : k \in h .. t - 2} \cap {s \in Slots : ready[s] = 1} IN
  /\ alive /\ ppc = "idle" /\ cpc = "idle"
  /\ alive' = FALSE
  /\ storage' = [s \in Slots |-> IF s \in full THEN Raw ELSE storage[s]]
  /\ ready' = [s \in Slots |-> IF s \in full THEN 0 ELSE ready[s]]
  /\ UNCHANGED <<h, t, ppc, cpc, puts, got, log>>

(* ~spsc_queue walks from _h to _t and destroys what is ready; the walking _h
   dies with the queue. The caller must have no operation in progress. *)
Destroy ==
  LET full == {Slot(k) : k \in h .. t - 1} \cap {s \in Slots : ready[s] = 1} IN
  /\ alive /\ ppc = "idle" /\ cpc = "idle"
  /\ alive' = FALSE
  /\ storage' = [s \in Slots |-> IF s \in full THEN Raw ELSE storage[s]]
  /\ ready' = [s \in Slots |-> IF s \in full THEN 0 ELSE ready[s]]
  /\ UNCHANGED <<h, t, ppc, cpc, puts, got, log>>

ProducerStep == CheckFree \/ Construct \/ Publish \/ AdvanceTail
ConsumerStep == CheckReady \/ Take \/ Clear \/ AdvanceHead

Next ==
  \/ BeginEmplace \/ ProducerStep
  \/ BeginPop \/ ConsumerStep
  \/ Destroy

Spec == Init /\ [][Next]_vars

(* A call goes on, and a store becomes visible in the end: a thread that looks
   at a flag again and again sees it. Nobody has to start a call. *)
FairSpec ==
  /\ Spec
  /\ WF_vars(ProducerStep) /\ WF_vars(ConsumerStep)
  /\ SF_vars(CheckFree /\ ppc' = "construct")
  /\ SF_vars(CheckReady /\ cpc' = "take")

-----------------------------------------------------------------------------
(* What the two sides have done so far, whichever of their stores are made:
   tickets published, moved out, and handed back to the producer. *)
Published == IF ppc = "advance" THEN t + 1 ELSE t
Taken == IF cpc \in {"clear", "advance"} THEN h + 1 ELSE h
Cleared == IF cpc = "advance" THEN h + 1 ELSE h

TypeOK ==
  /\ ready \in [Slots -> {0, 1}]
  /\ storage \in [Slots -> Values \cup {Raw}]
  /\ h \in Nat /\ t \in Nat
  /\ ppc \in {"idle", "check", "construct", "publish", "advance"}
  /\ cpc \in {"idle", "check", "take", "clear", "advance"}
  /\ puts \in 0 .. MaxOps
  /\ got \in Values \cup {None}
  /\ alive \in BOOLEAN
  /\ log \in Seq(Values) /\ Len(log) = Published

(* The producer constructs in raw storage and the consumer moves out what was
   published under its ticket; they are never at work on the same slot. *)
StorageMatchesUse ==
  /\ ppc = "construct" => storage[Slot(t)] = Raw
  /\ cpc = "take" => h < Published /\ storage[Slot(h)] = log[h + 1]
  /\ ppc \in {"construct", "publish"} /\ cpc \in {"take", "clear"} => Slot(h) # Slot(t)

(* The destructor destroys every object left, and only objects. *)
NothingLeaks == ~alive => \A s \in Slots : storage[s] = Raw

(* The queue implements BoundedFifo: an emplace takes effect at its store of
   ready, a pop when it moves the object out. *)
Fifo == INSTANCE BoundedFifo WITH
  Takers <- {"consumer"},
  taken <- Taken,
  got <- [c \in {"consumer"} |-> got]

ImplementsFifo == Fifo!Spec

(* No mutual waiting: once the last emplace has begun, a producer that is still
   at it waits on a full ring that nobody pops from, and a consumer that waits
   or comes back has been given every object: neither side is kept from a slot
   by a flag that the other has left wrong. *)
WaitsAreForSomething ==
  <>[](/\ ppc # "idle" => t - h = Capacity
       /\ cpc # "idle" => t = h)

-----------------------------------------------------------------------------
(* The inductive invariant: the flags, and then the storage, seen through the
   tickets between Cleared and Published. *)
FlagInv ==
  /\ Cleared <= Taken /\ Taken <= Published /\ Published <= Cleared + Capacity
  /\ cpc \in {"take", "clear"} => h < Published
  /\ ppc \in {"construct", "publish"} => t < Cleared + Capacity
  /\ \A k \in Cleared .. Published - 1 : ready[Slot(k)] = 1
  /\ \A k \in Published .. Cleared + Capacity - 1 : ready[Slot(k)] = 0
  /\ ppc # "idle" => puts \in Values

StorageInv ==
  /\ \A k \in Taken .. Published - 1 : storage[Slot(k)] = log[k + 1]
  /\ \A k \in Published .. Taken + Capacity - 1 :
       (k = t /\ ppc = "publish") \/ storage[Slot(k)] = Raw
  /\ ppc = "publish" => storage[Slot(t)] = puts

IInv ==
  /\ TypeOK
  /\ ~alive => /\ ppc = "idle" /\ cpc = "idle"
                /\ \A s \in Slots : storage[s] = Raw
  /\ alive => FlagInv /\ StorageInv
=============================================================================
