----------------------------- MODULE MpscQueue -----------------------------
(***************************************************************************)
(* lite_fnds::mpsc_queue (utility/concurrent_queues.h): many producers and *)
(* one consumer on a ring whose slots carry only a flag, ready.            *)
(*                                                                         *)
(* A producer takes ticket t when the slot of t is not ready and its CAS   *)
(* on _t succeeds; it then constructs the object and sets ready. Between   *)
(* the CAS and the store of ready the slot looks free to everybody else:   *)
(* nothing but speed keeps a producer that is a whole lap ahead away from  *)
(* it. Prompt states that speed as an assumption: FALSE is the code alone. *)
(***************************************************************************)
EXTENDS Integers, Sequences

CONSTANTS
  Producers,  \* the threads that emplace
  Capacity,   \* the template parameter
  MaxOps,     \* bound: emplaces a producer starts; pops go on for ever
  MaxRetry,   \* max_retry of try_emplace
  Modes,      \* which entry points are called: "try", "wait"
  Prompt,     \* assumption: ready is read as 0 only where nobody is at work
  Raw,        \* a slot's storage with no object in it
  None        \* the consumer's result before its first pop

ASSUME MpscAssumption ==
  /\ Capacity \in Nat \ {0}
  /\ MaxOps \in Nat
  /\ MaxRetry \in Nat \ {0}
  /\ Modes \subseteq {"try", "wait"}
  /\ Prompt \in BOOLEAN
  /\ Raw \notin Producers \X (1 .. MaxOps)
  /\ None \notin Producers \X (1 .. MaxOps)
  /\ Raw # None

VARIABLES
  ready,    \* ready[s]: the flag of slot s
  storage,  \* storage[s]: the object in slot s, or Raw
  h, t,     \* _h and _t
  pc,       \* where each producer stands in its operation
  mode,     \* the entry point it called
  idx,      \* its local t
  tries,    \* its local attempt
  ops,      \* how many operations it has started
  cpc,      \* where the consumer stands in its pop
  got,      \* the object the consumer's last pop returned
  alive,    \* FALSE once the destructor has run
  log       \* history: the objects in the order their tickets were claimed

producerVars == <<pc, mode, idx, tries, ops>>
consumerVars == <<h, cpc, got>>
mpscVars == <<ready, storage, t, producerVars, consumerVars, alive, log>>

Slots == 0 .. Capacity - 1
Values == Producers \X (1 .. MaxOps)
Slot(i) == i % Capacity
Obj(p) == <<p, ops[p]>>

Goto(p, to) == pc' = [pc EXCEPT ![p] = to]

Init ==
  /\ ready = [s \in Slots |-> 0]
  /\ storage = [s \in Slots |-> Raw]
  /\ h = 0 /\ t = 0
  /\ pc = [p \in Producers |-> "idle"]
  /\ mode = [p \in Producers |-> "wait"]
  /\ idx = [p \in Producers |-> 0]
  /\ tries = [p \in Producers |-> 0]
  /\ ops = [p \in Producers |-> 0]
  /\ cpc = "idle" /\ got = None
  /\ alive = TRUE
  /\ log = <<>>

-----------------------------------------------------------------------------
(* Producers: try_emplace and wait_and_emplace *)

BeginEmplace(p) ==
  /\ alive /\ pc[p] = "idle" /\ ops[p] < MaxOps
  /\ \E m \in Modes : mode' = [mode EXCEPT ![p] = m]
  /\ ops' = [ops EXCEPT ![p] = @ + 1]
  /\ tries' = [tries EXCEPT ![p] = 0]
  /\ Goto(p, "load")
  /\ UNCHANGED <<ready, storage, t, idx, consumerVars, alive, log>>

(* the attempt failed: try_emplace makes max_retry of them, wait never stops *)
Retry(p) ==
  \/ /\ mode[p] = "wait"
     /\ Goto(p, "load")
     /\ UNCHANGED tries
  \/ /\ mode[p] = "try"
     /\ tries' = [tries EXCEPT ![p] = @ + 1]
     /\ Goto(p, IF tries[p] + 1 < MaxRetry THEN "load" ELSE "idle")

LoadTail(p) ==
  /\ pc[p] = "load"
  /\ idx' = [idx EXCEPT ![p] = t]
  /\ Goto(p, "check")
  /\ UNCHANGED <<ready, storage, t, mode, tries, ops, consumerVars, alive, log>>

Owner(p) == pc[p] \in {"owned", "handover"}

(* no producer has claimed the slot and not set ready yet *)
SlotWasFilled(i) == \A q \in Producers : Owner(q) => Slot(idx[q]) # Slot(i)

CheckReady(p) ==
  /\ pc[p] = "check"
  /\ \/ /\ ready[Slot(idx[p])] = 0
        /\ Prompt => SlotWasFilled(idx[p])
        /\ Goto(p, "cas") /\ UNCHANGED tries
     \/ ready[Slot(idx[p])] = 1 /\ Retry(p)
  /\ UNCHANGED <<ready, storage, t, mode, idx, ops, consumerVars, alive, log>>

(* Mutant: _t is stored, not compared and swapped. *)
ClaimTailByStore(p) ==
  /\ pc[p] = "cas"
  /\ t' = idx[p] + 1
  /\ log' = Append(log, Obj(p))
  /\ Goto(p, "owned")
  /\ UNCHANGED <<ready, storage, mode, idx, tries, ops, consumerVars, alive>>

ClaimTail(p) ==
  /\ pc[p] = "cas"
  /\ t = idx[p]
  /\ t' = t + 1
  /\ log' = Append(log, Obj(p))
  /\ Goto(p, "owned")
  /\ UNCHANGED <<ready, storage, mode, idx, tries, ops, consumerVars, alive>>

(* _t has moved, or the weak CAS fails although it has not *)
MissTail(p) ==
  /\ pc[p] = "cas"
  /\ Retry(p)
  /\ UNCHANGED <<ready, storage, t, mode, idx, ops, consumerVars, alive, log>>

Construct(p) ==
  /\ pc[p] = "owned"
  /\ storage' = [storage EXCEPT ![Slot(idx[p])] = Obj(p)]
  /\ Goto(p, "handover")
  /\ UNCHANGED <<ready, t, mode, idx, tries, ops, consumerVars, alive, log>>

Publish(p) ==
  /\ pc[p] = "handover"
  /\ ready' = [ready EXCEPT ![Slot(idx[p])] = 1]
  /\ Goto(p, "idle")
  /\ UNCHANGED <<storage, t, mode, idx, tries, ops, consumerVars, alive, log>>

-----------------------------------------------------------------------------
(* The consumer: try_pop and wait_and_pop *)

BeginPop ==
  /\ alive /\ cpc = "idle"
  /\ cpc' = "check"
  /\ UNCHANGED <<ready, storage, t, h, got, producerVars, alive, log>>

CheckHead ==
  /\ cpc = "check"
  /\ \/ ready[Slot(h)] = 1 /\ cpc' = "take"
     \/ ready[Slot(h)] = 0 /\ \E m \in Modes : cpc' = IF m = "try" THEN "idle" ELSE "check"
  /\ UNCHANGED <<ready, storage, t, h, got, producerVars, alive, log>>

(* Mutant: the moved-from object is left in the slot. *)
TakeWithoutDestroy ==
  /\ cpc = "take"
  /\ got' = storage[Slot(h)]
  /\ cpc' = "clear"
  /\ UNCHANGED <<ready, storage, t, h, producerVars, alive, log>>

Take ==
  /\ cpc = "take"
  /\ got' = storage[Slot(h)]
  /\ storage' = [storage EXCEPT ![Slot(h)] = Raw]
  /\ cpc' = "clear"
  /\ UNCHANGED <<ready, t, h, producerVars, alive, log>>

Clear ==
  /\ cpc = "clear"
  /\ ready' = [ready EXCEPT ![Slot(h)] = 0]
  /\ cpc' = "advance"
  /\ UNCHANGED <<storage, t, h, got, producerVars, alive, log>>

Advance ==
  /\ cpc = "advance"
  /\ h' = h + 1
  /\ cpc' = "idle"
  /\ UNCHANGED <<ready, storage, t, got, producerVars, alive, log>>

-----------------------------------------------------------------------------
(* Mutant: the walk stops one ticket early. *)
DestroyShort ==
  LET left == {Slot(k) : k \in h .. t - 2}
      full == {s \in left : ready[s] = 1} IN
  /\ alive /\ cpc = "idle" /\ \A p \in Producers : pc[p] = "idle"
  /\ alive' = FALSE
  /\ storage' = [s \in Slots |-> IF s \in full THEN Raw ELSE storage[s]]
  /\ ready' = [s \in Slots |-> IF s \in full THEN 0 ELSE ready[s]]
  /\ UNCHANGED <<t, consumerVars, producerVars, log>>

(* ~mpsc_queue walks the tickets from _h to _t and destroys what is ready; the
   walking _h dies with the queue. The caller must have no operation in progress. *)
Destroy ==
  LET left == {Slot(k) : k \in h .. t - 1}
      full == {s \in left : ready[s] = 1} IN
  /\ alive /\ cpc = "idle" /\ \A p \in Producers : pc[p] = "idle"
  /\ alive' = FALSE
  /\ storage' = [s \in Slots |-> IF s \in full THEN Raw ELSE storage[s]]
  /\ ready' = [s \in Slots |-> IF s \in full THEN 0 ELSE ready[s]]
  /\ UNCHANGED <<t, consumerVars, producerVars, log>>

(* everything after the first step of an emplace, or of a pop *)
EmplaceStep(p) ==
  \/ LoadTail(p) \/ CheckReady(p) \/ ClaimTail(p) \/ MissTail(p)
  \/ Construct(p) \/ Publish(p)

PopStep == CheckHead \/ Take \/ Clear \/ Advance

Next ==
  \/ \E p \in Producers : BeginEmplace(p) \/ EmplaceStep(p)
  \/ BeginPop
  \/ PopStep
  \/ Destroy

Spec == Init /\ [][Next]_mpscVars

-----------------------------------------------------------------------------
(* A producer constructs its object in raw storage, and the consumer moves out
   the object its ticket stands for: no object is overwritten, lost or taken
   out of storage already destroyed. *)
StorageMatchesUse ==
  /\ \A p \in Producers : pc[p] = "owned" => storage[Slot(idx[p])] = Raw
  /\ cpc = "take" => h < t /\ storage[Slot(h)] = log[h + 1]

(* After the destructor no slot holds an object. *)
NothingLeaks == ~alive => \A s \in Slots : storage[s] = Raw

(* The queue implements BoundedFifo: an emplace takes effect at its CAS, a pop
   when it moves the object out. *)
Fifo == INSTANCE BoundedFifo WITH
  Takers <- {"consumer"},
  taken <- IF cpc \in {"clear", "advance"} THEN h + 1 ELSE h,
  got <- [c \in {"consumer"} |-> got]
=============================================================================
