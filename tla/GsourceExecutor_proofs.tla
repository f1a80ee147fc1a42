----------------------- MODULE GsourceExecutor_proofs -----------------------
(***************************************************************************)
(* Proofs about MpscQueue and the GsourceExecutor built on it, for any      *)
(* producers, capacity and number of operations, under the assumption that  *)
(* the code makes and does not enforce: Prompt.                            *)
(*                                                                         *)
(* As in SpscQueue_proofs everything is told in tickets. The consumer has   *)
(* cleared those below Cleared and taken those below Taken; the producers   *)
(* have claimed those below t. Each ticket from Cleared to one lap further  *)
(* has a slot of its own, and is either being cleared, claimed and not yet  *)
(* published, published, or free.                                          *)
(***************************************************************************)
EXTENDS GsourceExecutor, TLAPS

Taken == IF cpc \in {"clear", "advance"} THEN h + 1 ELSE h
Cleared == IF cpc = "advance" THEN h + 1 ELSE h

TypeOK ==
  /\ ready \in [Slots -> {0, 1}]
  /\ storage \in [Slots -> Values \cup {Raw}]
  /\ h \in Nat /\ t \in Nat
  /\ pc \in [Producers -> {"idle", "load", "check", "cas", "owned", "handover"}]
  /\ mode \in [Producers -> {"try", "wait"}]
  /\ idx \in [Producers -> Nat]
  /\ tries \in [Producers -> Nat]
  /\ ops \in [Producers -> 0 .. MaxOps]
  /\ cpc \in {"idle", "check", "take", "clear", "advance"}
  /\ got \in Values \cup {None}
  /\ alive \in BOOLEAN
  /\ log \in Seq(Values) /\ Len(log) = t

(* A producer that may still win the CAS for ticket t finds the slot of t free:
   whoever moves _t in between makes the CAS fail. *)
TicketsInv ==
  /\ Taken <= t /\ t <= Cleared + Capacity
  /\ cpc \in {"take", "clear"} => h < t /\ ready[Slot(h)] = 1
  /\ \A p \in Producers :
       /\ pc[p] # "idle" => ops[p] \in 1 .. MaxOps
       /\ pc[p] \in {"check", "cas"} => idx[p] <= t
       /\ pc[p] = "cas" /\ idx[p] = t => t < Cleared + Capacity
       /\ Owner(p) => idx[p] \in Taken .. t - 1 /\ log[idx[p] + 1] = Obj(p)

Published(k) == ready[Slot(k)] = 1 /\ storage[Slot(k)] = log[k + 1]
Free(k) == ready[Slot(k)] = 0 /\ storage[Slot(k)] = Raw

SlotsInv ==
  /\ \A k \in Cleared .. Taken - 1 : ready[Slot(k)] = 1 /\ storage[Slot(k)] = Raw
  /\ \A k \in Taken .. t - 1 : Published(k) \/ \E p \in Producers : Owner(p) /\ idx[p] = k
  /\ \A k \in t .. Cleared + Capacity - 1 : Free(k)
  /\ \A p \in Producers :
       Owner(p) => /\ ready[Slot(idx[p])] = 0
                   /\ storage[Slot(idx[p])] = IF pc[p] = "owned" THEN Raw ELSE Obj(p)

QueueInv ==
  /\ TypeOK
  /\ alive => TicketsInv /\ SlotsInv
  /\ ~alive => /\ cpc = "idle" /\ \A p \in Producers : pc[p] = "idle"
               /\ \A s \in Slots : storage[s] = Raw

(* What the loop adds: it pops only inside a round. *)
LoopInv ==
  /\ efd \in Nat /\ waking \subseteq Producers
  /\ lpc \in {"poll", "round", "task"} /\ round \in Nat /\ outer \in Seq(Nat)
  /\ cpc # "idle" => lpc = "round"
  /\ ~alive => waking = {}

Inv == QueueInv /\ LoopInv /\ NoLostWakeUp
-----------------------------------------------------------------------------
(* Tickets less than a lap apart never share a slot. *)
LEMMA WindowDistinct ==
  ASSUME NEW i \in Nat, NEW j \in Nat, i < j, j < i + Capacity
  PROVE  Slot(i) # Slot(j)
<1> DEFINE q(k) == k \div Capacity
<1>1. /\ q(i) \in Nat /\ i = Capacity * q(i) + Slot(i)
      /\ q(j) \in Nat /\ j = Capacity * q(j) + Slot(j)
      /\ Slot(i) \in Nat /\ Slot(j) \in Nat
  BY MpscAssumption, SMTT(30) DEF Slot
<1>2. SUFFICES ASSUME Slot(i) = Slot(j) PROVE FALSE
  OBVIOUS
<1> HIDE DEF q
<1>3. j - i = Capacity * (q(j) - q(i))
  BY <1>1, <1>2, MpscAssumption
<1>4. q(j) - q(i) >= 1
  <2>1. SUFFICES ASSUME q(j) - q(i) <= 0 PROVE FALSE
    BY <1>1
  <2>2. Capacity * (q(j) - q(i)) <= 0
    BY <2>1, <1>1, MpscAssumption
  <2>3. QED
    BY <2>2, <1>3
<1>5. Capacity * (q(j) - q(i)) >= Capacity
  BY <1>4, <1>1, MpscAssumption
<1>6. QED
  BY <1>3, <1>5, MpscAssumption

(* The ticket of slot s in lap n. *)
LEMMA SlotOfTicket == \A n \in Nat, s \in Slots : Slot(Capacity * n + s) = s
BY MpscAssumption, SMTT(30) DEF Slots, Slot

(* Every slot is used once in every lap, wherever the lap starts. *)
LEMMA LapCoversSlots ==
  ASSUME NEW b \in Nat, NEW s \in Slots
  PROVE  \E k \in b .. b + Capacity - 1 : Slot(k) = s
<1> DEFINE q == b \div Capacity
           r == b % Capacity
           k == IF s >= r THEN Capacity * q + s ELSE Capacity * (q + 1) + s
<1>1. q \in Nat /\ r \in Slots /\ b = Capacity * q + r
  BY MpscAssumption, SMTT(30) DEF Slots
<1>2. Capacity * (q + 1) = Capacity * q + Capacity /\ Capacity * q \in Nat
  BY <1>1, MpscAssumption
<1> HIDE DEF q, r
<1>3. k \in b .. b + Capacity - 1
  BY <1>1, <1>2, MpscAssumption DEF Slots
<1>4. Slot(k) = s
  BY <1>1, SlotOfTicket
<1>5. QED
  BY <1>3, <1>4

(* Every ticket has a slot. *)
LEMMA SlotInSlots == \A i \in Nat : Slot(i) \in Slots
BY MpscAssumption, SMTT(30) DEF Slot, Slots

(* Tickets a lap apart share their slot. *)
LEMMA SlotPeriod == \A i \in Nat : Slot(i + Capacity) = Slot(i)
<1> SUFFICES ASSUME NEW i \in Nat PROVE Slot(i + Capacity) = Slot(i)
  OBVIOUS
<1> DEFINE q == i \div Capacity
<1>1. q \in Nat /\ Slot(i) \in Slots /\ i = Capacity * q + Slot(i)
  BY MpscAssumption, SMTT(30) DEF Slot, Slots
<1> HIDE DEF q
<1>2. i + Capacity = Capacity * (q + 1) + Slot(i)
  <2>1. Capacity * (q + 1) = Capacity * q + Capacity
    BY <1>1, MpscAssumption
  <2>2. QED
    BY <1>1, <2>1, MpscAssumption DEF Slots
<1>3. QED
  BY <1>1, <1>2, SlotOfTicket

-----------------------------------------------------------------------------
(* The queue: one lemma per kind of step *)

(* The empty queue satisfies the invariant. *)
LEMMA QueueInit == Init => QueueInv
<1> SUFFICES ASSUME Init PROVE QueueInv
  OBVIOUS
<1>1. TypeOK
  BY MpscAssumption DEF Init, TypeOK, Slots
<1>2. TicketsInv
  BY MpscAssumption DEF Init, TicketsInv, Taken, Cleared, Owner
<1>3. SlotsInv
  BY MpscAssumption, SlotInSlots DEF Init, SlotsInv, Taken, Cleared, Owner, Free
<1> QED BY <1>1, <1>2, <1>3 DEF QueueInv, Init

(* The numbers and the sequences of a living queue, as facts for the provers. *)
LEMMA QueueTypes ==
  ASSUME QueueInv, alive
  PROVE  /\ TypeOK /\ TicketsInv /\ SlotsInv
         /\ h \in Nat /\ t \in Nat /\ Taken \in Nat /\ Cleared \in Nat
         /\ Capacity \in Nat \ {0} /\ Cleared <= Taken /\ Taken <= t /\ t <= Cleared + Capacity
         /\ \A p \in Producers : idx[p] \in Nat
BY MpscAssumption DEF QueueInv, TypeOK, TicketsInv, Taken, Cleared

(* Two producers never own the same ticket: the log names one of them. *)
LEMMA OwnersDiffer ==
  ASSUME QueueInv, alive, NEW p \in Producers, NEW q \in Producers, Owner(p), Owner(q), p # q
  PROVE  Slot(idx[p]) # Slot(idx[q])
<1>1. idx[p] # idx[q]
  <2>1. log[idx[p] + 1] = <<p, ops[p]>> /\ log[idx[q] + 1] = <<q, ops[q]>>
    BY QueueTypes DEF TicketsInv, Obj
  <2> QED BY <2>1
<1>2. /\ idx[p] \in Taken .. t - 1 /\ idx[q] \in Taken .. t - 1
      /\ idx[p] < idx[q] + Capacity /\ idx[q] < idx[p] + Capacity
  BY QueueTypes DEF TicketsInv
<1> QED BY <1>1, <1>2, QueueTypes, WindowDistinct

(* A step that leaves the slots and the counters alone, of a producer that owns
   no slot before or after it. *)
LEMMA ProducerMoves ==
  ASSUME QueueInv, alive, NEW p \in Producers, ~Owner(p),
         NEW to \in {"idle", "load", "check", "cas"}, pc' = [pc EXCEPT ![p] = to],
         UNCHANGED <<ready, storage, t, h, cpc, got, alive, log>>,
         idx' \in [Producers -> Nat], mode' \in [Producers -> {"try", "wait"}],
         tries' \in [Producers -> Nat], ops' \in [Producers -> 0 .. MaxOps],
         \A q \in Producers \ {p} : idx'[q] = idx[q] /\ ops'[q] = ops[q],
         to # "idle" => ops'[p] \in 1 .. MaxOps,
         to \in {"check", "cas"} => idx'[p] <= t,
         to = "cas" /\ idx'[p] = t => t < Cleared + Capacity
  PROVE  QueueInv'
<1>1. TypeOK'
  BY QueueTypes DEF TypeOK
<1>2. Taken' = Taken /\ Cleared' = Cleared
  BY DEF Taken, Cleared
<1>3. \A q \in Producers : Owner(q)' <=> Owner(q)
  BY QueueTypes DEF TypeOK, Owner
<1>4. \A q \in Producers : Owner(q) => q # p /\ idx'[q] = idx[q] /\ ops'[q] = ops[q] /\ pc'[q] = pc[q]
  BY QueueTypes DEF TypeOK
<1>5. TicketsInv'
  <2>1. \A q \in Producers \ {p} : pc'[q] = pc[q] /\ idx'[q] = idx[q] /\ ops'[q] = ops[q]
    BY QueueTypes DEF TypeOK
  <2>2. pc'[p] = to
    BY QueueTypes DEF TypeOK
  <2> QED BY <1>2, <1>3, <1>4, <2>1, <2>2, QueueTypes DEF TicketsInv, Obj
<1>6. SlotsInv'
  BY <1>2, <1>3, <1>4, QueueTypes DEF SlotsInv, Obj, Published, Free
<1> QED BY <1>1, <1>5, <1>6 DEF QueueInv

(* The steps of an emplace up to its CAS, and the ones that give up. *)
LEMMA AttemptPreserves ==
  ASSUME QueueInv, Prompt, NEW p \in Producers,
         BeginEmplace(p) \/ LoadTail(p) \/ CheckReady(p) \/ MissTail(p)
  PROVE  QueueInv'
<1>1. alive /\ ~Owner(p)
  BY DEF QueueInv, BeginEmplace, LoadTail, CheckReady, MissTail, Owner
<1>2. CASE BeginEmplace(p)
  <2>1. /\ pc' = [pc EXCEPT ![p] = "load"] /\ ops' = [ops EXCEPT ![p] = @ + 1]
        /\ tries' = [tries EXCEPT ![p] = 0] /\ ops[p] < MaxOps
        /\ UNCHANGED <<ready, storage, t, idx, h, cpc, got, alive, log>>
    BY <1>2 DEF BeginEmplace, Goto, consumerVars
  <2>2. mode' \in [Producers -> {"try", "wait"}]
    BY <1>1, <1>2, QueueTypes, MpscAssumption DEF BeginEmplace, TypeOK
  <2>3. /\ ops'[p] \in 1 .. MaxOps /\ ops' \in [Producers -> 0 .. MaxOps]
        /\ tries' \in [Producers -> Nat] /\ idx' \in [Producers -> Nat]
        /\ \A q \in Producers \ {p} : ops'[q] = ops[q]
    <3>1. /\ ops \in [Producers -> 0 .. MaxOps] /\ tries \in [Producers -> Nat]
          /\ idx \in [Producers -> Nat] /\ MaxOps \in Nat
      BY <1>1, QueueTypes, MpscAssumption DEF TypeOK
    <3> QED BY <2>1, <3>1
  <2> QED BY <1>1, <2>1, <2>2, <2>3, ProducerMoves
<1>3. CASE LoadTail(p)
  <2>1. /\ pc' = [pc EXCEPT ![p] = "check"] /\ idx' = [idx EXCEPT ![p] = t] /\ pc[p] = "load"
        /\ UNCHANGED <<ready, storage, t, h, cpc, got, alive, log, mode, tries, ops>>
    BY <1>3 DEF LoadTail, Goto, consumerVars
  <2>2. /\ idx' \in [Producers -> Nat] /\ idx'[p] = t /\ ops[p] \in 1 .. MaxOps
        /\ \A q \in Producers \ {p} : idx'[q] = idx[q]
    BY <1>1, <2>1, QueueTypes DEF TypeOK, TicketsInv
  <2>3. /\ mode' \in [Producers -> {"try", "wait"}] /\ tries' \in [Producers -> Nat]
        /\ ops' \in [Producers -> 0 .. MaxOps] /\ ops' = ops
        /\ idx'[p] <= t /\ ~("check" = "cas") /\ "check" \in {"idle", "load", "check", "cas"}
    BY <1>1, <2>1, <2>2, QueueTypes DEF TypeOK
  <2> QED BY <1>1, <2>1, <2>2, <2>3, ProducerMoves
<1>4. ASSUME Retry(p), pc[p] # "idle",
             UNCHANGED <<ready, storage, t, mode, idx, ops, consumerVars, alive, log>>
      PROVE  QueueInv'
  <2>1. PICK to \in {"load", "idle"} : pc' = [pc EXCEPT ![p] = to]
    BY <1>4 DEF Retry, Goto
  <2>2. tries' \in [Producers -> Nat]
    <3>1. tries' = tries \/ tries' = [tries EXCEPT ![p] = @ + 1]
      BY <1>4 DEF Retry
    <3>2. tries \in [Producers -> Nat]
      BY <1>1, QueueTypes DEF TypeOK
    <3> QED BY <3>1, <3>2
  <2>3. ops[p] \in 1 .. MaxOps
    BY <1>1, <1>4, QueueTypes DEF TicketsInv
  <2> QED BY <1>1, <1>4, <2>1, <2>2, <2>3, QueueTypes, ProducerMoves DEF TypeOK, consumerVars
<1>5. CASE CheckReady(p)
  <2>1. CASE ready[Slot(idx[p])] = 1 /\ Retry(p)
    BY <1>4, <1>5, <2>1 DEF CheckReady
  <2>2. CASE ready[Slot(idx[p])] = 0 /\ SlotWasFilled(idx[p]) /\ Goto(p, "cas") /\ UNCHANGED tries
    <3>1. /\ pc' = [pc EXCEPT ![p] = "cas"] /\ pc[p] = "check"
          /\ UNCHANGED <<ready, storage, t, h, cpc, got, alive, log, mode, tries, ops, idx>>
      BY <1>5, <2>2 DEF CheckReady, Goto, consumerVars
    <3>2. idx[p] = t => t < Cleared + Capacity
      <4> SUFFICES ASSUME idx[p] = t, t = Cleared + Capacity PROVE FALSE
        BY <1>1, QueueTypes
      <4>1. Slot(t) = Slot(Cleared) /\ Cleared < t
        BY <1>1, QueueTypes, SlotPeriod
      <4>2. Cleared = Taken
        BY <1>1, <2>2, <4>1, QueueTypes DEF SlotsInv
      <4>3. PICK q \in Producers : Owner(q) /\ idx[q] = Cleared
        BY <1>1, <2>2, <4>1, <4>2, QueueTypes DEF SlotsInv, Published
      <4> QED BY <2>2, <4>1, <4>3 DEF SlotWasFilled
    <3>3. idx[p] <= t /\ ops[p] \in 1 .. MaxOps
      BY <1>1, <3>1, QueueTypes DEF TicketsInv
    <3> QED BY <1>1, <3>1, <3>2, <3>3, QueueTypes, ProducerMoves DEF TypeOK
  <2> QED BY <1>5, <2>1, <2>2 DEF CheckReady
<1>6. CASE MissTail(p)
  BY <1>4, <1>6 DEF MissTail
<1> QED BY <1>2, <1>3, <1>5, <1>6

(* The CAS claims the first free ticket. *)
LEMMA ClaimPreserves ==
  ASSUME QueueInv, NEW p \in Producers, ClaimTail(p)
  PROVE  QueueInv' /\ t < Cleared + Capacity /\ Obj(p) \in Values
<1>a. alive
  BY DEF QueueInv, ClaimTail
<1>t. /\ pc[p] = "cas" /\ idx[p] = t /\ t' = t + 1 /\ log' = Append(log, Obj(p))
      /\ pc' = [pc EXCEPT ![p] = "owned"]
      /\ UNCHANGED <<ready, storage, mode, idx, tries, ops, h, cpc, got, alive>>
  BY DEF ClaimTail, Goto, consumerVars
<1>n. t < Cleared + Capacity /\ ops[p] \in 1 .. MaxOps /\ Obj(p) \in Values
  BY <1>a, <1>t, QueueTypes DEF TicketsInv, Obj, Values
<1>l. /\ log' \in Seq(Values) /\ Len(log') = t + 1 /\ log'[t + 1] = Obj(p)
      /\ \A n \in 1 .. t : log'[n] = log[n]
  BY <1>a, <1>t, <1>n, QueueTypes DEF TypeOK
<1>o. \A q \in Producers : Owner(q)' <=> Owner(q) \/ q = p
  BY <1>a, <1>t, QueueTypes DEF TypeOK, Owner
<1>q. \A q \in Producers \ {p} : pc'[q] = pc[q]
  BY <1>a, <1>t, QueueTypes DEF TypeOK
<1>p. pc'[p] = "owned"
  BY <1>a, <1>t, QueueTypes DEF TypeOK
<1>c. Taken' = Taken /\ Cleared' = Cleared
  BY <1>t DEF Taken, Cleared
<1>1. TypeOK'
  BY <1>a, <1>t, <1>l, QueueTypes DEF TypeOK
<1>2. TicketsInv'
  <2>1. ASSUME NEW q \in Producers
        PROVE  /\ pc'[q] # "idle" => ops[q] \in 1 .. MaxOps
               /\ pc'[q] \in {"check", "cas"} => idx[q] <= t + 1
               /\ ~(pc'[q] = "cas" /\ idx[q] = t + 1)
               /\ Owner(q)' => idx[q] \in Taken .. t /\ log'[idx[q] + 1] = Obj(q)
    <3>1. CASE q = p
      BY <1>a, <1>t, <1>n, <1>l, <1>p, <3>1, QueueTypes
    <3>2. CASE q # p
      <4>1. /\ pc[q] # "idle" => ops[q] \in 1 .. MaxOps
            /\ pc[q] \in {"check", "cas"} => idx[q] <= t
            /\ Owner(q) => idx[q] \in Taken .. t - 1 /\ log[idx[q] + 1] = Obj(q)
        BY <1>a, QueueTypes DEF TicketsInv
      <4>2. Owner(q) => log'[idx[q] + 1] = log[idx[q] + 1]
        <5>1. idx[q] \in Nat /\ Taken \in Nat /\ t \in Nat
          BY <1>a, QueueTypes
        <5>2. Owner(q) => idx[q] + 1 \in 1 .. t
          BY <4>1, <5>1
        <5> QED BY <1>l, <5>2
      <4>3. pc'[q] = pc[q] /\ (Owner(q)' <=> Owner(q)) /\ idx[q] \in Nat
        BY <1>a, <1>o, <1>q, <3>2, QueueTypes
      <4> QED BY <1>a, <4>1, <4>2, <4>3, QueueTypes
    <3> QED BY <3>1, <3>2
  <2>2. Taken <= t + 1 /\ t + 1 <= Cleared + Capacity
    BY <1>a, <1>n, QueueTypes
  <2>3. cpc \in {"take", "clear"} => h < t + 1 /\ ready[Slot(h)] = 1
    BY <1>a, QueueTypes DEF TicketsInv
  <2>4. t' - 1 = t /\ \A q \in Producers : Obj(q)' = Obj(q)
    BY <1>a, <1>t, QueueTypes DEF Obj
  <2> QED BY <1>t, <1>c, <2>1, <2>2, <2>3, <2>4 DEF TicketsInv
<1>3. SlotsInv'
  <2>1. \A k \in Cleared .. Taken - 1 : ready[Slot(k)] = 1 /\ storage[Slot(k)] = Raw
    BY <1>a, QueueTypes DEF SlotsInv
  <2>2. ASSUME NEW k \in Taken .. t
        PROVE  Published(k)' \/ \E q \in Producers : Owner(q)' /\ idx[q] = k
    <3>1. CASE k = t
      BY <1>t, <1>o, <3>1
    <3>2. CASE k # t
      <4>1. k \in Taken .. t - 1 /\ k + 1 \in 1 .. t
        BY <1>a, <3>2, QueueTypes
      <4>2. Published(k) \/ \E q \in Producers : Owner(q) /\ idx[q] = k
        BY <1>a, <4>1, QueueTypes DEF SlotsInv
      <4>3. Published(k) => Published(k)'
        BY <1>l, <1>t, <4>1 DEF Published
      <4> QED BY <1>o, <4>2, <4>3
    <3> QED BY <3>1, <3>2
  <2>3. \A k \in t .. Cleared + Capacity - 1 : Free(k)
    BY <1>a, QueueTypes DEF SlotsInv
  <2>4. ASSUME NEW q \in Producers, Owner(q)'
        PROVE  /\ ready[Slot(idx[q])] = 0
               /\ storage[Slot(idx[q])] = IF pc'[q] = "owned" THEN Raw ELSE Obj(q)
    <3>1. CASE q = p
      BY <1>a, <1>t, <1>n, <1>p, <2>3, <3>1, QueueTypes DEF Free
    <3>2. CASE q # p
      BY <1>a, <1>o, <1>q, <2>4, <3>2, QueueTypes DEF SlotsInv
    <3> QED BY <3>1, <3>2
  <2>5. \A k \in t + 1 .. Cleared + Capacity - 1 : Free(k)'
    BY <1>a, <1>t, <2>3, QueueTypes DEF Free
  <2>6. t' - 1 = t
    BY <1>a, <1>t, QueueTypes
  <2> QED BY <1>c, <1>t, <2>1, <2>2, <2>4, <2>5, <2>6 DEF SlotsInv, Obj
<1> QED BY <1>a, <1>t, <1>n, <1>1, <1>2, <1>3 DEF QueueInv

(* The slot of a claimed ticket shares nothing with the other tickets in the lap. *)
LEMMA OwnedSlotIsApart ==
  ASSUME QueueInv, alive, NEW p \in Producers, Owner(p)
  PROVE  /\ Slot(idx[p]) \in Slots
         /\ \A k \in Cleared .. Cleared + Capacity - 1 :
              k # idx[p] => Slot(k) # Slot(idx[p]) /\ Slot(k) \in Slots
         /\ \A q \in Producers : Owner(q) /\ q # p => Slot(idx[q]) # Slot(idx[p]) /\ Slot(idx[q]) \in Slots
<1>1. idx[p] \in Taken .. t - 1 /\ \A q \in Producers : idx[q] \in Nat
  BY QueueTypes DEF TicketsInv
<1>2. ASSUME NEW k \in Cleared .. Cleared + Capacity - 1, k # idx[p]
      PROVE  Slot(k) # Slot(idx[p]) /\ Slot(k) \in Slots
  BY <1>1, <1>2, QueueTypes, WindowDistinct, SlotInSlots
<1> QED BY <1>1, <1>2, OwnersDiffer, SlotInSlots

(* Construct fills the storage of the producer's own slot. *)
LEMMA ConstructPreserves ==
  ASSUME QueueInv, NEW p \in Producers, Construct(p)
  PROVE  QueueInv'
<1>a. alive /\ Owner(p)
  BY DEF QueueInv, Construct, Owner
<1>t. /\ pc[p] = "owned" /\ storage' = [storage EXCEPT ![Slot(idx[p])] = Obj(p)]
      /\ pc' = [pc EXCEPT ![p] = "handover"]
      /\ UNCHANGED <<ready, t, mode, idx, tries, ops, h, cpc, got, alive, log>>
  BY DEF Construct, Goto, consumerVars
<1>n. ops[p] \in 1 .. MaxOps /\ Obj(p) \in Values /\ idx[p] \in Taken .. t - 1
  BY <1>a, <1>t, QueueTypes DEF TicketsInv, Obj, Values
<1>o. \A q \in Producers : Owner(q)' <=> Owner(q)
  BY <1>a, <1>t, QueueTypes DEF TypeOK, Owner
<1>q. pc'[p] = "handover" /\ \A q \in Producers \ {p} : pc'[q] = pc[q]
  BY <1>a, <1>t, QueueTypes DEF TypeOK
<1>s. /\ storage'[Slot(idx[p])] = Obj(p)
      /\ \A s \in Slots : s # Slot(idx[p]) => storage'[s] = storage[s]
  BY <1>a, <1>t, OwnedSlotIsApart, QueueTypes DEF TypeOK
<1>c. Taken' = Taken /\ Cleared' = Cleared
  BY <1>t DEF Taken, Cleared
<1>1. TypeOK'
  BY <1>a, <1>t, <1>n, QueueTypes DEF TypeOK
<1>2. TicketsInv'
  BY <1>a, <1>t, <1>n, <1>c, <1>o, <1>q, QueueTypes DEF TicketsInv, Obj
<1>3. SlotsInv'
  <2>1. \A k \in Cleared .. Taken - 1 : ready[Slot(k)] = 1 /\ storage'[Slot(k)] = Raw
    BY <1>a, <1>n, <1>s, OwnedSlotIsApart, QueueTypes DEF SlotsInv
  <2>2. ASSUME NEW k \in Taken .. t - 1
        PROVE  Published(k)' \/ \E q \in Producers : Owner(q)' /\ idx[q] = k
    <3>1. CASE k = idx[p]
      BY <1>a, <1>o, <3>1
    <3>2. CASE k # idx[p]
      <4>1. storage'[Slot(k)] = storage[Slot(k)]
        BY <1>a, <1>s, <3>2, OwnedSlotIsApart, QueueTypes
      <4> QED BY <1>a, <1>t, <1>o, <4>1, QueueTypes DEF SlotsInv, Published
    <3> QED BY <3>1, <3>2
  <2>3. \A k \in t .. Cleared + Capacity - 1 : Free(k)'
    BY <1>a, <1>n, <1>t, <1>s, OwnedSlotIsApart, QueueTypes DEF SlotsInv, Free
  <2>4. ASSUME NEW q \in Producers, Owner(q)
        PROVE  /\ ready[Slot(idx[q])] = 0
               /\ storage'[Slot(idx[q])] = IF pc'[q] = "owned" THEN Raw ELSE Obj(q)
    <3>1. CASE q = p
      BY <1>a, <1>q, <1>s, <3>1, QueueTypes DEF SlotsInv
    <3>2. CASE q # p
      BY <1>a, <1>q, <1>s, <2>4, <3>2, OwnedSlotIsApart, QueueTypes DEF SlotsInv
    <3> QED BY <3>1, <3>2
  <2> QED BY <1>c, <1>t, <1>o, <2>1, <2>2, <2>3, <2>4 DEF SlotsInv, Obj
<1> QED BY <1>a, <1>t, <1>1, <1>2, <1>3 DEF QueueInv

(* Publish raises the flag of the producer's own slot. *)
LEMMA PublishPreserves ==
  ASSUME QueueInv, NEW p \in Producers, Publish(p)
  PROVE  QueueInv'
<1>a. alive /\ Owner(p)
  BY DEF QueueInv, Publish, Owner
<1>t. /\ pc[p] = "handover" /\ ready' = [ready EXCEPT ![Slot(idx[p])] = 1]
      /\ pc' = [pc EXCEPT ![p] = "idle"]
      /\ UNCHANGED <<storage, t, mode, idx, tries, ops, h, cpc, got, alive, log>>
  BY DEF Publish, Goto, consumerVars
<1>n. idx[p] \in Taken .. t - 1 /\ log[idx[p] + 1] = Obj(p)
  BY <1>a, <1>t, QueueTypes DEF TicketsInv
<1>q. pc'[p] = "idle" /\ \A q \in Producers \ {p} : pc'[q] = pc[q]
  BY <1>a, <1>t, QueueTypes DEF TypeOK
<1>o. \A q \in Producers : Owner(q)' <=> Owner(q) /\ q # p
  BY <1>q DEF Owner
<1>s. /\ ready'[Slot(idx[p])] = 1
      /\ \A s \in Slots : s # Slot(idx[p]) => ready'[s] = ready[s]
  BY <1>a, <1>t, OwnedSlotIsApart, QueueTypes DEF TypeOK
<1>c. Taken' = Taken /\ Cleared' = Cleared
  BY <1>t DEF Taken, Cleared
<1>1. TypeOK'
  BY <1>a, <1>t, QueueTypes DEF TypeOK
<1>2. TicketsInv'
  <2>1. cpc \in {"take", "clear"} => h < t /\ ready'[Slot(h)] = 1
    BY <1>a, <1>s, QueueTypes, SlotInSlots DEF TicketsInv
  <2> QED BY <1>a, <1>t, <1>c, <1>o, <1>q, <2>1, QueueTypes DEF TicketsInv, Obj
<1>3. SlotsInv'
  <2>1. \A k \in Cleared .. Taken - 1 : ready'[Slot(k)] = 1 /\ storage[Slot(k)] = Raw
    BY <1>a, <1>n, <1>s, OwnedSlotIsApart, QueueTypes DEF SlotsInv
  <2>2. ASSUME NEW k \in Taken .. t - 1
        PROVE  Published(k)' \/ \E q \in Producers : Owner(q)' /\ idx[q] = k
    <3>1. CASE k = idx[p]
      <4>1. storage[Slot(k)] = Obj(p)
        BY <1>a, <1>t, <3>1, QueueTypes DEF SlotsInv
      <4> QED BY <1>n, <1>s, <1>t, <3>1, <4>1 DEF Published
    <3>2. CASE k # idx[p]
      <4>1. ready'[Slot(k)] = ready[Slot(k)]
        BY <1>a, <1>s, <3>2, OwnedSlotIsApart, QueueTypes
      <4>2. Published(k) \/ \E q \in Producers : Owner(q) /\ idx[q] = k
        BY <1>a, QueueTypes DEF SlotsInv
      <4> QED BY <1>t, <1>o, <3>2, <4>1, <4>2 DEF Published
    <3> QED BY <3>1, <3>2
  <2>3. \A k \in t .. Cleared + Capacity - 1 : Free(k)'
    BY <1>a, <1>n, <1>t, <1>s, OwnedSlotIsApart, QueueTypes DEF SlotsInv, Free
  <2>4. ASSUME NEW q \in Producers, Owner(q), q # p
        PROVE  /\ ready'[Slot(idx[q])] = 0
               /\ storage[Slot(idx[q])] = IF pc'[q] = "owned" THEN Raw ELSE Obj(q)
    BY <1>a, <1>q, <1>s, <2>4, OwnedSlotIsApart, QueueTypes DEF SlotsInv
  <2> QED BY <1>c, <1>t, <1>o, <2>1, <2>2, <2>3, <2>4 DEF SlotsInv, Obj
<1> QED BY <1>a, <1>t, <1>1, <1>2, <1>3 DEF QueueInv

(* Only a published ticket can be at the head when its flag is up. *)
LEMMA HeadIsPublished ==
  ASSUME QueueInv, alive, cpc \in {"check", "take"}, ready[Slot(h)] = 1
  PROVE  h < t /\ Published(h) /\ Taken = h /\ Cleared = h
<1>1. Taken = h /\ Cleared = h
  BY DEF Taken, Cleared
<1>2. h < t
  <2> SUFFICES ASSUME h = t PROVE FALSE
    BY <1>1, QueueTypes
  <2>1. Free(h)
    BY <1>1, QueueTypes DEF SlotsInv
  <2> QED BY <2>1 DEF Free
<1>3. Published(h)
  BY <1>1, <1>2, QueueTypes DEF SlotsInv
<1> QED BY <1>1, <1>2, <1>3

(* The consumer's steps that change no slot and neither number. *)
LEMMA ConsumerMoves ==
  ASSUME QueueInv, BeginPop \/ CheckHead \/ Advance
  PROVE  QueueInv'
<1>a. alive
  BY DEF QueueInv, BeginPop, CheckHead, Advance
<1>c. Taken' = Taken /\ Cleared' = Cleared
  BY DEF Taken, Cleared, BeginPop, CheckHead, Advance
<1>t. UNCHANGED <<ready, storage, t, got, pc, mode, idx, tries, ops, alive, log>>
  BY DEF BeginPop, CheckHead, Advance, producerVars
<1>1. h' \in Nat /\ cpc' \in {"idle", "check", "take", "clear", "advance"}
  <2>1. h' = h \/ h' = h + 1
    BY DEF BeginPop, CheckHead, Advance
  <2>2. cpc' \in {"idle", "check", "take"}
    BY DEF BeginPop, CheckHead, Advance
  <2> QED BY <1>a, <2>1, <2>2, QueueTypes
<1>2. TypeOK'
  BY <1>a, <1>t, <1>1, QueueTypes DEF TypeOK
<1>3. cpc' \in {"take", "clear"} => h' < t /\ ready[Slot(h')] = 1
  BY <1>a, HeadIsPublished DEF BeginPop, CheckHead, Advance
<1>4. TicketsInv' /\ SlotsInv'
  BY <1>a, <1>c, <1>t, <1>3, QueueTypes DEF TicketsInv, SlotsInv, Owner, Obj, Published, Free
<1> QED BY <1>a, <1>t, <1>2, <1>4 DEF QueueInv

(* Take empties the slot of the oldest published ticket. *)
LEMMA TakePreserves ==
  ASSUME QueueInv, Take
  PROVE  QueueInv' /\ Taken = h /\ h < t /\ storage[Slot(h)] = log[h + 1]
<1>a. alive
  BY DEF QueueInv, Take
<1>t. /\ cpc = "take" /\ got' = storage[Slot(h)] /\ storage' = [storage EXCEPT ![Slot(h)] = Raw]
      /\ cpc' = "clear"
      /\ UNCHANGED <<ready, t, h, pc, mode, idx, tries, ops, alive, log>>
  BY DEF Take, producerVars
<1>n. h < t /\ Published(h) /\ Taken = h /\ Cleared = h /\ ready[Slot(h)] = 1
  <2>1. ready[Slot(h)] = 1
    BY <1>a, <1>t, QueueTypes DEF TicketsInv
  <2> QED BY <1>a, <1>t, <2>1, HeadIsPublished
<1>v. log[h + 1] \in Values /\ got' = log[h + 1]
  BY <1>a, <1>t, <1>n, QueueTypes DEF TypeOK, Published
<1>c. Taken' = h + 1 /\ Cleared' = h
  BY <1>t DEF Taken, Cleared
<1>s. /\ Slot(h) \in Slots /\ storage'[Slot(h)] = Raw
      /\ \A s \in Slots : s # Slot(h) => storage'[s] = storage[s]
  BY <1>a, <1>t, SlotInSlots, QueueTypes DEF TypeOK
<1>w. \A k \in h + 1 .. h + Capacity - 1 : Slot(k) \in Slots /\ Slot(k) # Slot(h)
  BY <1>a, QueueTypes, WindowDistinct, SlotInSlots
<1>o. \A p \in Producers : Owner(p) => idx[p] \in h + 1 .. t - 1
  <2> SUFFICES ASSUME NEW p \in Producers, Owner(p) PROVE idx[p] \in h + 1 .. t - 1
    OBVIOUS
  <2>1. idx[p] \in h .. t - 1 /\ ready[Slot(idx[p])] = 0
    BY <1>a, <1>n, QueueTypes DEF TicketsInv, SlotsInv
  <2> QED BY <1>a, <1>n, <2>1, QueueTypes
<1>1. TypeOK'
  BY <1>a, <1>t, <1>v, QueueTypes DEF TypeOK
<1>2. TicketsInv'
  <2>1. h + 1 <= t
    BY <1>a, <1>n, QueueTypes
  <2> QED BY <1>a, <1>t, <1>n, <1>c, <1>o, <2>1, QueueTypes DEF TicketsInv, Owner, Obj
<1>3. SlotsInv'
  <2>1. \A k \in h .. h : ready[Slot(k)] = 1 /\ storage'[Slot(k)] = Raw
    BY <1>n, <1>s
  <2>2. ASSUME NEW k \in h + 1 .. t - 1
        PROVE  Published(k)' \/ \E p \in Producers : Owner(p) /\ idx[p] = k
    <3>1. storage'[Slot(k)] = storage[Slot(k)]
      BY <1>a, <1>n, <1>s, <1>w, QueueTypes
    <3>2. k \in Taken .. t - 1
      BY <1>a, <1>n, QueueTypes
    <3> QED BY <1>a, <1>t, <3>1, <3>2, QueueTypes DEF SlotsInv, Published
  <2>3. \A k \in t .. h + Capacity - 1 : Free(k)'
    BY <1>a, <1>t, <1>n, <1>s, <1>w, QueueTypes DEF SlotsInv, Free
  <2>4. ASSUME NEW p \in Producers, Owner(p)
        PROVE  /\ ready[Slot(idx[p])] = 0
               /\ storage'[Slot(idx[p])] = IF pc[p] = "owned" THEN Raw ELSE Obj(p)
    <3>1. idx[p] \in h + 1 .. h + Capacity - 1
      BY <1>a, <1>n, <1>o, <2>4, QueueTypes
    <3> QED BY <1>a, <1>s, <1>w, <2>4, <3>1, QueueTypes DEF SlotsInv
  <2>5. Taken' - 1 = h /\ \A p \in Producers : (Owner(p)' <=> Owner(p)) /\ Obj(p)' = Obj(p)
    BY <1>a, <1>t, <1>c, QueueTypes DEF Owner, Obj
  <2> QED BY <1>t, <1>c, <2>1, <2>2, <2>3, <2>4, <2>5 DEF SlotsInv
<1> QED BY <1>a, <1>t, <1>n, <1>1, <1>2, <1>3 DEF QueueInv, Published

(* Clear gives the slot of the taken ticket to the ticket one lap ahead. *)
LEMMA ClearPreserves ==
  ASSUME QueueInv, Clear
  PROVE  QueueInv'
<1>a. alive
  BY DEF QueueInv, Clear
<1>t. /\ cpc = "clear" /\ ready' = [ready EXCEPT ![Slot(h)] = 0] /\ cpc' = "advance"
      /\ UNCHANGED <<storage, t, h, got, pc, mode, idx, tries, ops, alive, log>>
  BY DEF Clear, producerVars
<1>n. Taken = h + 1 /\ Cleared = h /\ storage[Slot(h)] = Raw
  <2>1. Taken = h + 1 /\ Cleared = h
    BY <1>t DEF Taken, Cleared
  <2> QED BY <1>a, <2>1, QueueTypes DEF SlotsInv
<1>c. Taken' = h + 1 /\ Cleared' = h + 1
  BY <1>t DEF Taken, Cleared
<1>s. /\ Slot(h) \in Slots /\ ready'[Slot(h)] = 0
      /\ \A s \in Slots : s # Slot(h) => ready'[s] = ready[s]
  BY <1>a, <1>t, SlotInSlots, QueueTypes DEF TypeOK
<1>w. \A k \in h + 1 .. h + Capacity - 1 : Slot(k) \in Slots /\ Slot(k) # Slot(h)
  BY <1>a, QueueTypes, WindowDistinct, SlotInSlots
<1>1. TypeOK'
  BY <1>a, <1>t, QueueTypes DEF TypeOK
<1>2. TicketsInv'
  BY <1>a, <1>t, <1>n, <1>c, QueueTypes DEF TicketsInv, Owner, Obj
<1>3. SlotsInv'
  <2>1. ASSUME NEW k \in h + 1 .. t - 1
        PROVE  Published(k)' \/ \E p \in Producers : Owner(p) /\ idx[p] = k
    <3>1. ready'[Slot(k)] = ready[Slot(k)]
      BY <1>a, <1>n, <1>s, <1>w, QueueTypes
    <3> QED BY <1>a, <1>t, <1>n, <3>1, QueueTypes DEF SlotsInv, Published
  <2>2. ASSUME NEW k \in t .. h + Capacity
        PROVE  Free(k)'
    <3>1. CASE k = h + Capacity
      BY <1>a, <1>t, <1>n, <1>s, <3>1, SlotPeriod, QueueTypes DEF Free
    <3>2. CASE k # h + Capacity
      <4>1. k \in h + 1 .. h + Capacity - 1 /\ k \in t .. Cleared + Capacity - 1
        BY <1>a, <1>n, <3>2, QueueTypes
      <4> QED BY <1>a, <1>t, <1>s, <1>w, <4>1, QueueTypes DEF SlotsInv, Free
    <3> QED BY <3>1, <3>2
  <2>3. ASSUME NEW p \in Producers, Owner(p)
        PROVE  /\ ready'[Slot(idx[p])] = 0
               /\ storage[Slot(idx[p])] = IF pc[p] = "owned" THEN Raw ELSE Obj(p)
    <3>1. idx[p] \in h + 1 .. h + Capacity - 1
      BY <1>a, <1>n, <2>3, QueueTypes DEF TicketsInv
    <3> QED BY <1>a, <1>s, <1>w, <2>3, <3>1, QueueTypes DEF SlotsInv
  <2>4. \A k \in h + 1 .. h : FALSE
    BY <1>a, QueueTypes
  <2>5. h + 1 + Capacity - 1 = h + Capacity /\ h + 1 - 1 = h
    BY <1>a, QueueTypes
  <2> QED BY <1>t, <1>c, <2>1, <2>2, <2>3, <2>4, <2>5 DEF SlotsInv, Owner, Obj
<1> QED BY <1>a, <1>t, <1>1, <1>2, <1>3 DEF QueueInv

(* The destructor, which nobody may run against, meets every object left. *)
LEMMA DestroyPreserves ==
  ASSUME QueueInv, Destroy
  PROVE  QueueInv'
<1> DEFINE left == {Slot(k) : k \in h .. t - 1}
           full == {s \in left : ready[s] = 1}
<1>t. /\ alive /\ cpc = "idle" /\ (\A p \in Producers : pc[p] = "idle") /\ alive' = FALSE
      /\ storage' = [s \in Slots |-> IF s \in full THEN Raw ELSE storage[s]]
      /\ ready' = [s \in Slots |-> IF s \in full THEN 0 ELSE ready[s]]
      /\ UNCHANGED <<t, h, cpc, got, pc, mode, idx, tries, ops, log>>
  BY DEF Destroy, consumerVars, producerVars
<1>n. Taken = h /\ Cleared = h /\ \A p \in Producers : ~Owner(p)
  BY <1>t DEF Taken, Cleared, Owner
<1>1. ASSUME NEW s \in Slots PROVE storage'[s] = Raw
  <2>1. PICK k \in h .. h + Capacity - 1 : Slot(k) = s
    BY <1>t, QueueTypes, LapCoversSlots
  <2>2. CASE k < t
    <3>1. k \in h .. t - 1 /\ k \in Taken .. t - 1
      BY <1>t, <1>n, <2>2, QueueTypes
    <3>2. s \in left /\ ready[s] = 1
      BY <1>t, <1>n, <2>1, <3>1, QueueTypes DEF SlotsInv, Published
    <3> QED BY <1>t, <3>2
  <2>3. CASE k >= t
    <3>1. k \in t .. Cleared + Capacity - 1
      BY <1>t, <1>n, <2>1, <2>3, QueueTypes
    <3>2. storage[s] = Raw
      BY <1>t, <2>1, <3>1, QueueTypes DEF SlotsInv, Free
    <3> QED BY <1>t, <3>2
  <2> QED BY <1>t, <2>1, <2>2, <2>3, QueueTypes
<1> HIDE DEF full
<1>2. storage' \in [Slots -> Values \cup {Raw}] /\ ready' \in [Slots -> {0, 1}]
  BY <1>t, QueueTypes DEF TypeOK
<1>3. TypeOK'
  BY <1>t, <1>2, QueueTypes DEF TypeOK
<1> QED BY <1>t, <1>1, <1>3 DEF QueueInv

(* Every step of the queue, and of a program that uses it, keeps the invariant. *)
LEMMA QueueStep == Prompt /\ QueueInv /\ [Next]_mpscVars => QueueInv'
<1> SUFFICES ASSUME Prompt, QueueInv, [Next]_mpscVars PROVE QueueInv'
  OBVIOUS
<1>1. CASE \E p \in Producers : BeginEmplace(p) \/ EmplaceStep(p)
  BY <1>1, AttemptPreserves, ClaimPreserves, ConstructPreserves, PublishPreserves DEF EmplaceStep
<1>2. CASE BeginPop \/ PopStep
  BY <1>2, ConsumerMoves, TakePreserves, ClearPreserves DEF PopStep
<1>3. CASE Destroy
  BY <1>3, DestroyPreserves
<1>4. CASE UNCHANGED mpscVars
  BY <1>4 DEF mpscVars, producerVars, consumerVars, QueueInv, TypeOK, TicketsInv, SlotsInv,
     Taken, Cleared, Owner, Obj, Published, Free
<1> QED BY <1>1, <1>2, <1>3, <1>4 DEF Next

(* What the invariant says of the objects. *)
LEMMA QueueSafe == QueueInv => StorageMatchesUse /\ NothingLeaks
<1> SUFFICES ASSUME QueueInv PROVE StorageMatchesUse /\ NothingLeaks
  OBVIOUS
<1>1. CASE alive
  <2>1. ASSUME NEW p \in Producers, pc[p] = "owned"
        PROVE  storage[Slot(idx[p])] = Raw
    BY <1>1, <2>1, QueueTypes DEF SlotsInv, Owner
  <2>2. cpc = "take" => ready[Slot(h)] = 1
    BY <1>1, QueueTypes DEF TicketsInv
  <2>3. cpc = "take" => h < t /\ storage[Slot(h)] = log[h + 1]
    BY <1>1, <2>2, HeadIsPublished DEF Published
  <2> QED BY <1>1, <2>1, <2>3 DEF StorageMatchesUse, NothingLeaks
<1>2. CASE ~alive
  BY <1>2 DEF QueueInv, StorageMatchesUse, NothingLeaks
<1> QED BY <1>1, <1>2

(* An emplace is a Put at its CAS, a pop a Get when it moves the object out, and
   every other step of the queue a stutter. *)
LEMMA QueueFifoStep == QueueInv /\ [Next]_mpscVars => [Fifo!Next]_(Fifo!fifoVars)
<1> DEFINE GotBar == [c \in {"consumer"} |-> got]
<1> SUFFICES ASSUME QueueInv, [Next]_mpscVars
             PROVE  Fifo!Next \/ (log' = log /\ Taken' = Taken /\ GotBar' = GotBar)
  BY DEF Fifo!fifoVars, Taken
<1>1. ASSUME NEW p \in Producers, ClaimTail(p)
      PROVE  Fifo!Next
  <2>1. t < Cleared + Capacity /\ Obj(p) \in Values /\ alive
    BY <1>1, ClaimPreserves DEF ClaimTail, QueueInv
  <2>2. Len(log) - Taken < Capacity
    BY <2>1, QueueTypes DEF TypeOK
  <2>3. log' = Append(log, Obj(p)) /\ Taken' = Taken /\ GotBar' = GotBar
    BY <1>1 DEF ClaimTail, Taken, consumerVars
  <2>4. Fifo!Put(Obj(p))
    BY <2>2, <2>3 DEF Fifo!Put, Taken
  <2> QED BY <2>1, <2>4 DEF Fifo!Next
<1>2. CASE Take
  <2>1. Taken = h /\ h < t /\ storage[Slot(h)] = log[h + 1] /\ Len(log) = t
    BY <1>2, TakePreserves DEF QueueInv, TypeOK
  <2>2. log' = log /\ Taken' = h + 1 /\ got' = log[h + 1]
    BY <1>2, <2>1 DEF Take, Taken, producerVars
  <2>3. GotBar' = [GotBar EXCEPT !["consumer"] = log[h + 1]]
    BY <2>2
  <2>4. Fifo!Get("consumer")
    BY <2>1, <2>2, <2>3 DEF Fifo!Get, Taken
  <2> QED BY <2>4 DEF Fifo!Next
<1>3. ASSUME UNCHANGED <<log, got>>, Taken' = Taken
      PROVE  log' = log /\ Taken' = Taken /\ GotBar' = GotBar
  BY <1>3
<1>4. ASSUME NEW p \in Producers,
             BeginEmplace(p) \/ LoadTail(p) \/ CheckReady(p) \/ MissTail(p) \/ Construct(p) \/ Publish(p)
      PROVE  UNCHANGED <<log, got>> /\ Taken' = Taken
  BY <1>4 DEF BeginEmplace, LoadTail, CheckReady, MissTail, Construct, Publish, consumerVars, Taken
<1>5. CASE BeginPop \/ CheckHead \/ Clear \/ Advance \/ Destroy \/ UNCHANGED mpscVars
  BY <1>3, <1>5 DEF BeginPop, CheckHead, Clear, Advance, Destroy, mpscVars, consumerVars, Taken
<1> QED BY <1>1, <1>2, <1>3, <1>4, <1>5 DEF Next, EmplaceStep, PopStep

(* The empty queue is the empty abstract queue. *)
LEMMA QueueFifoInit == Init => Fifo!Init
BY DEF Init, Fifo!Init

-----------------------------------------------------------------------------
(* The executor *)

(* To the queue, a step of the executor is a step of its users or nothing. *)
LEMMA ExecutorUsesQueue == [ExecNext]_vars => [Next]_mpscVars
<1> SUFFICES ASSUME [ExecNext]_vars PROVE [Next]_mpscVars
  OBVIOUS
<1>1. ASSUME NEW p \in Producers, Dispatch(p) \/ DispatchStep(p)
      PROVE  [Next]_mpscVars
  BY <1>1 DEF Dispatch, DispatchStep, Emplacing, Emplaced, WakeUp, Next, EmplaceStep
<1>2. CASE LoopStep
  BY <1>2 DEF LoopStep, ReadEventfd, StartPop, PopFinds, PopMoves, RunTask, TaskReturns, EndRound,
     Next, PopStep
<1>3. CASE RegisterTo \/ Recurse \/ Shutdown \/ UNCHANGED vars
  BY <1>3 DEF RegisterTo, Recurse, Shutdown, vars, Next
<1> QED BY <1>1, <1>2, <1>3 DEF ExecNext

(* The executor begins asleep, with an empty queue. *)
LEMMA ExecutorInit == ExecInit => Inv
<1> SUFFICES ASSUME ExecInit PROVE Inv
  OBVIOUS
<1>1. QueueInv
  BY QueueInit DEF ExecInit
<1>2. LoopInv
  BY DEF ExecInit, Init, LoopInv
<1>3. NoLostWakeUp
  BY DEF ExecInit, Init, NoLostWakeUp
<1> QED BY <1>1, <1>2, <1>3 DEF Inv

(* A round that ends goes to poll or back into the task around it. *)
LEMMA ProcReturnsTypes ==
  ASSUME LoopInv, ProcReturns
  PROVE  lpc' \in {"poll", "task"} /\ round' \in Nat /\ outer' \in Seq(Nat)
<1>1. CASE outer = <<>>
  BY <1>1 DEF ProcReturns, LoopInv
<1>2. CASE outer # <<>>
  <2>1. outer \in Seq(Nat) /\ Len(outer) \in Nat \ {0}
    BY <1>2 DEF LoopInv
  <2>2. Last(outer) \in Nat
    BY <2>1 DEF Last
  <2>3. Front(outer) \in Seq(Nat)
    BY <2>1 DEF Front
  <2> QED BY <1>2, <2>2, <2>3 DEF ProcReturns
<1> QED BY <1>1, <1>2

(* A signal makes the descriptor readable, even a saturated one. *)
LEMMA SignalWakes ==
  ASSUME efd \in Nat
  PROVE  Signalled \in Nat /\ Signalled > 0
BY ExecutorAssumption DEF Signalled

(* The loop pops only inside a round, and nobody dispatches to a dead queue. *)
LEMMA LoopPreserved ==
  ASSUME QueueInv, LoopInv, [ExecNext]_vars
  PROVE  LoopInv'
<1>1. ASSUME NEW p \in Producers, Dispatch(p) \/ Emplacing(p)
      PROVE  LoopInv'
  <2>1. UNCHANGED <<execVars, cpc, alive>>
    BY <1>1 DEF Dispatch, Emplacing, BeginEmplace, LoadTail, CheckReady, ClaimTail, MissTail,
       Construct, consumerVars
  <2> QED BY <2>1 DEF LoopInv, execVars
<1>2. ASSUME NEW p \in Producers, Emplaced(p)
      PROVE  LoopInv'
  <2>1. /\ pc[p] = "handover" /\ waking' = waking \cup {p}
        /\ UNCHANGED <<efd, lpc, round, outer, cpc, alive>>
    BY <1>2 DEF Emplaced, Publish, consumerVars
  <2>2. alive
    BY <2>1 DEF QueueInv
  <2> QED BY <2>1, <2>2 DEF LoopInv
<1>3. ASSUME NEW p \in Producers, WakeUp(p)
      PROVE  LoopInv'
  <2>1. /\ waking' = waking \ {p} /\ efd' = Signalled
        /\ UNCHANGED <<lpc, round, outer, cpc, alive>>
    BY <1>3 DEF WakeUp, mpscVars, consumerVars
  <2> QED BY <2>1, SignalWakes DEF LoopInv
<1>4. CASE ReadEventfd \/ TaskReturns \/ RegisterTo
  BY <1>4 DEF ReadEventfd, TaskReturns, RegisterTo, mpscVars, consumerVars, LoopInv
<1>5. CASE Recurse
  <2>1. /\ efd' = 0 /\ outer' = Append(outer, round) /\ round' = 0 /\ lpc' = "round"
        /\ UNCHANGED <<waking, cpc, alive>>
    BY <1>5 DEF Recurse, mpscVars, consumerVars
  <2>2. outer' \in Seq(Nat)
    BY <2>1 DEF LoopInv
  <2> QED BY <2>1, <2>2 DEF LoopInv
<1>6. CASE StartPop \/ PopMoves
  BY <1>6 DEF StartPop, PopMoves, BeginPop, Take, Clear, execVars, LoopInv
<1>7. CASE PopFinds
  <2>1. cpc = "check" /\ lpc = "round" /\ UNCHANGED <<efd, waking, alive>>
    BY <1>7 DEF PopFinds, CheckHead, LoopInv
  <2>2. CASE cpc' = "idle" /\ ProcReturns
    BY <2>1, <2>2, ProcReturnsTypes DEF LoopInv
  <2>3. CASE UNCHANGED <<lpc, round, outer>>
    BY <2>1, <2>3 DEF LoopInv
  <2> QED BY <1>7, <2>2, <2>3 DEF PopFinds
<1>8. CASE RunTask
  <2>1. /\ cpc' = "idle" /\ lpc' = "task" /\ UNCHANGED <<efd, waking, round, outer, alive>>
    BY <1>8 DEF RunTask, Advance
  <2> QED BY <2>1 DEF LoopInv
<1>9. CASE EndRound
  <2>1. /\ cpc' = "idle" /\ efd' = Signalled /\ ProcReturns /\ UNCHANGED <<waking, alive>>
    BY <1>9 DEF EndRound, mpscVars, consumerVars
  <2> QED BY <2>1, ProcReturnsTypes, SignalWakes DEF LoopInv
<1>10. CASE Shutdown
  BY <1>10 DEF Shutdown, Destroy, consumerVars, LoopInv
<1>11. CASE UNCHANGED vars
  BY <1>11 DEF vars, execVars, mpscVars, consumerVars, LoopInv
<1> QED BY <1>1, <1>2, <1>3, <1>4, <1>5, <1>6, <1>7, <1>8, <1>9, <1>10, <1>11
    DEF ExecNext, DispatchStep, LoopStep

(* The hand-over of a task: between the CAS and the store of ready its producer
   owns it, until the write to the eventfd it is waking, and from then on the
   descriptor is readable; the loop goes to sleep only after it has seen that the
   oldest ticket is not published, or with a signal of its own. *)
LEMMA WakeUpPreserved ==
  ASSUME Inv, [ExecNext]_vars
  PROVE  NoLostWakeUp'
<1> USE DEF Inv
<1> SUFFICES ASSUME alive', lpc' = "poll", efd' = 0, h' < t'
             PROVE  (\E p \in Producers : Owner(p) \/ p \in waking)'
  BY DEF NoLostWakeUp
<1>1. ASSUME UNCHANGED <<lpc, efd, alive, h, t>>,
             \A p \in Producers : Owner(p) \/ p \in waking => (Owner(p) \/ p \in waking)'
      PROVE  (\E p \in Producers : Owner(p) \/ p \in waking)'
  BY <1>1 DEF NoLostWakeUp
<1>2. ASSUME NEW p \in Producers,
             Dispatch(p) \/ (Emplacing(p) /\ ~ClaimTail(p))
      PROVE  (\E q \in Producers : Owner(q) \/ q \in waking)'
  <2>1. alive
    BY <1>2 DEF QueueInv, Dispatch, Emplacing, BeginEmplace, LoadTail, CheckReady, MissTail, Construct
  <2>2. PICK to \in {"idle", "load", "check", "cas", "handover"} :
          /\ pc' = [pc EXCEPT ![p] = to]
          /\ to # "handover" => ~Owner(p)
    BY <1>2 DEF Dispatch, Emplacing, BeginEmplace, LoadTail, CheckReady, MissTail, Construct,
                Goto, Retry, Owner
  <2>3. \A q \in Producers : Owner(q) => Owner(q)'
    BY <2>1, <2>2, QueueTypes DEF Owner, TypeOK
  <2>4. UNCHANGED <<lpc, efd, alive, h, t, waking>>
    BY <1>2 DEF Dispatch, Emplacing, BeginEmplace, LoadTail, CheckReady, MissTail, Construct,
                consumerVars, execVars
  <2> QED BY <1>1, <2>3, <2>4
<1>3. ASSUME NEW p \in Producers, ClaimTail(p)
      PROVE  Owner(p)'
  BY <1>3 DEF ClaimTail, Goto, Owner, QueueInv, TypeOK
<1>4. ASSUME NEW p \in Producers, Emplaced(p)
      PROVE  p \in waking'
  BY <1>4 DEF Emplaced
<1>5. ASSUME NEW p \in Producers, WakeUp(p)
      PROVE  FALSE
  BY <1>5, SignalWakes DEF WakeUp, LoopInv
<1>6. CASE RegisterTo \/ UNCHANGED vars
  BY <1>1, <1>6 DEF RegisterTo, vars, mpscVars, producerVars, consumerVars, execVars, Owner
<1>7. CASE ReadEventfd \/ Recurse \/ TaskReturns \/ RunTask \/ Shutdown
  BY <1>7 DEF ReadEventfd, Recurse, TaskReturns, RunTask, Shutdown, Destroy
<1>8. CASE StartPop \/ PopMoves
  BY <1>8 DEF StartPop, PopMoves, Take, Clear, execVars, LoopInv
<1>9. CASE EndRound
  BY <1>9, SignalWakes DEF EndRound, LoopInv
<1>10. CASE PopFinds
  <2>1. cpc = "check" /\ lpc = "round" /\ ready[Slot(h)] = 0 /\ alive
        /\ UNCHANGED <<h, t, pc, idx, waking>>
    BY <1>10 DEF PopFinds, CheckHead, LoopInv, QueueInv, producerVars
  <2>2. Taken = h /\ h < t
    BY <2>1 DEF Taken
  <2>3. \E p \in Producers : Owner(p) /\ idx[p] = h
    BY <2>1, <2>2, QueueTypes DEF SlotsInv, Published
  <2> QED BY <2>1, <2>3 DEF Owner
<1>11. ASSUME NEW p \in Producers, Dispatch(p) \/ DispatchStep(p)
       PROVE  (\E q \in Producers : Owner(q) \/ q \in waking)'
  <2>1. CASE ClaimTail(p)
    BY <1>3, <2>1
  <2>2. CASE Emplaced(p)
    BY <1>4, <2>2
  <2>3. CASE WakeUp(p)
    BY <1>5, <2>3
  <2>4. CASE Dispatch(p) \/ (Emplacing(p) /\ ~ClaimTail(p))
    BY <1>2, <2>4
  <2> QED BY <1>11, <2>1, <2>2, <2>3, <2>4 DEF DispatchStep
<1>12. CASE LoopStep
  BY <1>7, <1>8, <1>9, <1>10, <1>12 DEF LoopStep
<1> QED BY <1>6, <1>7, <1>11, <1>12 DEF ExecNext

-----------------------------------------------------------------------------
(* The theorems. Prompt is the assumption that a producer is never a whole lap
   behind the others between its CAS and its store of ready. *)

(* The queue's invariant holds for any producers, capacity and number of
   operations, whoever uses the queue. *)
THEOREM QueueInvHolds == Prompt => (Spec => []QueueInv)
<1> SUFFICES ASSUME Prompt PROVE Spec => []QueueInv
  OBVIOUS
<1>1. QueueInv /\ [Next]_mpscVars => QueueInv'
  BY QueueStep
<1> QED BY <1>1, QueueInit, PTL DEF Spec

(* The executor's invariant holds for any rounds and depth of recursion. *)
THEOREM InvHolds == Prompt => (ExecSpec => []Inv)
<1> SUFFICES ASSUME Prompt PROVE ExecSpec => []Inv
  OBVIOUS
<1>1. Inv /\ [ExecNext]_vars => Inv'
  BY QueueStep, ExecutorUsesQueue, LoopPreserved, WakeUpPreserved DEF Inv
<1> QED BY <1>1, ExecutorInit, PTL DEF ExecSpec

(* Producers construct in raw storage and the consumer moves out the object its
   ticket stands for. *)
THEOREM StorageIsUsedRightly == Prompt => (ExecSpec => []StorageMatchesUse)
<1> SUFFICES ASSUME Prompt PROVE ExecSpec => []StorageMatchesUse
  OBVIOUS
<1>1. Inv => StorageMatchesUse
  BY QueueSafe DEF Inv
<1> QED BY <1>1, InvHolds, PTL

(* No task is left in the storage of an executor that has been destroyed. *)
THEOREM DestructorIsExact == Prompt => (ExecSpec => []NothingLeaks)
<1> SUFFICES ASSUME Prompt PROVE ExecSpec => []NothingLeaks
  OBVIOUS
<1>1. Inv => NothingLeaks
  BY QueueSafe DEF Inv
<1> QED BY <1>1, InvHolds, PTL

(* The loop never sleeps on a task without somebody on the way to wake it. *)
THEOREM WakeUpsArrive == Prompt => (ExecSpec => []NoLostWakeUp)
<1> SUFFICES ASSUME Prompt PROVE ExecSpec => []NoLostWakeUp
  OBVIOUS
<1>1. Inv => NoLostWakeUp
  BY DEF Inv
<1> QED BY <1>1, InvHolds, PTL

(* The ring implements the bounded FIFO: an emplace is a Put at its CAS, a pop a
   Get when it moves the object out. *)
THEOREM QueueRefinesFifo == Prompt => (Spec => Fifo!Spec)
<1> SUFFICES ASSUME Prompt PROVE Spec => Fifo!Spec
  OBVIOUS
<1> QED BY QueueInvHolds, QueueFifoInit, QueueFifoStep, PTL DEF Spec, Fifo!Spec

(* The executor's tasks leave the queue in the order of their tickets, each once. *)
THEOREM TasksAreOrdered == Prompt => (ExecSpec => TasksRunInOrder)
<1> SUFFICES ASSUME Prompt PROVE ExecSpec => TasksRunInOrder
  OBVIOUS
<1>1. ExecInit => Fifo!Init
  BY QueueFifoInit DEF ExecInit
<1>2. Inv /\ [ExecNext]_vars => [Fifo!Next]_(Fifo!fifoVars)
  BY ExecutorUsesQueue, QueueFifoStep DEF Inv
<1> QED BY <1>1, <1>2, InvHolds, PTL DEF ExecSpec, TasksRunInOrder, Fifo!Spec
=============================================================================
